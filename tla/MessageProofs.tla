---------------------------- MODULE MessageProofs ----------------------------
(***************************************************************************)
(* Event flags, data queues and priority data queues: no task waits for    *)
(* what is there already, what a task is given is what it waited for, and  *)
(* both kinds of queues are the channels they promise to be.               *)
(***************************************************************************)
EXTENDS Eventflag, Dataqueue, Pridataq, TaskKernelProofs, SequenceTheorems

(* Who waits waits for some bit, so that a cleared flag serves nobody.     *)
FlgInv ==
  /\ flgptn \in [Eventflag -> FLGPTN]
  /\ waiptn \in [Task -> FLGPTN] /\ wfmode \in [Task -> MODE]
  /\ \A t \in Task : waiton[t] \in Eventflag => waiptn[t] # {}
  /\ NoMissedFlag

FlgQuiet == (KernelCall \/ UNCHANGED vars) /\ UNCHANGED flgOwn
FlgAccepts(f, wai, mode) == checkContextTaskUnlock /\ accept(f, wai, mode)
FlgWaits(f, wai, mode) ==
  /\ ~ Cond(flgptn[f], wai, mode) /\ QueueWait(f)
  /\ waiptn' = [waiptn EXCEPT ![runtsk] = wai]
  /\ wfmode' = [wfmode EXCEPT ![runtsk] = mode] /\ UNCHANGED flgptn
FlgResets(f) ==
  /\ wobj_release(f, Waiters(f), "error")
  /\ flgptn' = [flgptn EXCEPT ![f] = iflgptn[f]] /\ UNCHANGED <<waiptn, wfmode>>

(* Every step of the event flags is one of these.                          *)
LEMMA EventflagSteps ==
  ASSUME [FlgNext]_flgVars
  PROVE  \/ FlgQuiet
         \/ \E f \in Eventflag :
              \/ FlgResets(f)
              \/ \E ptn \in FLGPTN : set_flg(f, ptn) \/ clr_flg(f, ptn)
              \/ \E wai \in FLGPTN \ {{}}, mode \in MODE :
                   FlgAccepts(f, wai, mode) \/ FlgWaits(f, wai, mode)
<1>1. ASSUME NEW f \in Eventflag,
             \/ ini_flg(f)
             \/ \E ptn \in FLGPTN : set_flg(f, ptn) \/ clr_flg(f, ptn)
             \/ \E wai \in FLGPTN \ {{}}, mode \in MODE :
                  \/ pol_flg(f, wai, mode)
                  \/ \E timed \in BOOLEAN : wai_flg(f, wai, mode, timed)
      PROVE  \/ FlgResets(f)
             \/ \E ptn \in FLGPTN : set_flg(f, ptn) \/ clr_flg(f, ptn)
             \/ \E wai \in FLGPTN \ {{}}, mode \in MODE :
                  FlgAccepts(f, wai, mode) \/ FlgWaits(f, wai, mode)
  <2>1. ini_flg(f) => FlgResets(f)
    BY DEF ini_flg, FlgResets
  <2>2. \A wai \in FLGPTN \ {{}}, mode \in MODE :
          pol_flg(f, wai, mode) => FlgAccepts(f, wai, mode)
    BY DEF pol_flg, FlgAccepts
  <2>3. \A wai \in FLGPTN \ {{}}, mode \in MODE, timed \in BOOLEAN :
          wai_flg(f, wai, mode, timed) => FlgAccepts(f, wai, mode) \/ FlgWaits(f, wai, mode)
    BY DEF wai_flg, FlgAccepts, FlgWaits, QueueWait, checkDispatch
  <2> QED BY <1>1, <2>1, <2>2, <2>3
<1>2. CASE EventflagCall
  BY <1>1, <1>2 DEF EventflagCall
<1>3. CASE (KernelCall /\ UNCHANGED flgOwn) \/ UNCHANGED flgVars
  BY <1>3 DEF FlgQuiet, flgVars
<1> QED BY <1>2, <1>3 DEF FlgNext

(* The task that calls does not wait.                                      *)
LEMMA CallerRuns ==
  ASSUME IInv, checkContextTaskUnlock
  PROVE  runtsk \in Task /\ waiton[runtsk] = "NONE"
BY DEF checkContextTaskUnlock, TaskContext, IInv, TypeOK, DispatchDone, WaitsOwned, isWaiting

(* What the walk of set_flg leaves: some task is served when there is one  *)
(* to be served, and nobody is left for whom the flag is set.              *)
LEMMA FlagWalk ==
  ASSUME IInv, FlgInv, NEW f \in Eventflag, NEW setptn \in FLGPTN, set_flg(f, setptn)
  PROVE  LET ptn == flgptn[f] \cup setptn
             S   == Released(f, ptn)
         IN  /\ S \in SUBSET Waiters(f) /\ wobj_release(f, S, "ok")
             /\ S \subseteq Satisfied(f, ptn)
             /\ S = {} => Satisfied(f, ptn) = {}
             /\ f \in TA_CLR => \A t \in S, u \in Satisfied(f, ptn) : InFront(f, t, u)
             /\ f \notin TA_CLR => S = Satisfied(f, ptn)
             /\ flgptn' = [flgptn EXCEPT ![f] = IF f \in TA_CLR /\ S # {} THEN {} ELSE ptn]
             /\ \A t \in Task : (waiptn')[t] = IF t \in S THEN ptn ELSE waiptn[t]
             /\ waiptn' \in [Task -> FLGPTN] /\ UNCHANGED wfmode
<1> DEFINE ptn == flgptn[f] \cup setptn
           S == Released(f, ptn)
           Sat == Satisfied(f, ptn)
           q == wait_queue[f]
<1>1. ptn \in FLGPTN /\ f \in Wobj \ Mutex
  BY EventflagAssumption DEF FlgInv, FLGPTN
<1>2. /\ S \in SUBSET Waiters(f) /\ S \subseteq Sat
      /\ f \in TA_CLR => \A t \in S, u \in Sat : InFront(f, t, u)
      /\ f \notin TA_CLR => S = Sat
  BY DEF Released, Satisfied
<1>3. S = {} => Sat = {}
  <2> SUFFICES ASSUME f \in TA_CLR, Sat # {} PROVE S # {}
    BY <1>2
  <2>1. /\ q \in Seq(Task) /\ Len(q) \in Nat /\ DOMAIN q = 1 .. Len(q)
        /\ \A t \in Waiters(f) : \E i \in 1 .. Len(q) : q[i] = t
    BY <1>1 DEF IInv, TypeOK, WaitsOwned, Waiters, Member
  <2> DEFINE Places == {i \in 0 .. Len(q) : i # 0 /\ q[i] \in Sat}
  <2>2. Places # {} /\ Places \in SUBSET (0 .. (Len(q) + 1) - 1) /\ Len(q) + 1 \in Nat
    <3>1. PICK t \in Sat : t \in Waiters(f)
      BY DEF Satisfied
    <3>2. PICK i \in 1 .. Len(q) : q[i] = t
      BY <2>1, <3>1
    <3>3. i \in Places
      BY <2>1, <3>1, <3>2
    <3> QED BY <2>1, <3>3
  <2>3. PICK x \in Places : \A y \in Places : x <= y
    <3> HIDE DEF Places
    <3> QED BY <2>2, LeastElement
  <2>4. q[x] \in Sat /\ x \in 1 .. Len(q)
    BY <2>1, <2>3
  <2>5. ASSUME NEW u \in Sat PROVE InFront(f, q[x], u)
    <3>1. u \in Waiters(f)
      BY DEF Satisfied
    <3>2. PICK j \in 1 .. Len(q) : q[j] = u
      BY <2>1, <3>1
    <3>3. j \in Places
      BY <2>1, <3>2
    <3>4. x <= j
      BY <2>3, <3>3
    <3> QED BY <2>1, <2>4, <3>2, <3>4 DEF InFront
  <2>6. q[x] \in S
    BY <2>4, <2>5 DEF Released
  <2> QED BY <2>6
<1>4. /\ wobj_release(f, S, "ok") /\ UNCHANGED wfmode
      /\ flgptn' = [flgptn EXCEPT ![f] = IF S = {} THEN ptn ELSE Consumed(f, ptn)]
      /\ waiptn' = [t \in Task |-> IF t \in S THEN ptn ELSE waiptn[t]]
  BY DEF set_flg, ResultPattern
<1> HIDE DEF S, Sat, ptn
<1>5. flgptn' = [flgptn EXCEPT ![f] = IF f \in TA_CLR /\ S # {} THEN {} ELSE ptn]
  <2>1. (IF S = {} THEN ptn ELSE Consumed(f, ptn)) = IF f \in TA_CLR /\ S # {} THEN {} ELSE ptn
    BY DEF Consumed
  <2> QED BY <1>4, <2>1
<1>6. waiptn' \in [Task -> FLGPTN] /\ \A t \in Task : (waiptn')[t] = IF t \in S THEN ptn ELSE waiptn[t]
  BY <1>1, <1>4 DEF FlgInv
<1> QED BY <1>2, <1>3, <1>4, <1>5, <1>6 DEF S, Sat, ptn

(* The kernel's own calls, and those of other objects, leave a flag and    *)
(* those who wait for it as they are, or fewer.                            *)
LEMMA FlagsLeft ==
  ASSUME FlgInv, UNCHANGED flgOwn, \A f \in Eventflag : NobodyJoins(f)
  PROVE  FlgInv'
<1>1. \A t \in Task : (waiton')[t] \in Eventflag => (waiton')[t] = waiton[t]
  BY DEF NobodyJoins
<1>2. \A f \in Eventflag, t \in Task : waiton[t] = f => ~ Cond(flgptn[f], waiptn[t], wfmode[t])
  BY DEF FlgInv, NoMissedFlag, Satisfied, Waiters
<1>3. NoMissedFlag'
  BY <1>1, <1>2 DEF flgOwn, NoMissedFlag, Satisfied, Waiters
<1> QED BY <1>1, <1>3 DEF FlgInv, flgOwn

(* A flag with fewer bits, or a caller that takes what it waited for.      *)
LEMMA FlagShrinks ==
  ASSUME IInv, FlgInv, NEW f \in Eventflag, UNCHANGED <<vars, wfmode>>,
         NEW p \in FLGPTN, p \subseteq flgptn[f], flgptn' = [flgptn EXCEPT ![f] = p],
         waiptn' \in [Task -> FLGPTN],
         \A t \in Task : waiton[t] # "NONE" => (waiptn')[t] = waiptn[t]
  PROVE  FlgInv'
<1>1. UNCHANGED waiton /\ Eventflag \subseteq Wobj /\ "NONE" \notin Wobj
  <2>1. UNCHANGED waiton
    BY DEF vars, stateVars
  <2> QED BY <2>1, EventflagAssumption, ConfigAssumption
<1>2. flgptn' \in [Eventflag -> FLGPTN]
  BY DEF FlgInv
<1>3. \A g \in Eventflag : (flgptn')[g] \subseteq flgptn[g]
  BY DEF FlgInv
<1>4. \A t \in Task : waiton[t] \in Eventflag => (waiptn')[t] = waiptn[t]
  BY <1>1
<1>5. ASSUME NEW g \in Eventflag, NEW t \in Task, waiton[t] = g
      PROVE  ~ Cond((flgptn')[g], waiptn[t], wfmode[t])
  <2>1. ~ Cond(flgptn[g], waiptn[t], wfmode[t])
    BY <1>5 DEF FlgInv, NoMissedFlag, Satisfied, Waiters
  <2> QED BY <1>3, <2>1 DEF Cond
<1>6. NoMissedFlag'
  BY <1>1, <1>4, <1>5 DEF NoMissedFlag, Satisfied, Waiters
<1> QED BY <1>1, <1>2, <1>4, <1>6 DEF FlgInv

(* A task begins to wait for a pattern that is not set.                    *)
LEMMA FlagWaits ==
  ASSUME IInv, ResultPending, FlgInv, NEW f \in Eventflag,
         NEW wai \in FLGPTN \ {{}}, NEW mode \in MODE, FlgWaits(f, wai, mode)
  PROVE  FlgInv'
<1>1. /\ ~ Cond(flgptn[f], wai, mode) /\ QueueWait(f) /\ UNCHANGED flgptn
      /\ waiptn' = [waiptn EXCEPT ![runtsk] = wai]
      /\ wfmode' = [wfmode EXCEPT ![runtsk] = mode]
  BY DEF FlgWaits
<1>2. f \in Wobj \ Mutex
  BY EventflagAssumption
<1>3. runtsk \in Task /\ waiton' = [waiton EXCEPT ![runtsk] = f] /\ waiton \in [Task -> WaitCause]
  BY <1>1, <1>2, WaitCalls DEF IInv, TypeOK
<1>4. waiptn' \in [Task -> FLGPTN] /\ wfmode' \in [Task -> MODE]
  BY <1>1 DEF FlgInv
<1>5. /\ (waiton')[runtsk] = f /\ (waiptn')[runtsk] = wai /\ (wfmode')[runtsk] = mode
      /\ \A t \in Task \ {runtsk} : /\ (waiton')[t] = waiton[t] /\ (waiptn')[t] = waiptn[t]
                                    /\ (wfmode')[t] = wfmode[t]
  BY <1>1, <1>3 DEF FlgInv
<1>6. \A g \in Eventflag, t \in Task : waiton[t] = g => ~ Cond(flgptn[g], waiptn[t], wfmode[t])
  BY DEF FlgInv, NoMissedFlag, Satisfied, Waiters
<1>7. ASSUME NEW g \in Eventflag, NEW t \in Task, (waiton')[t] = g
      PROVE  ~ Cond((flgptn')[g], (waiptn')[t], (wfmode')[t])
  <2>1. CASE t = runtsk
    BY <1>1, <1>5, <1>7, <2>1
  <2>2. CASE t # runtsk
    BY <1>1, <1>5, <1>6, <1>7, <2>2
  <2> QED BY <2>1, <2>2
<1>8. NoMissedFlag'
  BY <1>7 DEF NoMissedFlag, Satisfied, Waiters
<1>9. \A t \in Task : (waiton')[t] \in Eventflag => (waiptn')[t] # {}
  BY <1>5 DEF FlgInv
<1> QED BY <1>1, <1>4, <1>8, <1>9 DEF FlgInv

(* set_flg: those for whom the flag is set are served, or the flag is      *)
(* cleared with the first of them.                                         *)
LEMMA FlagSet ==
  ASSUME IInv, ResultPending, FlgInv, NEW f \in Eventflag, NEW setptn \in FLGPTN,
         set_flg(f, setptn)
  PROVE  FlgInv'
<1> DEFINE ptn == flgptn[f] \cup setptn
           S   == Released(f, ptn)
<1>1. /\ S \in SUBSET Waiters(f) /\ wobj_release(f, S, "ok")
      /\ S = {} => Satisfied(f, ptn) = {}
      /\ f \notin TA_CLR => S = Satisfied(f, ptn)
      /\ flgptn' = [flgptn EXCEPT ![f] = IF f \in TA_CLR /\ S # {} THEN {} ELSE ptn]
      /\ \A t \in Task : (waiptn')[t] = IF t \in S THEN ptn ELSE waiptn[t]
      /\ waiptn' \in [Task -> FLGPTN] /\ UNCHANGED wfmode
  BY FlagWalk
<1>2. ptn \in FLGPTN /\ {} \in FLGPTN /\ f \in Wobj \ Mutex /\ "NONE" \notin Eventflag
  BY EventflagAssumption, ConfigAssumption DEF FlgInv, FLGPTN
<1> HIDE DEF S, ptn
<1>3. \A t \in Task : (waiton')[t] = IF t \in S THEN "NONE" ELSE waiton[t]
  <2>1. "ok" \in {"ok", "error"}
    OBVIOUS
  <2> QED BY <1>1, <1>2, <2>1, ReleaseCalls
<1>4. flgptn' \in [Eventflag -> FLGPTN]
  BY <1>1, <1>2 DEF FlgInv
<1>5. \A g \in Eventflag, t \in Task : waiton[t] = g => ~ Cond(flgptn[g], waiptn[t], wfmode[t])
  BY DEF FlgInv, NoMissedFlag, Satisfied, Waiters
<1>6. ASSUME NEW t \in Task, t \notin S, waiton[t] = f
      PROVE  ~ Cond((flgptn')[f], waiptn[t], wfmode[t])
  <2>1. waiptn[t] # {} /\ wfmode[t] \in MODE
    BY <1>6 DEF FlgInv
  <2>2. CASE f \in TA_CLR /\ S # {}
    <3>1. (flgptn')[f] = {}
      BY <1>1, <2>2 DEF FlgInv
    <3> QED BY <2>1, <3>1 DEF Cond, MODE
  <2>3. CASE ~ (f \in TA_CLR /\ S # {})
    <3>1. (flgptn')[f] = ptn
      BY <1>1, <2>3 DEF FlgInv
    <3>2. t \notin Satisfied(f, ptn)
      BY <1>1, <1>6, <2>3
    <3> QED BY <1>6, <3>1, <3>2 DEF Satisfied, Waiters
  <2> QED BY <2>2, <2>3
<1>7. ASSUME NEW g \in Eventflag, NEW t \in Task, (waiton')[t] = g
      PROVE  ~ Cond((flgptn')[g], (waiptn')[t], (wfmode')[t])
  <2>1. t \notin S /\ waiton[t] = g /\ (waiptn')[t] = waiptn[t] /\ (wfmode')[t] = wfmode[t]
    BY <1>1, <1>2, <1>3, <1>7
  <2>2. CASE g = f
    BY <1>6, <2>1, <2>2
  <2>3. CASE g # f
    <3>1. (flgptn')[g] = flgptn[g]
      BY <1>1, <2>3 DEF FlgInv
    <3> QED BY <1>5, <2>1, <3>1
  <2> QED BY <2>2, <2>3
<1>8. NoMissedFlag'
  BY <1>7 DEF NoMissedFlag, Satisfied, Waiters
<1>9. \A t \in Task : (waiton')[t] \in Eventflag => (waiptn')[t] # {}
  BY <1>1, <1>2, <1>3 DEF FlgInv
<1> QED BY <1>1, <1>4, <1>8, <1>9 DEF FlgInv

(* ini_flg sends everybody away.                                           *)
LEMMA FlagReset ==
  ASSUME IInv, ResultPending, FlgInv, NEW f \in Eventflag, FlgResets(f)
  PROVE  FlgInv'
<1>1. /\ wobj_release(f, Waiters(f), "error") /\ f \in Wobj \ Mutex
      /\ flgptn' = [flgptn EXCEPT ![f] = iflgptn[f]] /\ iflgptn[f] \in FLGPTN
      /\ UNCHANGED <<waiptn, wfmode>> /\ "NONE" \notin Eventflag
  BY EventflagAssumption, ConfigAssumption DEF FlgResets, FLGPTN
<1>2. \A t \in Task : (waiton')[t] = IF t \in Waiters(f) THEN "NONE" ELSE waiton[t]
  <2>1. Waiters(f) \in SUBSET Waiters(f) /\ "error" \in {"ok", "error"}
    OBVIOUS
  <2> QED BY <1>1, <2>1, ReleaseCalls
<1>3. \A t \in Task : (waiton')[t] \in Eventflag => (waiton')[t] = waiton[t] /\ waiton[t] # f
  BY <1>1, <1>2 DEF Waiters
<1>4. flgptn' \in [Eventflag -> FLGPTN] /\ \A g \in Eventflag \ {f} : (flgptn')[g] = flgptn[g]
  BY <1>1 DEF FlgInv
<1>5. \A g \in Eventflag, t \in Task : waiton[t] = g => ~ Cond(flgptn[g], waiptn[t], wfmode[t])
  BY DEF FlgInv, NoMissedFlag, Satisfied, Waiters
<1>6. NoMissedFlag'
  BY <1>1, <1>3, <1>4, <1>5 DEF NoMissedFlag, Satisfied, Waiters
<1> QED BY <1>1, <1>3, <1>4, <1>6 DEF FlgInv

(* Every step of the event flags keeps the invariant, and only set_flg     *)
(* serves, which serves the tasks of its walk.                             *)
LEMMA EventflagKept ==
  ASSUME IInv, SInv, ResultPending, FlgInv, [FlgNext]_flgVars
  PROVE  /\ IInv' /\ SInv' /\ ResultPending' /\ FlgInv'
         /\ \A f \in Eventflag, t \in Task :
              Served(f, t) => \E setptn \in FLGPTN :
                                /\ set_flg(f, setptn)
                                /\ t \in Released(f, flgptn[f] \cup setptn)
<1>1. Eventflag \subseteq Wobj \ Mutex
  BY EventflagAssumption
<1> DEFINE Told == \A f \in Eventflag, t \in Task :
                     Served(f, t) => \E setptn \in FLGPTN :
                                       /\ set_flg(f, setptn)
                                       /\ t \in Released(f, flgptn[f] \cup setptn)
           Kept == [Next]_vars /\ ResultPending' /\ FlgInv' /\ Told
<1>2. ASSUME KernelCall \/ UNCHANGED vars
      PROVE  /\ [Next]_vars /\ ResultPending' /\ Told
             /\ \A f \in Eventflag : NobodyJoins(f)
  BY <1>1, <1>2, KernelQueues DEF Next, NobodyServed
<1>3. ASSUME FlgQuiet PROVE Kept
  <2>1. (KernelCall \/ UNCHANGED vars) /\ UNCHANGED flgOwn
    BY <1>3 DEF FlgQuiet
  <2>2. FlgInv'
    BY <1>2, <2>1, FlagsLeft
  <2> QED BY <1>2, <2>1, <2>2
<1>4. ASSUME NEW f \in Eventflag, NEW ptn \in FLGPTN, clr_flg(f, ptn) PROVE Kept
  <2>1. /\ UNCHANGED vars /\ UNCHANGED wfmode /\ UNCHANGED waiptn
        /\ flgptn' = [flgptn EXCEPT ![f] = flgptn[f] \cap ptn]
    BY <1>4 DEF clr_flg
  <2>2. flgptn[f] \cap ptn \in FLGPTN /\ flgptn[f] \cap ptn \subseteq flgptn[f]
    BY DEF FLGPTN
  <2>3. waiptn' \in [Task -> FLGPTN] /\ \A t \in Task : (waiptn')[t] = waiptn[t]
    BY <2>1 DEF FlgInv
  <2>4. FlgInv'
    BY <2>1, <2>2, <2>3, FlagShrinks
  <2> QED BY <1>2, <2>1, <2>4
<1>5. ASSUME NEW f \in Eventflag, NEW wai, NEW mode, FlgAccepts(f, wai, mode) PROVE Kept
  <2>1. /\ UNCHANGED vars /\ UNCHANGED wfmode /\ checkContextTaskUnlock
        /\ flgptn' = [flgptn EXCEPT ![f] = Consumed(f, flgptn[f])]
        /\ waiptn' = [waiptn EXCEPT ![runtsk] = flgptn[f]]
    BY <1>5 DEF FlgAccepts, accept
  <2>2. /\ flgptn[f] \in FLGPTN
        /\ Consumed(f, flgptn[f]) \in FLGPTN /\ Consumed(f, flgptn[f]) \subseteq flgptn[f]
    BY DEF Consumed, FLGPTN, FlgInv
  <2>3. runtsk \in Task /\ waiton[runtsk] = "NONE"
    BY <2>1, CallerRuns
  <2>4. /\ waiptn' \in [Task -> FLGPTN]
        /\ \A t \in Task : waiton[t] # "NONE" => (waiptn')[t] = waiptn[t]
    BY <2>1, <2>2, <2>3 DEF FlgInv
  <2>5. FlgInv'
    BY <2>1, <2>2, <2>4, FlagShrinks
  <2> QED BY <1>2, <2>1, <2>5
<1>6. ASSUME NEW f \in Eventflag, NEW wai \in FLGPTN \ {{}}, NEW mode \in MODE,
             FlgWaits(f, wai, mode)
      PROVE  Kept
  <2>1. FlgInv'
    BY <1>6, FlagWaits
  <2>2. f \in Wobj \ Mutex /\ QueueWait(f)
    BY <1>1, <1>6 DEF FlgWaits
  <2>3. /\ ObjectCall /\ ResultPending' /\ NobodyServed(f)
        /\ \A v \in Wobj \ {f} : NobodyServed(v)
    BY <2>2, WaitCalls
  <2> QED BY <1>1, <2>1, <2>3 DEF Next, NobodyServed
<1>7. ASSUME NEW f \in Eventflag, FlgResets(f) PROVE Kept
  <2>1. FlgInv'
    BY <1>7, FlagReset
  <2>2. /\ f \in Wobj \ Mutex /\ Waiters(f) \in SUBSET Waiters(f)
        /\ "error" \in {"ok", "error"} /\ wobj_release(f, Waiters(f), "error")
    BY <1>1, <1>7 DEF FlgResets
  <2>3. /\ ObjectCall /\ ResultPending'
        /\ \A v \in Wobj \ {f} : NobodyServed(v)
        /\ \A u \in Task : Served(f, u) <=> u \in Waiters(f) /\ "error" = "ok"
    BY <2>2, ReleaseCalls
  <2> QED BY <1>1, <2>1, <2>3 DEF Next, NobodyServed
<1>8. ASSUME NEW f \in Eventflag, NEW setptn \in FLGPTN, set_flg(f, setptn) PROVE Kept
  <2>1. FlgInv'
    BY <1>8, FlagSet
  <2> DEFINE S == Released(f, flgptn[f] \cup setptn)
  <2>2. S \in SUBSET Waiters(f) /\ wobj_release(f, S, "ok")
    BY <1>8, FlagWalk
  <2> HIDE DEF S
  <2>3. f \in Wobj \ Mutex /\ "ok" \in {"ok", "error"}
    BY <1>1
  <2>4. /\ ObjectCall /\ ResultPending'
        /\ \A v \in Wobj \ {f} : NobodyServed(v)
        /\ \A u \in Task : Served(f, u) <=> u \in S /\ "ok" = "ok"
    BY <2>2, <2>3, ReleaseCalls
  <2>5. Told
    BY <1>1, <1>8, <2>4 DEF NobodyServed, S
  <2> QED BY <2>1, <2>4, <2>5 DEF Next
<1>9. Kept
  <2> HIDE DEF Kept
  <2> QED BY <1>3, <1>4, <1>5, <1>6, <1>7, <1>8, EventflagSteps
<1> QED BY <1>9, NextInvariant, NextState

(* The invariant of the event flags, on top of the kernel's.               *)
THEOREM EventflagInvariant == FlgSpec => [](IInv /\ SInv /\ ResultPending /\ FlgInv)
<1>1. FlgInit => IInv /\ SInv /\ ResultPending /\ FlgInv
  <2> SUFFICES ASSUME FlgInit PROVE ResultPending /\ FlgInv
    BY InitInvariant, InitState DEF FlgInit
  <2>1. \A t \in Task : waiton[t] = "NONE"
    BY DEF FlgInit, Init
  <2>2. "NONE" \notin Eventflag
    BY EventflagAssumption, ConfigAssumption
  <2>3. ResultPending /\ NoMissedFlag
    BY <2>1, <2>2 DEF ResultPending, NoMissedFlag, Satisfied, Waiters
  <2>4. /\ flgptn \in [Eventflag -> FLGPTN]
        /\ waiptn \in [Task -> FLGPTN] /\ wfmode \in [Task -> MODE]
    BY EventflagAssumption DEF FlgInit, FLGPTN, MODE
  <2> QED BY <2>1, <2>2, <2>3, <2>4 DEF FlgInv
<1>2. /\ IInv /\ SInv /\ ResultPending /\ FlgInv
      /\ [FlgNext]_flgVars
      => (IInv /\ SInv /\ ResultPending /\ FlgInv)'
  BY EventflagKept
<1> QED BY <1>1, <1>2, PTL DEF FlgSpec

(* No task waits for a pattern that is set, whatever is set and cleared,   *)
(* and whoever stops waiting.                                              *)
THEOREM FlagsSeen == FlgSpec => []NoMissedFlag
<1>1. FlgInv => NoMissedFlag
  BY DEF FlgInv
<1> QED BY <1>1, EventflagInvariant, PTL

(* A served task is told a pattern that satisfies its condition.           *)
THEOREM PatternsTold == FlgSpec => PatternTold
<1> DEFINE Told == \A f \in Eventflag, t \in Task :
                     Served(f, t) => Cond(waiptn'[t], waiptn[t], wfmode[t])
<1>1. ASSUME IInv, SInv, ResultPending, FlgInv, [FlgNext]_flgVars PROVE Told
  <2> SUFFICES ASSUME NEW f \in Eventflag, NEW t \in Task, Served(f, t)
               PROVE  Cond(waiptn'[t], waiptn[t], wfmode[t])
    OBVIOUS
  <2>1. PICK setptn \in FLGPTN : /\ set_flg(f, setptn)
                                 /\ t \in Released(f, flgptn[f] \cup setptn)
    BY <1>1, EventflagKept
  <2> DEFINE ptn == flgptn[f] \cup setptn
  <2>2. /\ Released(f, ptn) \subseteq Satisfied(f, ptn)
        /\ (waiptn')[t] = IF t \in Released(f, ptn) THEN ptn ELSE waiptn[t]
    BY <1>1, <2>1, FlagWalk
  <2> QED BY <2>1, <2>2 DEF Satisfied
<1>2. IInv /\ SInv /\ ResultPending /\ FlgInv /\ [FlgNext]_flgVars => [Told]_flgVars
  BY <1>1, Zenon
<1> QED BY <1>2, EventflagInvariant, PTL DEF FlgSpec, PatternTold

(* A pattern that is cleared when it serves, serves the first task in the  *)
(* queue that it satisfies, and no other.                                  *)
THEOREM FlagOrder == FlgSpec => ServedOnceInOrder
<1> DEFINE Once ==
             \A f \in TA_CLR : \A t, u \in Task :
               Served(f, t) /\ waiton[u] = f /\ Cond(waiptn'[t], waiptn[u], wfmode[u]) =>
                 InFront(f, t, u) /\ flgptn'[f] = {}
<1>1. ASSUME IInv, SInv, ResultPending, FlgInv, [FlgNext]_flgVars PROVE Once
  <2> SUFFICES ASSUME NEW f \in TA_CLR, NEW t \in Task, NEW u \in Task, Served(f, t),
                      waiton[u] = f, Cond(waiptn'[t], waiptn[u], wfmode[u])
               PROVE  InFront(f, t, u) /\ flgptn'[f] = {}
    OBVIOUS
  <2>1. f \in Eventflag
    BY EventflagAssumption
  <2>2. PICK setptn \in FLGPTN : /\ set_flg(f, setptn)
                                 /\ t \in Released(f, flgptn[f] \cup setptn)
    BY <1>1, <2>1, EventflagKept
  <2> DEFINE ptn == flgptn[f] \cup setptn
             S   == Released(f, ptn)
  <2>3. /\ \A v \in S, w \in Satisfied(f, ptn) : InFront(f, v, w)
        /\ flgptn' = [flgptn EXCEPT ![f] = IF f \in TA_CLR /\ S # {} THEN {} ELSE ptn]
        /\ (waiptn')[t] = IF t \in S THEN ptn ELSE waiptn[t]
    BY <1>1, <2>1, <2>2, FlagWalk
  <2>4. t \in S
    BY <2>2
  <2> HIDE DEF S, ptn
  <2>5. (waiptn')[t] = ptn /\ (flgptn')[f] = {}
    BY <1>1, <2>1, <2>3, <2>4 DEF FlgInv
  <2>6. u \in Satisfied(f, ptn)
    BY <2>5 DEF Satisfied, Waiters
  <2> QED BY <2>3, <2>4, <2>5, <2>6
<1>2. IInv /\ SInv /\ ResultPending /\ FlgInv /\ [FlgNext]_flgVars => [Once]_flgVars
  BY <1>1, Zenon
<1> QED BY <1>2, EventflagInvariant, PTL DEF FlgSpec, ServedOnceInOrder
-----------------------------------------------------------------------------
(* Waking is the same for sets that say the same of the tasks of a queue.  *)
LEMMA WakesSame ==
  ASSUME NEW r, NEW p, NEW q \in Seq(Task), NEW T, NEW S,
         \A i \in 1 .. Len(q) : q[i] \in T <=> q[i] \in S
  PROVE  WakeAll(r, p, q, T) = WakeAll(r, p, q, S)
<1> DEFINE N == Len(q)
<1>1. N \in Nat /\ q \in Seq(Task \cup {NoTask})
  OBVIOUS
<1>2. PICK a : WakesInTurn(a, r, p, q, T) /\ WakeAll(r, p, q, T) = a[Len(q)]
  BY <1>1, WakeAllUnfolds, Zenon
<1>3. PICK b : WakesInTurn(b, r, p, q, S) /\ WakeAll(r, p, q, S) = b[Len(q)]
  BY <1>1, WakeAllUnfolds, Zenon
<1> DEFINE Same == {n \in 0 .. N : a[n] = b[n]}
<1>4. 0 \in Same
  BY <1>1, <1>2, <1>3 DEF WakesInTurn
<1>5. ASSUME NEW n \in 0 .. N - 1, n \in Same PROVE n + 1 \in Same
  <2>1. n + 1 \in 1 .. Len(q) /\ n + 1 \in 0 .. N /\ a[n] = b[n]
    BY <1>1, <1>5
  <2>2. a[n + 1] = IF q[n + 1] \in T THEN make_runnable(a[n], p, q[n + 1]) ELSE a[n]
    BY <1>2 DEF WakesInTurn
  <2>3. b[n + 1] = IF q[n + 1] \in S THEN make_runnable(b[n], p, q[n + 1]) ELSE b[n]
    BY <1>3 DEF WakesInTurn
  <2> QED BY <2>1, <2>2, <2>3
<1> HIDE DEF Same
<1>6. 0 .. N \subseteq Same
  BY <1>1, <1>4, <1>5, SetInduction
<1>7. a[N] = b[N]
  BY <1>1, <1>6 DEF Same
<1> QED BY <1>2, <1>3, <1>7

(* A ring of n cells: count of them are in use, from head up to tail.      *)
Ring(n) ==
  {c \in [count : 0 .. n, head : Nat, tail : Nat, dtqmb : [0 .. n - 1 -> Data \cup {NoData}]] :
     /\ n # 0 => c.head < n
     /\ n = 0 => c.head = 0
     /\ c.tail = IF c.head + c.count < n THEN c.head + c.count ELSE c.head + c.count - n}

(* Who waits to send has a datum.                                          *)
DtqInv ==
  /\ dtqcb \in [Dataqueue -> UNION {Ring(dtqcnt[d]) : d \in Dataqueue}]
  /\ \A d \in Dataqueue : dtqcb[d] \in Ring(dtqcnt[d])
  /\ data \in [Task -> Data \cup {NoData}]
  /\ \A t \in Task : waiton[t] \in Dataqueue => data[t] \in Data
  /\ NobodyWaitsInVain

(* The kinds of steps of the data queues.                                  *)
DtqQuiet == (KernelCall \/ UNCHANGED vars) /\ UNCHANGED dtqOwn
HandsOver(d, v) ==
  /\ QueueServe(rwait[d]) /\ data' = [data EXCEPT ![Receiver(d)] = v] /\ UNCHANGED dtqcb
Stores(d, v) ==
  /\ wait_queue[rwait[d]] = <<>> /\ UNCHANGED vars /\ UNCHANGED data
  /\ \/ HasRoom(d) /\ dtqcb' = [dtqcb EXCEPT ![d] = enqueueData(d, dtqcb[d], v)]
     \/ dtqcnt[d] > 0 /\ dtqcb' = [dtqcb EXCEPT ![d] = forceEnqueueData(d, dtqcb[d], v)]
Takes(d) ==
  /\ dtqcb[d].count > 0 /\ runtsk \in Task /\ waiton[runtsk] = "NONE"
  /\ data' = [data EXCEPT ![runtsk] = First(d)]
  /\ dtqcb' = [dtqcb EXCEPT ![d] = Refilled(d)]
  /\ \/ wait_queue[d] = <<>> /\ UNCHANGED vars
     \/ QueueServe(d)
Passes(d) ==
  /\ dtqcb[d].count = 0 /\ runtsk \in Task /\ waiton[runtsk] = "NONE" /\ QueueServe(d)
  /\ data' = [data EXCEPT ![runtsk] = data[Sender(d)]] /\ UNCHANGED dtqcb
SendWaits(d, v) ==
  /\ wait_queue[rwait[d]] = <<>> /\ ~ HasRoom(d) /\ QueueWait(d)
  /\ data' = [data EXCEPT ![runtsk] = v] /\ UNCHANGED dtqcb
ReceiveWaits(d) ==
  dtqcb[d].count = 0 /\ wait_queue[d] = <<>> /\ QueueWait(rwait[d]) /\ UNCHANGED dtqOwn
Resets(d) ==
  /\ \/ QueueClear(d) /\ wait_queue[rwait[d]] = <<>>
     \/ QueueClear(rwait[d]) /\ wait_queue[d] = <<>>
  /\ dtqcb' = [dtqcb EXCEPT ![d].count = 0, ![d].head = 0, ![d].tail = 0] /\ UNCHANGED data

DtqStep(d) ==
  \/ \E v \in Data : HandsOver(d, v) \/ Stores(d, v) \/ SendWaits(d, v)
  \/ Takes(d) \/ Passes(d) \/ ReceiveWaits(d) \/ Resets(d)

(* What the two wait queues of a data queue are.                           *)
LEMMA TwoQueues ==
  /\ \A d \in Dataqueue : d \in Wobj \ Mutex /\ rwait[d] \in Wobj \ Mutex
  /\ \A d, o \in Dataqueue : rwait[d] # o /\ (rwait[d] = rwait[o] => d = o)
  /\ \A d \in Dataqueue : dtqcnt[d] \in Nat
BY DataqueueAssumption

(* A call that has woken nobody changes nothing: no dispatch is due.       *)
LEMMA NoneReleased ==
  ASSUME IInv, wobj_release_none
  PROVE  UNCHANGED vars
<1>1. /\ UNCHANGED <<rdy, stateVars, prioVars, queVars, terVars, waitVars, dspVars,
                     cpuVars, bootVars>>
      /\ kerflg /\ runtsk' = IF nest > 0 THEN runtsk ELSE rdy'.p_schedtsk
  BY DEF wobj_release_none, requestTaskDispatch, checkContextUnlock
<1>2. UNCHANGED runtsk
  BY <1>1 DEF IInv, DispatchDone, TypeOK
<1> QED BY <1>1, <1>2 DEF vars

(* Two queues are emptied at once, of which one was empty already: so it   *)
(* is what releases those that wait in the other.                          *)
LEMMA BothReleased ==
  ASSUME IInv, NEW d \in Wobj, NEW r \in Wobj, d # r,
         wait_queue[d] = <<>> \/ wait_queue[r] = <<>>,
         checkContextTaskUnlock, taskDispatch,
         end_waits(Waiters(d) \cup Waiters(r), "error"),
         wait_queue' = [wait_queue EXCEPT ![d] = <<>>, ![r] = <<>>],
         rdy' = WakeAll(rdy, prio, wait_queue[d] \o wait_queue[r], WaitingOnly),
         UNCHANGED <<prioVars, queVars, terVars, mtxVars, dspVars, cpuVars, bootVars>>
  PROVE  \/ QueueClear(d) /\ wait_queue[r] = <<>>
         \/ QueueClear(r) /\ wait_queue[d] = <<>>
<1>1. /\ checkContextTaskUnlock
      /\ end_waits(Waiters(d) \cup Waiters(r), "error")
      /\ wait_queue' = [wait_queue EXCEPT ![d] = <<>>, ![r] = <<>>]
      /\ rdy' = WakeAll(rdy, prio, wait_queue[d] \o wait_queue[r], WaitingOnly)
      /\ taskDispatch
      /\ UNCHANGED <<prioVars, queVars, terVars, mtxVars, dspVars, cpuVars, bootVars>>
  OBVIOUS
<1>2. /\ d \in Wobj /\ r \in Wobj /\ d # r
      /\ wait_queue \in [Wobj -> Seq(Task)]
      /\ wait_queue[d] = <<>> \/ wait_queue[r] = <<>>
  BY DEF IInv, TypeOK
<1>3. ASSUME NEW w \in {d, r}, NEW o \in {d, r}, w # o, wait_queue[o] = <<>>
      PROVE  QueueClear(w)
  <2> DEFINE q == wait_queue[w]
  <2>1. w \in Wobj /\ o \in Wobj /\ q \in Seq(Task)
    BY <1>2
  <2>2. Waiters(o) = {}
    <3>1. wait_queue[o] \in Seq(Task)
      BY <1>2, <2>1
    <3>2. \A t \in Task : ~ Member(wait_queue[o], t)
      BY <1>3, <3>1, EmptyQueue
    <3> QED BY <2>1, <3>2 DEF IInv, WaitsOwned, Waiters
  <2>3. \A t \in Task : Member(q, t) <=> t \in Waiters(w)
    BY <2>1 DEF IInv, WaitsOwned, Waiters
  <2>4. end_waits(Waiters(w), "error")
    <3>1. Waiters(d) \cup Waiters(r) = Waiters(w)
      BY <1>3, <2>2
    <3> QED BY <1>1, <3>1
  <2>5. Without(q, Waiters(w)) = <<>>
    <3>1. /\ Without(q, Waiters(w)) \in Seq(Task)
          /\ \A u : Member(Without(q, Waiters(w)), u) <=> Member(q, u) /\ u \notin Waiters(w)
      BY <2>1, WithoutProperties
    <3>2. \A u \in Task : ~ Member(Without(q, Waiters(w)), u)
      BY <2>3, <3>1
    <3> QED BY <3>1, <3>2, EmptyQueue
  <2>6. wait_queue' = [wait_queue EXCEPT ![w] = Without(@, Waiters(w))]
    <3>1. CASE w = d
      BY <1>1, <1>2, <1>3, <2>5, <3>1
    <3>2. CASE w = r
      BY <1>1, <1>2, <1>3, <2>5, <3>2
    <3> QED BY <1>3, <3>1, <3>2
  <2>7. wait_queue[d] \o wait_queue[r] = q
    BY <1>2, <1>3
  <2>8. rdy' = Woken(w, Waiters(w))
    <3>1. \A i \in 1 .. Len(q) : q[i] \in WaitingOnly <=> q[i] \in Waiters(w) \cap WaitingOnly
      BY <2>1, <2>3 DEF Member
    <3>2. WakeAll(rdy, prio, q, WaitingOnly) = WakeAll(rdy, prio, q, Waiters(w) \cap WaitingOnly)
      <4> HIDE DEF q
      <4> QED BY <2>1, <3>1, WakesSame
    <3> QED BY <1>1, <2>7, <3>2 DEF Woken
  <2>9. checkContextUnlock /\ requestTaskDispatch
    <3>1. nest = 0
      BY <1>1 DEF checkContextTaskUnlock, TaskContext
    <3> QED BY <1>1, <3>1 DEF checkContextTaskUnlock, TaskContext, checkContextUnlock,
                             taskDispatch, requestTaskDispatch
  <2> QED BY <1>1, <2>4, <2>6, <2>8, <2>9 DEF QueueClear, wobj_release
<1> QED BY <1>2, <1>3

(* So does ini_dtq.                                                        *)
LEMMA ResetReleases ==
  ASSUME IInv, DtqInv, NEW d \in Dataqueue, ini_dtq(d)
  PROVE  Resets(d)
<1> DEFINE r == rwait[d]
<1>1. /\ d \in Wobj /\ r \in Wobj /\ d # r
      /\ wait_queue[d] = <<>> \/ wait_queue[r] = <<>>
  BY TwoQueues DEF DtqInv, NobodyWaitsInVain
<1>2. \/ QueueClear(d) /\ wait_queue[r] = <<>>
      \/ QueueClear(r) /\ wait_queue[d] = <<>>
  BY <1>1, BothReleased DEF ini_dtq
<1> QED BY <1>2 DEF ini_dtq, Resets

(* Every step of the data queues is one of these.                          *)
LEMMA DataqueueSteps ==
  ASSUME IInv, DtqInv, [DtqNext]_dtqVars
  PROVE  DtqQuiet \/ \E d \in Dataqueue : DtqStep(d)
<1>1. CASE (KernelCall /\ UNCHANGED dtqOwn) \/ UNCHANGED dtqVars
  BY <1>1 DEF DtqQuiet, dtqVars
<1>2. ASSUME NEW d \in Dataqueue, NEW v \in Data, sendData(d, v)
      PROVE  HandsOver(d, v) \/ Stores(d, v)
  BY <1>2, NoneReleased DEF sendData, handOver, store, HandsOver, Stores, QueueServe
<1>3. ASSUME NEW d \in Dataqueue, NEW v \in Data, dtqcnt[d] > 0, forceSendData(d, v)
      PROVE  HandsOver(d, v) \/ Stores(d, v)
  BY <1>3, NoneReleased DEF forceSendData, handOver, store, HandsOver, Stores, QueueServe
<1>4. ASSUME NEW d \in Dataqueue, checkContextTaskUnlock, receiveData(d)
      PROVE  Takes(d) \/ Passes(d)
  <2>1. runtsk \in Task /\ waiton[runtsk] = "NONE"
    BY <1>4, CallerRuns
  <2> QED BY <1>4, <2>1, NoneReleased DEF receiveData, Takes, Passes, QueueServe
<1>5. ASSUME NEW d \in Dataqueue,
             \/ prcv_dtq(d) \/ ini_dtq(d)
             \/ \E v \in Data : psnd_dtq(d, v) \/ fsnd_dtq(d, v)
             \/ \E timed \in BOOLEAN : rcv_dtq(d, timed) \/ \E v \in Data : snd_dtq(d, v, timed)
      PROVE  DtqStep(d)
  <2>1. prcv_dtq(d) => DtqStep(d)
    BY <1>4 DEF prcv_dtq, DtqStep
  <2>2. ini_dtq(d) => DtqStep(d)
    BY ResetReleases DEF DtqStep
  <2>3. \A v \in Data : psnd_dtq(d, v) \/ fsnd_dtq(d, v) => DtqStep(d)
    BY <1>2, <1>3 DEF psnd_dtq, fsnd_dtq, DtqStep
  <2>4. \A timed \in BOOLEAN : rcv_dtq(d, timed) => DtqStep(d)
    BY <1>4 DEF rcv_dtq, checkDispatch, DtqStep, ReceiveWaits, QueueWait
  <2>5. \A timed \in BOOLEAN, v \in Data : snd_dtq(d, v, timed) => DtqStep(d)
    BY <1>2 DEF snd_dtq, DtqStep, SendWaits, QueueWait
  <2> QED BY <1>5, <2>1, <2>2, <2>3, <2>4, <2>5
<1> QED BY <1>1, <1>5 DEF DtqNext, DataqueueCall

(* The cell after the last used one, when one more is used.                *)
LEMMA NextCell ==
  ASSUME NEW n \in Nat, NEW h \in Nat, NEW k \in 0 .. n, NEW t, NEW s, n # 0, h < n,
         t = (IF h + k < n THEN h + k ELSE h + k - n),
         s = (IF t + 1 >= n THEN 0 ELSE t + 1)
  PROVE  /\ t \in 0 .. n - 1 /\ s \in 0 .. n - 1
         /\ k < n => s = IF h + (k + 1) < n THEN h + (k + 1) ELSE h + (k + 1) - n
         /\ k = n => s = IF h + 1 >= n THEN 0 ELSE h + 1
         /\ k > 0 => t = IF (IF h + 1 >= n THEN 0 ELSE h + 1) + (k - 1) < n
                         THEN (IF h + 1 >= n THEN 0 ELSE h + 1) + (k - 1)
                         ELSE (IF h + 1 >= n THEN 0 ELSE h + 1) + (k - 1) - n
<1>1. CASE h + k < n
  BY <1>1
<1>2. CASE ~ (h + k < n)
  BY <1>2
<1> QED BY <1>1, <1>2

(* A datum is stored in a ring that has room.                              *)
LEMMA Enqueues ==
  ASSUME NEW d \in Dataqueue, NEW n, n = dtqcnt[d], NEW c \in Ring(n), NEW v \in Data,
         NEW e, c.count < n, e = enqueueData(d, c, v)
  PROVE  e \in Ring(n) /\ e.count = c.count + 1
<1> DEFINE Cells == [0 .. n - 1 -> Data \cup {NoData}]
<1>1. /\ n \in Nat /\ c.count \in 0 .. n /\ c.head \in Nat /\ c.tail \in Nat /\ c.dtqmb \in Cells
      /\ c = [count |-> c.count, head |-> c.head, tail |-> c.tail, dtqmb |-> c.dtqmb]
      /\ n # 0 => c.head < n
      /\ n = 0 => c.head = 0
      /\ c.tail = IF c.head + c.count < n THEN c.head + c.count ELSE c.head + c.count - n
  BY TwoQueues DEF Ring
<1>2. e = [c EXCEPT !.dtqmb[c.tail] = v, !.count = @ + 1, !.tail = Wrapped(d, @ + 1)]
  BY DEF enqueueData
<1>3. e = [count |-> c.count + 1, head |-> c.head, tail |-> Wrapped(d, c.tail + 1),
           dtqmb |-> [c.dtqmb EXCEPT ![c.tail] = v]]
  BY <1>1, <1>2
<1>4. /\ e.count = c.count + 1 /\ e.head = c.head /\ e.tail = Wrapped(d, c.tail + 1)
      /\ e.dtqmb = [c.dtqmb EXCEPT ![c.tail] = v]
  BY <1>3
<1>5. Wrapped(d, c.tail + 1) = IF c.tail + 1 >= n THEN 0 ELSE c.tail + 1
  BY DEF Wrapped
<1>6. /\ e.count \in 0 .. n /\ e.head \in Nat /\ e.tail \in Nat
      /\ n # 0 => e.head < n
      /\ n = 0 => e.head = 0
      /\ e.tail = IF e.head + e.count < n THEN e.head + e.count ELSE e.head + e.count - n
  <2>1. /\ n \in Nat /\ n # 0 /\ c.count \in 0 .. n /\ c.head \in Nat /\ c.head < n
        /\ e.tail = (IF c.tail + 1 >= n THEN 0 ELSE c.tail + 1)
        /\ c.tail = (IF c.head + c.count < n THEN c.head + c.count ELSE c.head + c.count - n)
        /\ c.count < n
    BY <1>1, <1>4, <1>5, SMTT(60)
  <2>2. /\ e.tail \in 0 .. n - 1
        /\ e.tail = IF c.head + (c.count + 1) < n THEN c.head + (c.count + 1)
                                               ELSE c.head + (c.count + 1) - n
    BY ONLY <2>1, NextCell
  <2>3. e.count \in 0 .. n
    BY <1>4, <2>1
  <2> QED BY <1>4, <2>1, <2>2, <2>3
<1>7. e.dtqmb \in Cells
  BY <1>1, <1>4, SMTT(60)
<1>8. e \in [count : 0 .. n, head : Nat, tail : Nat, dtqmb : Cells]
  BY <1>3, <1>4, <1>6, <1>7
<1> QED BY <1>4, <1>6, <1>8 DEF Ring

(* A datum that is forced into a full ring displaces the oldest one.       *)
LEMMA ForceEnqueues ==
  ASSUME NEW d \in Dataqueue, NEW n, n = dtqcnt[d], NEW c \in Ring(n), NEW v \in Data,
         NEW e, n > 0, e = forceEnqueueData(d, c, v)
  PROVE  e \in Ring(n) /\ e.count = IF c.count = n THEN n ELSE c.count + 1
<1> DEFINE Cells == [0 .. n - 1 -> Data \cup {NoData}]
<1>1. /\ n \in Nat /\ c.count \in 0 .. n /\ c.head \in Nat /\ c.tail \in Nat /\ c.dtqmb \in Cells
      /\ c = [count |-> c.count, head |-> c.head, tail |-> c.tail, dtqmb |-> c.dtqmb]
      /\ n # 0 => c.head < n
      /\ n = 0 => c.head = 0
      /\ c.tail = IF c.head + c.count < n THEN c.head + c.count ELSE c.head + c.count - n
  BY TwoQueues DEF Ring
<1> DEFINE t == Wrapped(d, c.tail + 1)
           full == c.count >= n
<1>2. e = [c EXCEPT !.dtqmb[c.tail] = v, !.tail = t,
                    !.count = IF full THEN @ ELSE @ + 1, !.head = IF full THEN t ELSE @]
  BY DEF forceEnqueueData
<1> HIDE DEF t, full
<1>3. e = [count |-> IF full THEN c.count ELSE c.count + 1,
           head |-> IF full THEN t ELSE c.head, tail |-> t,
           dtqmb |-> [c.dtqmb EXCEPT ![c.tail] = v]]
  BY <1>1, <1>2
<1>4. /\ e.count = IF full THEN c.count ELSE c.count + 1
      /\ e.head = IF full THEN t ELSE c.head
      /\ e.tail = t
      /\ e.dtqmb = [c.dtqmb EXCEPT ![c.tail] = v]
  BY <1>3
<1>5. /\ t = IF c.tail + 1 >= n THEN 0 ELSE c.tail + 1
      /\ Wrapped(d, c.head + 1) = IF c.head + 1 >= n THEN 0 ELSE c.head + 1
      /\ full <=> c.count = n
  BY <1>1 DEF Wrapped, t, full
<1>6. /\ e.count \in 0 .. n /\ e.head \in Nat /\ e.tail \in Nat
      /\ n # 0 => e.head < n
      /\ n = 0 => e.head = 0
      /\ e.tail = IF e.head + e.count < n THEN e.head + e.count ELSE e.head + e.count - n
      /\ e.count = IF c.count = n THEN n ELSE c.count + 1
      /\ e.head = IF c.count = n THEN Wrapped(d, c.head + 1) ELSE c.head
  <2>1. /\ n \in Nat /\ n # 0 /\ c.count \in 0 .. n /\ c.head \in Nat /\ c.head < n
        /\ t = (IF c.tail + 1 >= n THEN 0 ELSE c.tail + 1)
        /\ c.tail = (IF c.head + c.count < n THEN c.head + c.count ELSE c.head + c.count - n)
    BY <1>1, <1>5
  <2>2. /\ t \in 0 .. n - 1
        /\ c.count < n => t = IF c.head + (c.count + 1) < n THEN c.head + (c.count + 1)
                                                          ELSE c.head + (c.count + 1) - n
        /\ c.count = n => t = IF c.head + 1 >= n THEN 0 ELSE c.head + 1
    BY ONLY <2>1, NextCell
  <2>3. CASE c.count = n
    <3>1. e.count = n /\ e.head = t /\ e.tail = t
      BY <1>4, <1>5, <2>3
    <3>2. /\ t \in Nat /\ t < n /\ n \in 0 .. n
          /\ t = Wrapped(d, c.head + 1)
      BY <1>5, <2>1, <2>2, <2>3
    <3>3. ~ (t + n < n) /\ t + n - n = t
      BY ONLY <2>1, <3>2
    <3>4. e.tail = IF e.head + e.count < n THEN e.head + e.count ELSE e.head + e.count - n
      BY ONLY <3>1, <3>2, <3>3
    <3>5. e.head = Wrapped(d, c.head + 1) /\ e.head \in Nat /\ e.tail \in Nat /\ e.head < n
      BY <3>1, <3>2
    <3>6. e.count \in 0 .. n /\ e.head \in Nat /\ (n = 0 => e.head = 0)
      BY <2>1, <3>1, <3>2, <3>5
    <3>7. /\ e.count = IF c.count = n THEN n ELSE c.count + 1
          /\ e.head = IF c.count = n THEN Wrapped(d, c.head + 1) ELSE c.head
      BY <2>3, <3>1, <3>5
    <3> QED BY ONLY <3>4, <3>5, <3>6, <3>7
  <2>4. CASE c.count < n
    <3>1. e.count = c.count + 1 /\ e.head = c.head /\ e.tail = t
      BY <1>4, <1>5, <2>1, <2>4
    <3> QED BY <2>1, <2>2, <2>4, <3>1
  <2>5. c.count = n \/ c.count < n
    BY <2>1
  <2> QED BY <2>3, <2>4, <2>5, Zenon
<1>7. e.dtqmb \in Cells
  BY <1>1, <1>4
<1>8. e \in [count : 0 .. n, head : Nat, tail : Nat, dtqmb : Cells]
  BY <1>3, <1>4, <1>6, <1>7
<1> QED BY <1>4, <1>6, <1>8 DEF Ring

(* A datum is taken from a ring that holds one.                            *)
LEMMA Dequeues ==
  ASSUME NEW d \in Dataqueue, NEW n, n = dtqcnt[d], NEW c \in Ring(n),
         NEW e, c.count > 0, e = dequeueData(d, c)
  PROVE  e \in Ring(n) /\ e.count = c.count - 1
<1> DEFINE Cells == [0 .. n - 1 -> Data \cup {NoData}]
<1>1. /\ n \in Nat /\ c.count \in 0 .. n /\ c.head \in Nat /\ c.tail \in Nat /\ c.dtqmb \in Cells
      /\ c = [count |-> c.count, head |-> c.head, tail |-> c.tail, dtqmb |-> c.dtqmb]
      /\ n # 0 => c.head < n
      /\ n = 0 => c.head = 0
      /\ c.tail = IF c.head + c.count < n THEN c.head + c.count ELSE c.head + c.count - n
  BY TwoQueues DEF Ring
<1>2. e = [c EXCEPT !.count = @ - 1, !.head = Wrapped(d, @ + 1)]
  BY DEF dequeueData
<1>3. e = [count |-> c.count - 1, head |-> Wrapped(d, c.head + 1), tail |-> c.tail,
           dtqmb |-> c.dtqmb]
  BY <1>1, <1>2
<1>4. /\ e.count = c.count - 1 /\ e.head = Wrapped(d, c.head + 1) /\ e.tail = c.tail
      /\ e.dtqmb = c.dtqmb
  BY <1>3
<1>5. Wrapped(d, c.head + 1) = IF c.head + 1 >= n THEN 0 ELSE c.head + 1
  BY DEF Wrapped
<1>6. /\ e.count \in 0 .. n /\ e.head \in Nat /\ e.tail \in Nat
      /\ n # 0 => e.head < n
      /\ n = 0 => e.head = 0
      /\ e.tail = IF e.head + e.count < n THEN e.head + e.count ELSE e.head + e.count - n
  BY <1>1, <1>4, <1>5, SMTT(60)
<1>7. e \in [count : 0 .. n, head : Nat, tail : Nat, dtqmb : Cells]
  BY <1>1, <1>3, <1>4, <1>6
<1> QED BY <1>4, <1>6, <1>7 DEF Ring

(* A ring is emptied.                                                      *)
LEMMA RingClears ==
  ASSUME NEW d \in Dataqueue, NEW n, n = dtqcnt[d], NEW c \in Ring(n),
         NEW e, e = [c EXCEPT !.count = 0, !.head = 0, !.tail = 0]
  PROVE  e \in Ring(n)
<1> DEFINE Cells == [0 .. n - 1 -> Data \cup {NoData}]
<1>1. /\ n \in Nat /\ c.count \in 0 .. n /\ c.head \in Nat /\ c.tail \in Nat /\ c.dtqmb \in Cells
      /\ c = [count |-> c.count, head |-> c.head, tail |-> c.tail, dtqmb |-> c.dtqmb]
      /\ n # 0 => c.head < n
      /\ n = 0 => c.head = 0
      /\ c.tail = IF c.head + c.count < n THEN c.head + c.count ELSE c.head + c.count - n
  BY TwoQueues DEF Ring
<1>2. e = [count |-> 0, head |-> 0, tail |-> 0, dtqmb |-> c.dtqmb]
  BY <1>1
<1>3. e.count = 0 /\ e.head = 0 /\ e.tail = 0 /\ e.dtqmb = c.dtqmb
  BY <1>2
<1>4. e \in [count : 0 .. n, head : Nat, tail : Nat, dtqmb : Cells]
  BY <1>1, <1>2
<1>5. /\ n # 0 => e.head < n
      /\ e.tail = IF e.head + e.count < n THEN e.head + e.count ELSE e.head + e.count - n
  <2>1. n \in Nat
    BY <1>1
  <2> QED BY <1>3, <2>1
<1> QED BY <1>3, <1>4, <1>5 DEF Ring

(* A step of the data queues keeps what holds of the tasks and the queues  *)
(* below them, serves every queue in order and receivers only in handOver, *)
(* and lets a task join a queue only in snd_dtq and rcv_dtq.               *)
LEMMA DataqueueQueues ==
  ASSUME IInv, SInv, ResultPending, DtqInv, [DtqNext]_dtqVars
  PROVE  /\ IInv' /\ SInv' /\ ResultPending'
         /\ \A d \in Dataqueue : FirstServed(d) /\ FirstServed(rwait[d])
         /\ \A d \in Dataqueue, u \in Task :
              Served(rwait[d], u) =>
                \E v \in Data : HandsOver(d, v) /\ u = Head(wait_queue[rwait[d]])
         /\ \A d \in Dataqueue : NobodyJoins(d) \/ \E v \in Data : SendWaits(d, v)
         /\ \A d \in Dataqueue : NobodyJoins(rwait[d]) \/ ReceiveWaits(d)
<1> DEFINE Told ==
             \A d \in Dataqueue, u \in Task :
               Served(rwait[d], u) =>
                 \E v \in Data : HandsOver(d, v) /\ u = Head(wait_queue[rwait[d]])
           Order ==
             /\ [Next]_vars /\ ResultPending'
             /\ \A d \in Dataqueue : FirstServed(d) /\ FirstServed(rwait[d])
             /\ Told
             /\ \A d \in Dataqueue : NobodyJoins(d) \/ \E v \in Data : SendWaits(d, v)
             /\ \A d \in Dataqueue : NobodyJoins(rwait[d]) \/ ReceiveWaits(d)
<1>1. \A w \in Wobj : NobodyServed(w) => FirstServed(w)
  <2>1. \A w \in Wobj : wait_queue[w] \in Seq(Task)
    BY DEF IInv, TypeOK
  <2> QED BY <2>1 DEF NobodyServed, FirstServed
<1>2. ASSUME KernelCall \/ UNCHANGED vars PROVE Order
  <2>1. /\ ResultPending'
        /\ \A w \in Wobj \ Mutex : NobodyJoins(w) /\ NobodyServed(w)
    BY <1>2, KernelQueues
  <2> QED BY <1>1, <1>2, <2>1, TwoQueues DEF Next, NobodyServed
<1>3. ASSUME NEW w \in Wobj \ Mutex, QueueCall(w)
      PROVE  /\ [Next]_vars /\ ResultPending'
             /\ \A d \in Dataqueue : FirstServed(d) /\ FirstServed(rwait[d])
             /\ \A v \in Wobj \ {w} : NobodyJoins(v) /\ NobodyServed(v)
             /\ \A u \in Task : Served(w, u) => QueueServe(w) /\ u = Head(wait_queue[w])
             /\ QueueServe(w) \/ QueueClear(w) => NobodyJoins(w)
  <2>1. /\ ObjectCall /\ ResultPending'
        /\ \A v \in Wobj \ {w} : NobodyJoins(v) /\ NobodyServed(v)
        /\ FirstServed(w)
        /\ \A u \in Task : Served(w, u) => QueueServe(w) /\ u = Head(wait_queue[w])
        /\ QueueServe(w) \/ QueueClear(w) => NobodyJoins(w)
    BY <1>3, QueueCalls
  <2>2. \A v \in Wobj : FirstServed(v)
    BY <1>1, <2>1
  <2> QED BY <2>1, <2>2, TwoQueues DEF Next
<1>4. ASSUME NEW d \in Dataqueue, NEW v \in Data, HandsOver(d, v) PROVE Order
  <2>1. rwait[d] \in Wobj \ Mutex /\ QueueCall(rwait[d]) /\ QueueServe(rwait[d])
    BY <1>4, TwoQueues DEF HandsOver, QueueCall
  <2> QED BY <1>3, <1>4, <2>1, TwoQueues DEF NobodyServed
<1>5. ASSUME NEW d \in Dataqueue, Takes(d) \/ Passes(d), QueueServe(d) PROVE Order
  <2>1. d \in Wobj \ Mutex /\ QueueCall(d)
    BY <1>5, TwoQueues DEF QueueCall
  <2> QED BY <1>3, <1>5, <2>1, TwoQueues DEF NobodyServed
<1>6. ASSUME NEW d \in Dataqueue, NEW v \in Data, SendWaits(d, v) PROVE Order
  <2>1. d \in Wobj \ Mutex /\ QueueCall(d)
    BY <1>6, TwoQueues DEF QueueCall, SendWaits
  <2> QED BY <1>3, <1>6, <2>1, TwoQueues DEF NobodyServed
<1>7. ASSUME NEW d \in Dataqueue, ReceiveWaits(d) PROVE Order
  <2>1. rwait[d] \in Wobj \ Mutex /\ QueueWait(rwait[d]) /\ QueueCall(rwait[d])
    BY <1>7, TwoQueues DEF QueueCall, ReceiveWaits
  <2>2. NobodyServed(rwait[d])
    BY <2>1, WaitCalls
  <2> QED BY <1>3, <1>7, <2>1, <2>2, TwoQueues DEF NobodyServed
<1>8. ASSUME NEW d \in Dataqueue, Resets(d) PROVE Order
  <2>1. PICK w \in {d, rwait[d]} : QueueClear(w)
    BY <1>8 DEF Resets
  <2>2. w \in Wobj \ Mutex /\ QueueCall(w)
    BY <2>1, TwoQueues DEF QueueCall
  <2>3. NobodyServed(w)
    <3>1. Waiters(w) \in SUBSET Waiters(w) /\ wobj_release(w, Waiters(w), "error")
      BY <2>1 DEF QueueClear
    <3>2. \A u \in Task : Served(w, u) <=> u \in Waiters(w) /\ "error" = "ok"
      BY <2>2, <3>1, ReleaseCalls
    <3> QED BY <3>2 DEF NobodyServed
  <2> QED BY <1>3, <2>1, <2>2, <2>3, TwoQueues DEF NobodyServed
<1>9. Order
  <2>1. ASSUME NEW d \in Dataqueue, DtqStep(d) PROVE Order
    <3>1. \A v \in Data : Stores(d, v) => UNCHANGED vars
      BY DEF Stores
    <3>2. Takes(d) => UNCHANGED vars \/ QueueServe(d)
      BY DEF Takes
    <3>3. Passes(d) => QueueServe(d)
      BY DEF Passes
    <3> HIDE DEF Order
    <3> QED BY <1>2, <1>4, <1>5, <1>6, <1>7, <1>8, <2>1, <3>1, <3>2, <3>3 DEF DtqStep
  <2>2. DtqQuiet => KernelCall \/ UNCHANGED vars
    BY DEF DtqQuiet
  <2> HIDE DEF Order
  <2> QED BY <1>2, <2>1, <2>2, DataqueueSteps
<1> QED BY <1>9, NextInvariant, NextState

(* The data queue from which a datum is taken: whoever waited to send has  *)
(* room now, so that it is full again if somebody did.                     *)
LEMMA TakingRefills ==
  ASSUME IInv, DtqInv, NEW d \in Dataqueue, Takes(d)
  PROVE  /\ Refilled(d) \in Ring(dtqcnt[d]) /\ First(d) \in Data \cup {NoData}
         /\ wait_queue[d] # <<>> => Refilled(d).count = dtqcnt[d]
         /\ wait_queue[rwait[d]] = <<>>
<1> DEFINE c == dtqcb[d]
           n == dtqcnt[d]
           rest == dequeueData(d, c)
           v == data[Sender(d)]
<1>1. c \in Ring(n) /\ c.count > 0 /\ n \in Nat /\ c.count \in 0 .. n
  BY TwoQueues DEF DtqInv, Takes, Ring
<1>2. First(d) \in Data \cup {NoData}
  <2>1. /\ c.dtqmb \in [0 .. n - 1 -> Data \cup {NoData}] /\ c.head \in Nat
        /\ n # 0 => c.head < n
    BY <1>1 DEF Ring
  <2>2. c.head \in 0 .. n - 1
    BY <1>1, <2>1
  <2> QED BY <2>1, <2>2 DEF First
<1>3. wait_queue[rwait[d]] = <<>>
  BY <1>1 DEF DtqInv, NobodyWaitsInVain
<1>4. Refilled(d) = IF wait_queue[d] = <<>> THEN rest ELSE enqueueData(d, rest, v)
  BY DEF Refilled
<1> HIDE DEF c, n, rest, v
<1>5. rest \in Ring(n) /\ rest.count = c.count - 1
  <2>1. c \in Ring(n) /\ n = dtqcnt[d] /\ c.count > 0 /\ rest = dequeueData(d, c)
    BY <1>1 DEF n, rest
  <2> QED BY <2>1, Dequeues
<1>6. ASSUME wait_queue[d] # <<>>
      PROVE  Refilled(d) \in Ring(n) /\ Refilled(d).count = n
  <2>1. c.count = n
    BY <1>6 DEF DtqInv, NobodyWaitsInVain, c, n
  <2>2. v \in Data
    <3>1. Sender(d) \in Task /\ waiton[Sender(d)] = d
      BY <1>6, TwoQueues, HeadWaits DEF Sender, Waiters
    <3> QED BY <3>1 DEF DtqInv, v
  <2>3. rest.count < n
    BY <1>1, <1>5, <2>1
  <2>4. n = dtqcnt[d] /\ Refilled(d) = enqueueData(d, rest, v)
    BY <1>4, <1>6 DEF n
  <2>5. Refilled(d) \in Ring(n) /\ Refilled(d).count = rest.count + 1
    BY <1>5, <2>2, <2>3, <2>4, Enqueues
  <2> QED BY <1>1, <1>5, <2>1, <2>5
<1>7. Refilled(d) \in Ring(n)
  BY <1>4, <1>5, <1>6
<1> QED BY <1>2, <1>3, <1>6, <1>7 DEF n

(* What a step makes of the ring of its data queue.                        *)
LEMMA RingSteps ==
  ASSUME IInv, DtqInv, NEW d \in Dataqueue, DtqStep(d)
  PROVE  \E e \in Ring(dtqcnt[d]) : dtqcb' = [dtqcb EXCEPT ![d] = e]
<1> DEFINE c == dtqcb[d]
           n == dtqcnt[d]
<1>1. c \in Ring(n) /\ n = dtqcnt[d] /\ n \in Nat /\ c.count \in 0 .. n
  BY TwoQueues DEF DtqInv, Ring
<1>2. ASSUME UNCHANGED dtqcb PROVE \E e \in Ring(n) : dtqcb' = [dtqcb EXCEPT ![d] = e]
  <2>1. dtqcb' = [dtqcb EXCEPT ![d] = c]
    BY <1>2 DEF DtqInv
  <2> QED BY <1>1, <2>1
<1>3. ASSUME NEW v \in Data, Stores(d, v)
      PROVE  \E e \in Ring(n) : dtqcb' = [dtqcb EXCEPT ![d] = e]
  <2>1. CASE c.count < n /\ dtqcb' = [dtqcb EXCEPT ![d] = enqueueData(d, c, v)]
    <3>1. enqueueData(d, c, v) \in Ring(n)
      BY <1>1, <2>1, Enqueues
    <3> QED BY <2>1, <3>1
  <2>2. CASE n > 0 /\ dtqcb' = [dtqcb EXCEPT ![d] = forceEnqueueData(d, c, v)]
    <3>1. forceEnqueueData(d, c, v) \in Ring(n)
      BY <1>1, <2>2, ForceEnqueues
    <3> QED BY <2>2, <3>1
  <2> QED BY <1>3, <2>1, <2>2 DEF Stores, HasRoom
<1>4. ASSUME Resets(d)
      PROVE  \E e \in Ring(n) : dtqcb' = [dtqcb EXCEPT ![d] = e]
  <2> DEFINE e == [c EXCEPT !.count = 0, !.head = 0, !.tail = 0]
  <2>1. dtqcb' = [dtqcb EXCEPT ![d] = e]
    BY <1>4 DEF Resets, DtqInv
  <2>2. e \in Ring(n)
    BY <1>1, RingClears
  <2> QED BY <2>1, <2>2
<1>5. ASSUME Takes(d)
      PROVE  \E e \in Ring(n) : dtqcb' = [dtqcb EXCEPT ![d] = e]
  BY <1>5, TakingRefills DEF Takes
<1> QED BY <1>2, <1>3, <1>4, <1>5 DEF DtqStep, HandsOver, SendWaits, Passes, ReceiveWaits, dtqOwn

(* Senders and receivers of one data queue wait rightly.                   *)
WaitsRightly(d) ==
  /\ wait_queue[d] # <<>> => dtqcb[d].count = dtqcnt[d] /\ wait_queue[rwait[d]] = <<>>
  /\ wait_queue[rwait[d]] # <<>> => dtqcb[d].count = 0

(* Nobody comes to wait in vain, and nobody who waits is forgotten when a  *)
(* datum or room for one appears.                                          *)
LEMMA VainKept ==
  ASSUME IInv, IInv', ResultPending, DtqInv, NEW d \in Dataqueue, dtqcb' \in [Dataqueue -> UNION {Ring(dtqcnt[o]) : o \in Dataqueue}],
         \/ dtqcb'[d] = dtqcb[d]
         \/ (\E v \in Data : Stores(d, v)) \/ Takes(d) \/ Resets(d),
         NobodyJoins(d) \/ \E v \in Data : SendWaits(d, v),
         NobodyJoins(rwait[d]) \/ ReceiveWaits(d)
  PROVE  WaitsRightly(d)'
<1> DEFINE r == rwait[d]
           c == dtqcb[d]
           n == dtqcnt[d]
<1>1. /\ d \in Wobj \ Mutex /\ r \in Wobj \ Mutex /\ r # d
      /\ n \in Nat /\ c \in Ring(n) /\ c.count \in 0 .. n
      /\ wait_queue[d] # <<>> => c.count = n /\ wait_queue[r] = <<>>
      /\ wait_queue[r] # <<>> => c.count = 0
  BY TwoQueues DEF DtqInv, NobodyWaitsInVain, Ring
<1> HIDE DEF r, c, n
<1>2. ASSUME NEW v \in Data, SendWaits(d, v) PROVE WaitsRightly(d)'
  <2>1. /\ wait_queue[r] = <<>> /\ ~ (c.count < n) /\ QueueWait(d) /\ UNCHANGED dtqcb
    BY <1>2 DEF SendWaits, HasRoom, r, c, n
  <2>2. NobodyJoins(r)
    BY <1>1, <2>1, WaitCalls
  <2>3. wait_queue'[r] = <<>>
    BY <1>1, <2>1, <2>2, EmptyStays
  <2>4. c.count = n /\ dtqcb'[d] = c
    BY <1>1, <2>1 DEF c
  <2> QED BY <2>3, <2>4 DEF WaitsRightly, r, n
<1>3. ASSUME ReceiveWaits(d) PROVE WaitsRightly(d)'
  <2>1. c.count = 0 /\ wait_queue[d] = <<>> /\ QueueWait(r) /\ UNCHANGED dtqcb
    BY <1>3 DEF ReceiveWaits, dtqOwn, r, c
  <2>2. NobodyJoins(d)
    BY <1>1, <2>1, WaitCalls
  <2>3. wait_queue'[d] = <<>>
    BY <1>1, <2>1, <2>2, EmptyStays
  <2> QED BY <2>1, <2>3 DEF WaitsRightly, r, c
<1>4. ASSUME NobodyJoins(d), NobodyJoins(r) PROVE WaitsRightly(d)'
  <2>1. /\ wait_queue[d] = <<>> => wait_queue'[d] = <<>>
        /\ wait_queue[r] = <<>> => wait_queue'[r] = <<>>
    BY <1>1, <1>4, EmptyStays
  <2>2. ASSUME dtqcb'[d] = dtqcb[d] PROVE WaitsRightly(d)'
    BY <1>1, <2>1, <2>2 DEF WaitsRightly, r, c, n
  <2>3. ASSUME NEW v \in Data, Stores(d, v) PROVE WaitsRightly(d)'
    <3>1. /\ wait_queue[r] = <<>> /\ UNCHANGED wait_queue
          /\ \/ c.count < n
             \/ n > 0 /\ dtqcb' = [dtqcb EXCEPT ![d] = forceEnqueueData(d, c, v)]
      BY <2>3 DEF Stores, HasRoom, vars, waitVars, r, c, n
    <3>2. ASSUME wait_queue[d] # <<>> PROVE dtqcb'[d].count = n
      <4>1. /\ c.count = n /\ n > 0
            /\ dtqcb' = [dtqcb EXCEPT ![d] = forceEnqueueData(d, c, v)]
        BY <1>1, <3>1, <3>2
      <4>2. dtqcb'[d] = forceEnqueueData(d, c, v)
        BY <4>1 DEF DtqInv
      <4>3. n = dtqcnt[d]
        BY DEF n
      <4> QED BY <1>1, <4>1, <4>2, <4>3, ForceEnqueues
    <3> QED BY <3>1, <3>2 DEF WaitsRightly, r, n
  <2>4. ASSUME Takes(d) PROVE WaitsRightly(d)'
    <3>1. /\ wait_queue[r] = <<>> /\ dtqcb' = [dtqcb EXCEPT ![d] = Refilled(d)]
          /\ wait_queue[d] # <<>> => Refilled(d).count = n
      BY <2>4, TakingRefills DEF Takes, r, n
    <3>2. dtqcb'[d] = Refilled(d)
      BY <3>1 DEF DtqInv
    <3> QED BY <2>1, <3>1, <3>2 DEF WaitsRightly, r, n
  <2>5. ASSUME Resets(d) PROVE WaitsRightly(d)'
    <3>1. \/ QueueClear(d) /\ wait_queue[r] = <<>>
          \/ QueueClear(r) /\ wait_queue[d] = <<>>
      BY <2>5 DEF Resets, r
    <3>2. wait_queue'[d] = <<>> /\ wait_queue'[r] = <<>>
      BY <1>1, <2>1, <3>1, ReleaseEmpties
    <3> QED BY <3>2 DEF WaitsRightly, r
  <2> QED BY <2>2, <2>3, <2>4, <2>5
<1> QED BY <1>2, <1>3, <1>4 DEF r

(* Every step of the data queues keeps the invariant.                      *)
LEMMA DataqueueKept ==
  ASSUME IInv, SInv, ResultPending, DtqInv, [DtqNext]_dtqVars
  PROVE  (IInv /\ SInv /\ ResultPending /\ DtqInv)'
<1> DEFINE Rings == [Dataqueue -> UNION {Ring(dtqcnt[d]) : d \in Dataqueue}]
<1>1. /\ IInv' /\ SInv' /\ ResultPending'
      /\ \A d \in Dataqueue : NobodyJoins(d) \/ \E v \in Data : SendWaits(d, v)
      /\ \A d \in Dataqueue : NobodyJoins(rwait[d]) \/ ReceiveWaits(d)
  BY DataqueueQueues
<1>2. DtqQuiet \/ \E d \in Dataqueue : DtqStep(d)
  BY DataqueueSteps
<1>3. /\ dtqcb' \in Rings /\ \A d \in Dataqueue : dtqcb'[d] \in Ring(dtqcnt[d])
      /\ \A d \in Dataqueue :
           \/ dtqcb'[d] = dtqcb[d]
           \/ (\E v \in Data : Stores(d, v)) \/ Takes(d) \/ Resets(d)
  <2>1. dtqcb \in Rings /\ \A d \in Dataqueue : dtqcb[d] \in Ring(dtqcnt[d])
    BY DEF DtqInv
  <2>2. ASSUME NEW d \in Dataqueue, DtqStep(d)
        PROVE  /\ dtqcb' \in Rings /\ \A o \in Dataqueue : dtqcb'[o] \in Ring(dtqcnt[o])
               /\ \A o \in Dataqueue \ {d} : dtqcb'[o] = dtqcb[o]
               /\ \/ dtqcb'[d] = dtqcb[d]
                  \/ (\E v \in Data : Stores(d, v)) \/ Takes(d) \/ Resets(d)
    <3>1. PICK e \in Ring(dtqcnt[d]) : dtqcb' = [dtqcb EXCEPT ![d] = e]
      BY <2>2, RingSteps
    <3>2. e \in UNION {Ring(dtqcnt[o]) : o \in Dataqueue}
      OBVIOUS
    <3>3. dtqcb'[d] = e /\ dtqcb' \in Rings /\ \A o \in Dataqueue \ {d} : dtqcb'[o] = dtqcb[o]
      BY <2>1, <3>1, <3>2
    <3>4. dtqcb'[d] = dtqcb[d] \/ (\E v \in Data : Stores(d, v)) \/ Takes(d) \/ Resets(d)
      BY <2>2 DEF DtqStep, HandsOver, SendWaits, Passes, ReceiveWaits, dtqOwn
    <3> QED BY <2>1, <3>3, <3>4
  <2>3. DtqQuiet => UNCHANGED dtqcb
    BY DEF DtqQuiet, dtqOwn
  <2> HIDE DEF Rings
  <2> QED BY <1>2, <2>1, <2>2, <2>3
<1>4. NobodyWaitsInVain'
  <2>1. \A d \in Dataqueue : WaitsRightly(d)'
    BY <1>1, <1>3, VainKept
  <2> QED BY <2>1 DEF WaitsRightly, NobodyWaitsInVain
<1>5. /\ data' \in [Task -> Data \cup {NoData}]
      /\ \A t \in Task : (waiton')[t] \in Dataqueue => data'[t] \in Data
  <2>1. /\ data \in [Task -> Data \cup {NoData}]
        /\ \A t \in Task : waiton[t] \in Dataqueue => data[t] \in Data
        /\ "NONE" \notin Dataqueue
    BY DataqueueAssumption, ConfigAssumption DEF DtqInv
  <2> DEFINE Typed == /\ data' \in [Task -> Data \cup {NoData}]
                      /\ \A t \in Task : waiton[t] \in Dataqueue => data'[t] \in Data
  <2>2. ASSUME NEW d \in Dataqueue, NEW v \in Data, SendWaits(d, v)
        PROVE  /\ data' \in [Task -> Data \cup {NoData}]
               /\ \A t \in Task : (waiton')[t] \in Dataqueue => data'[t] \in Data
    <3>1. d \in Wobj \ Mutex /\ QueueWait(d) /\ data' = [data EXCEPT ![runtsk] = v]
      BY <2>2, TwoQueues DEF SendWaits
    <3>2. runtsk \in Task /\ waiton' = [waiton EXCEPT ![runtsk] = d]
      BY <3>1, WaitCalls
    <3>3. waiton \in [Task -> WaitCause]
      BY DEF IInv, TypeOK
    <3> QED BY <2>1, <3>1, <3>2, <3>3
  <2>3. ASSUME NEW d \in Dataqueue, NEW v \in Data, HandsOver(d, v) \/ Stores(d, v) PROVE Typed
    BY <2>1, <2>3 DEF HandsOver, Stores
  <2>4. ASSUME NEW d \in Dataqueue, Takes(d) \/ Passes(d) PROVE Typed
    <3>1. PICK v \in Data \cup {NoData} : data' = [data EXCEPT ![runtsk] = v]
      <4>1. CASE Takes(d)
        BY <4>1, TakingRefills DEF Takes
      <4>2. CASE Passes(d)
        <5>1. Sender(d) \in Task
          BY <4>2, TwoQueues, HeadWaits DEF Passes, QueueServe, Sender, Waiters
        <5>2. data[Sender(d)] \in Data \cup {NoData}
          BY <2>1, <5>1
        <5> QED BY <4>2, <5>2 DEF Passes
      <4> QED BY <2>4, <4>1, <4>2
    <3>2. runtsk \in Task /\ waiton[runtsk] = "NONE"
      BY <2>4, SMTT(60) DEF Takes, Passes
    <3> QED BY <2>1, <3>1, <3>2
  <2>5. ASSUME DtqQuiet \/ \E d \in Dataqueue : ReceiveWaits(d) \/ Resets(d) PROVE Typed
    BY <2>1, <2>5, Zenon DEF DtqQuiet, ReceiveWaits, Resets, dtqOwn
  <2>6. Typed \/ \E d \in Dataqueue, v \in Data : SendWaits(d, v)
    <3> HIDE DEF Typed
    <3> QED BY <1>2, <2>3, <2>4, <2>5 DEF DtqStep
  <2>7. ASSUME Typed, \A d \in Dataqueue : NobodyJoins(d)
        PROVE  \A t \in Task : (waiton')[t] \in Dataqueue => data'[t] \in Data
    BY <2>7 DEF NobodyJoins
  <2> QED BY <1>1, <2>2, <2>6, <2>7
<1> QED BY <1>1, <1>3, <1>4, <1>5 DEF DtqInv

(* What is at the head of the line of a data queue.                        *)
LEMMA HeadOfLine ==
  ASSUME IInv, DtqInv, NEW d \in Dataqueue
  PROVE  /\ dtqcb[d].count > 0 => Head(Line(d)) = First(d)
         /\ dtqcb[d].count = 0 /\ wait_queue[d] # <<>> => Head(Line(d)) = data[Sender(d)]
         /\ dtqcb[d].count = 0 /\ wait_queue[d] = <<>> => Line(d) = <<>>
<1> DEFINE c == dtqcb[d]
           n == dtqcnt[d]
           S == Data \cup {NoData}
           q == wait_queue[d]
           ring == [i \in 1 .. c.count |-> c.dtqmb[(c.head + i - 1) % n]]
           rest == [i \in 1 .. Len(q) |-> data[q[i]]]
<1>1. /\ n \in Nat /\ c.count \in 0 .. n /\ c.head \in Nat /\ c.dtqmb \in [0 .. n - 1 -> S]
      /\ n # 0 => c.head < n
      /\ q \in Seq(Task) /\ data \in [Task -> S]
  BY TwoQueues DEF DtqInv, Ring, IInv, TypeOK
<1>2. Line(d) = ring \o rest
  BY DEF Line, Contents
<1>3. First(d) = c.dtqmb[c.head] /\ Sender(d) = Head(q)
  BY DEF First, Sender
<1> HIDE DEF c, n, S, q
<1>4. rest \in Seq(S) /\ Len(rest) = Len(q) /\ (Len(q) > 0 => rest[1] = data[q[1]])
  <2>1. Len(q) \in Nat /\ \A i \in 1 .. Len(q) : data[q[i]] \in S
    BY <1>1
  <2> QED BY <2>1
<1>5. ring \in Seq(S) /\ Len(ring) = c.count
  <2>1. \A i \in 1 .. c.count : (c.head + i - 1) % n \in 0 .. n - 1
    <3> SUFFICES ASSUME NEW i \in 1 .. c.count PROVE (c.head + i - 1) % n \in 0 .. n - 1
      OBVIOUS
    <3>1. n \in Nat \ {0} /\ c.head + i - 1 \in Nat
      BY <1>1
    <3> HIDE DEF ring, rest
    <3> QED BY <3>1
  <2>2. \A i \in 1 .. c.count : c.dtqmb[(c.head + i - 1) % n] \in S
    BY <1>1, <2>1
  <2>3. c.count \in Nat
    BY <1>1
  <2> QED BY <2>2, <2>3
<1>6. c.count > 0 => ring[1] = c.dtqmb[c.head]
  <2> SUFFICES ASSUME c.count > 0 PROVE ring[1] = c.dtqmb[c.head]
    OBVIOUS
  <2>1. /\ n \in Nat \ {0} /\ c.head \in Nat /\ c.head < n /\ 1 \in 1 .. c.count
        /\ c.head + 1 - 1 = c.head
    BY <1>1
  <2>2. c.head % n = c.head
    BY <2>1
  <2>3. ring[1] = c.dtqmb[(c.head + 1 - 1) % n]
    BY <2>1
  <2> QED BY <2>1, <2>2, <2>3
<1> HIDE DEF ring, rest
<1>7. ASSUME c.count > 0 PROVE Head(Line(d)) = First(d)
  <2>1. Len(ring) > 0 /\ Head(ring \o rest) = ring[1]
    BY <1>1, <1>4, <1>5, <1>7, SMTT(60)
  <2> QED BY <1>2, <1>3, <1>6, <1>7, <2>1
<1>8. ASSUME c.count = 0 PROVE Line(d) = rest
  <2>1. ring = <<>>
    BY <1>5, <1>8
  <2> QED BY <1>2, <1>4, <2>1
<1>9. ASSUME c.count = 0, q # <<>> PROVE Head(Line(d)) = data[Sender(d)]
  <2>1. Len(q) > 0 /\ Head(q) = q[1]
    BY <1>1, <1>9
  <2>2. Head(rest) = rest[1]
    BY <1>4, <2>1
  <2> QED BY <1>3, <1>4, <1>8, <1>9, <2>1, <2>2
<1>10. ASSUME c.count = 0, q = <<>> PROVE Line(d) = <<>>
  <2>1. rest = <<>>
    BY <1>4, <1>10
  <2> QED BY <1>8, <1>10, <2>1
<1> QED BY <1>7, <1>9, <1>10 DEF c, q

(* The invariant of the data queues, on top of the kernel's.               *)
THEOREM DataqueueInvariant == DtqSpec => [](IInv /\ SInv /\ ResultPending /\ DtqInv)
<1>1. DtqInit => IInv /\ SInv /\ ResultPending /\ DtqInv
  <2> SUFFICES ASSUME DtqInit PROVE ResultPending /\ DtqInv
    BY InitInvariant, InitState DEF DtqInit
  <2>1. /\ \A t \in Task : waiton[t] = "NONE"
        /\ \A d \in Dataqueue : wait_queue[d] = <<>> /\ wait_queue[rwait[d]] = <<>>
        /\ dtqcb = [d \in Dataqueue |-> Initial(d)]
        /\ data = [t \in Task |-> NoData]
    BY TwoQueues DEF DtqInit, Init
  <2>2. "NONE" \notin Dataqueue
    BY DataqueueAssumption, ConfigAssumption
  <2>3. \A d \in Dataqueue : Initial(d) \in Ring(dtqcnt[d])
    <3> SUFFICES ASSUME NEW d \in Dataqueue PROVE Initial(d) \in Ring(dtqcnt[d])
      OBVIOUS
    <3> DEFINE n == dtqcnt[d]
               c == Initial(d)
               Cells == [0 .. n - 1 -> Data \cup {NoData}]
    <3>1. n \in Nat /\ 0 \in 0 .. n
      BY TwoQueues
    <3>2. [i \in 0 .. n - 1 |-> NoData] \in Cells
      OBVIOUS
    <3>3. c = [count |-> 0, head |-> 0, tail |-> 0, dtqmb |-> [i \in 0 .. n - 1 |-> NoData]]
      BY DEF Initial
    <3> HIDE DEF c, n, Cells
    <3>4. /\ c.count = 0 /\ c.head = 0 /\ c.tail = 0
          /\ c \in [count : 0 .. n, head : Nat, tail : Nat, dtqmb : Cells]
      BY <3>1, <3>2, <3>3
    <3>5. /\ n # 0 => c.head < n
          /\ c.tail = IF c.head + c.count < n THEN c.head + c.count ELSE c.head + c.count - n
      BY <3>1, <3>4
    <3> QED BY <3>4, <3>5 DEF Ring, c, n, Cells
  <2>4. \A d \in Dataqueue : dtqcb[d] \in Ring(dtqcnt[d])
    BY <2>1, <2>3
  <2>5. dtqcb \in [Dataqueue -> UNION {Ring(dtqcnt[d]) : d \in Dataqueue}]
    BY <2>1, <2>3
  <2>6. NobodyWaitsInVain /\ ResultPending
    BY <2>1 DEF NobodyWaitsInVain, ResultPending
  <2> QED BY <2>1, <2>2, <2>4, <2>5, <2>6 DEF DtqInv
<1>2. /\ IInv /\ SInv /\ ResultPending /\ DtqInv
      /\ [DtqNext]_dtqVars
      => (IInv /\ SInv /\ ResultPending /\ DtqInv)'
  BY DataqueueKept
<1> QED BY <1>1, <1>2, PTL DEF DtqSpec

(* No task waits to send while there is room or somebody to receive, and   *)
(* none waits to receive while there is a datum, whatever the capacities,  *)
(* and whichever waits are ended or queues reinitialised.                  *)
THEOREM NobodyInVain == DtqSpec => []NobodyWaitsInVain
<1>1. DtqInv => NobodyWaitsInVain
  BY DEF DtqInv
<1> QED BY <1>1, DataqueueInvariant, PTL

(* A receiver gets the oldest datum that was sent; one that had to wait    *)
(* gets a datum that no other one was before; senders and receivers are    *)
(* served in the order of their queues.                                    *)
THEOREM DeliveryInOrder == DtqSpec => DataDelivered
<1> DEFINE Delivered ==
             \A d \in Dataqueue :
               /\ TaskContext /\ receiveData(d) => data'[runtsk] = Head(Line(d))
               /\ \A t \in Task : Served(rwait[d], t) => data'[t] \in Data /\ Line(d) = <<>>
               /\ FirstServed(d) /\ FirstServed(rwait[d])
<1>1. ASSUME IInv, SInv, ResultPending, DtqInv, [DtqNext]_dtqVars PROVE Delivered
  <2> SUFFICES ASSUME NEW d \in Dataqueue
               PROVE  /\ TaskContext /\ receiveData(d) => data'[runtsk] = Head(Line(d))
                      /\ \A t \in Task :
                           Served(rwait[d], t) => data'[t] \in Data /\ Line(d) = <<>>
                      /\ FirstServed(d) /\ FirstServed(rwait[d])
    OBVIOUS
  <2>1. data \in [Task -> Data \cup {NoData}]
    BY <1>1 DEF DtqInv
  <2>2. ASSUME TaskContext, receiveData(d) PROVE data'[runtsk] = Head(Line(d))
    <3>1. runtsk \in Task
      BY <1>1, <2>2 DEF TaskContext, IInv, TypeOK
    <3>2. CASE dtqcb[d].count > 0 /\ data' = [data EXCEPT ![runtsk] = First(d)]
      BY <1>1, <2>1, <3>1, <3>2, HeadOfLine
    <3>3. CASE /\ dtqcb[d].count = 0 /\ wait_queue[d] # <<>>
               /\ data' = [data EXCEPT ![runtsk] = data[Sender(d)]]
      BY <1>1, <2>1, <3>1, <3>3, HeadOfLine
    <3> QED BY <2>2, <3>2, <3>3 DEF receiveData
  <2>3. ASSUME NEW t \in Task, Served(rwait[d], t)
        PROVE  data'[t] \in Data /\ Line(d) = <<>>
    <3>1. PICK v \in Data : HandsOver(d, v) /\ t = Head(wait_queue[rwait[d]])
      BY <1>1, <2>3, DataqueueQueues
    <3>2. data' = [data EXCEPT ![t] = v] /\ wait_queue[rwait[d]] # <<>>
      BY <3>1 DEF HandsOver, QueueServe, Receiver
    <3>3. dtqcb[d].count = 0 /\ wait_queue[d] = <<>>
      BY <1>1, <3>2 DEF DtqInv, NobodyWaitsInVain
    <3> QED BY <1>1, <2>1, <3>2, <3>3, HeadOfLine
  <2>4. FirstServed(d) /\ FirstServed(rwait[d])
    BY <1>1, DataqueueQueues
  <2> QED BY <2>2, <2>3, <2>4
<1>2. IInv /\ SInv /\ ResultPending /\ DtqInv /\ [DtqNext]_dtqVars => [Delivered]_dtqVars
  BY <1>1, Zenon
<1> QED BY <1>2, DataqueueInvariant, PTL DEF DtqSpec, DataDelivered
-----------------------------------------------------------------------------
(* A data queue as one line: the refinement of FifoChannel.                *)

(* Elements of a line with one inserted, or removed.                       *)
LEMMA InsertedAt ==
  ASSUME NEW S, NEW s \in Seq(S), NEW i \in 1 .. Len(s) + 1, NEW e \in S
  PROVE  /\ Channel!InsertAt(s, i, e) \in Seq(S)
         /\ Len(Channel!InsertAt(s, i, e)) = Len(s) + 1
         /\ \A k \in 1 .. Len(s) + 1 :
              Channel!InsertAt(s, i, e)[k] =
                IF k < i THEN s[k] ELSE IF k = i THEN e ELSE s[k - 1]
<1> DEFINE f == SubSeq(s, 1, i - 1)
           g == SubSeq(s, i, Len(s))
           r == Channel!InsertAt(s, i, e)
<1>1. i - 1 \in 1 - 1 .. Len(s) /\ 1 \in 1 .. Len(s) + 1 /\ Len(s) \in i - 1 .. Len(s)
  OBVIOUS
<1>2. /\ f \in Seq(S) /\ Len(f) = i - 1 /\ \A k \in 1 .. i - 1 : f[k] = s[k]
  BY <1>1, SubSeqProperties
<1>3. /\ g \in Seq(S) /\ Len(g) = Len(s) - i + 1
      /\ \A k \in 1 .. Len(s) - i + 1 : g[k] = s[i + k - 1]
  BY <1>1, SubSeqProperties
<1> DEFINE h == f \o <<e>>
<1>4. r = h \o g
  BY DEF Channel!InsertAt
<1> HIDE DEF f, g, r
<1>7. h \in Seq(S) /\ Len(h) = i /\ h[i] = e /\ \A j \in 1 .. i - 1 : h[j] = f[j]
  BY <1>2
<1> HIDE DEF h
<1>5. r \in Seq(S) /\ Len(r) = Len(s) + 1
  BY <1>3, <1>4, <1>7
<1>6. ASSUME NEW k \in 1 .. Len(s) + 1
      PROVE  r[k] = IF k < i THEN s[k] ELSE IF k = i THEN e ELSE s[k - 1]
  <2>1. CASE k < i
    BY <1>2, <1>3, <1>4, <1>7, <2>1
  <2>2. CASE k = i
    BY <1>3, <1>4, <1>7, <2>2
  <2>3. CASE k > i
    <3>1. k - i \in 1 .. Len(s) - i + 1
      BY <2>3
    <3>2. g[k - i] = s[i + (k - i) - 1] /\ i + (k - i) - 1 = k - 1
      BY <1>3, <3>1
    <3>3. r[k] = g[k - i]
      BY <1>3, <1>4, <1>7, <2>3
    <3> QED BY <2>3, <3>2, <3>3
  <2> QED BY <2>1, <2>2, <2>3
<1> QED BY <1>5, <1>6 DEF r

(* What stands where after a removal.                                      *)
LEMMA RemovedAt ==
  ASSUME NEW S, NEW s \in Seq(S), NEW i \in 1 .. Len(s)
  PROVE  /\ Channel!RemoveAt(s, i) \in Seq(S)
         /\ Len(Channel!RemoveAt(s, i)) = Len(s) - 1
         /\ \A k \in 1 .. Len(s) - 1 :
              Channel!RemoveAt(s, i)[k] = IF k < i THEN s[k] ELSE s[k + 1]
<1> DEFINE f == SubSeq(s, 1, i - 1)
           g == SubSeq(s, i + 1, Len(s))
           r == Channel!RemoveAt(s, i)
<1>1. /\ i - 1 \in 1 - 1 .. Len(s) /\ 1 \in 1 .. Len(s) + 1
      /\ i + 1 \in 1 .. Len(s) + 1 /\ Len(s) \in (i + 1) - 1 .. Len(s)
  OBVIOUS
<1>2. /\ f \in Seq(S) /\ Len(f) = i - 1 /\ \A k \in 1 .. i - 1 : f[k] = s[k]
  BY <1>1, SubSeqProperties
<1>3. /\ g \in Seq(S) /\ Len(g) = Len(s) - i
      /\ \A k \in 1 .. Len(s) - i : g[k] = s[i + k]
  BY <1>1, SubSeqProperties
<1>4. r = f \o g
  BY DEF Channel!RemoveAt
<1> HIDE DEF f, g, r
<1>5. r \in Seq(S) /\ Len(r) = Len(s) - 1
  BY <1>2, <1>3, <1>4
<1>6. ASSUME NEW k \in 1 .. Len(s) - 1
      PROVE  r[k] = IF k < i THEN s[k] ELSE s[k + 1]
  <2>1. CASE k < i
    BY <1>2, <1>3, <1>4, <2>1
  <2>2. CASE k >= i
    <3>1. k - i + 1 \in 1 .. Len(s) - i
      BY <2>2
    <3>2. g[k - i + 1] = s[i + (k - i + 1)] /\ i + (k - i + 1) = k + 1
      BY <1>3, <3>1
    <3>3. r[k] = g[k - i + 1]
      BY <1>2, <1>3, <1>4, <2>2, SMTT(60)
    <3> QED BY <2>2, <3>2, <3>3
  <2> QED BY <2>1, <2>2
<1> QED BY <1>5, <1>6 DEF r

(* The index into a ring passes its end at most once.                      *)
LEMMA ModOnce ==
  ASSUME NEW n \in Nat, NEW x \in Nat, n > 0, x < n + n
  PROVE  x % n = IF x < n THEN x ELSE x - n
  BY Z3T(20)

(* What stands where in two lists put together.                            *)
LEMMA Joined ==
  ASSUME NEW S, NEW f \in Seq(S), NEW g \in Seq(S)
  PROVE  /\ f \o g \in Seq(S) /\ Len(f \o g) = Len(f) + Len(g)
         /\ \A i \in 1 .. Len(f) : (f \o g)[i] = f[i]
         /\ \A i \in 1 .. Len(g) : (f \o g)[Len(f) + i] = g[i]
<1>1. Len(f) \in Nat /\ Len(g) \in Nat
  OBVIOUS
<1>2. /\ f \o g \in Seq(S) /\ Len(f \o g) = Len(f) + Len(g)
      /\ \A i \in 1 .. Len(f) + Len(g) :
           (f \o g)[i] = IF i <= Len(f) THEN f[i] ELSE g[i - Len(f)]
  BY ConcatProperties
<1>3. \A i \in 1 .. Len(g) : (f \o g)[Len(f) + i] = g[i]
  BY <1>1, <1>2
<1> QED BY <1>1, <1>2, <1>3

Datum == Data \cup {NoData}

(* What stands where in a line r that a datum has joined as its x-th.      *)
JoinedAt(r, l, x, v) ==
  /\ r \in Seq(Datum) /\ Len(r) = Len(l) + 1
  /\ \A i \in 1 .. Len(l) + 1 : r[i] = IF i < x THEN l[i] ELSE IF i = x THEN v ELSE l[i - 1]

LEMMA InsertedDatum ==
  ASSUME NEW l \in Seq(Datum), NEW x \in 1 .. Len(l) + 1, NEW v \in Datum
  PROVE  JoinedAt(Channel!InsertAt(l, x, v), l, x, v)
<1> DEFINE S == Datum
<1>1. l \in Seq(S) /\ x \in 1 .. Len(l) + 1 /\ v \in S
  OBVIOUS
<1> HIDE DEF S
<1>2. Channel!InsertAt(l, x, v) \in Seq(S)
  BY ONLY <1>1, InsertedAt
<1>3. Len(Channel!InsertAt(l, x, v)) = Len(l) + 1
  BY ONLY <1>1, InsertedAt
<1>4. \A i \in 1 .. Len(l) + 1 :
        Channel!InsertAt(l, x, v)[i] = IF i < x THEN l[i] ELSE IF i = x THEN v ELSE l[i - 1]
  BY ONLY <1>1, InsertedAt
<1> QED BY ONLY <1>2, <1>3, <1>4, Zenon DEF S, JoinedAt

(* The line of a data queue with control block c, capacity n and queue of  *)
(* senders q, who wait with the data a.                                    *)
LineOf(c, n, q, a) ==
  [i \in 1 .. c.count |-> c.dtqmb[(c.head + i - 1) % n]] \o [i \in 1 .. Len(q) |-> a[q[i]]]

(* The cell of a ring that is i-th from its head.                          *)
Cell(n, h, i) == IF h + i - 1 < n THEN h + i - 1 ELSE h + i - 1 - n

(* The data of the ring in their order come first, then the senders'.      *)
Shaped(l, c, n, q, a) ==
  /\ l \in Seq(Datum) /\ Len(l) = c.count + Len(q)
  /\ \A i \in 1 .. c.count : l[i] = c.dtqmb[Cell(n, c.head, i)]
  /\ \A i \in 1 .. Len(q) : l[c.count + i] = a[q[i]]

LEMMA LineShape ==
  ASSUME NEW n \in Nat, NEW c \in Ring(n), NEW q \in Seq(Task), NEW a \in [Task -> Datum]
  PROVE  Shaped(LineOf(c, n, q, a), c, n, q, a)
<1> DEFINE ring == [i \in 1 .. c.count |-> c.dtqmb[(c.head + i - 1) % n]]
           rest == [i \in 1 .. Len(q) |-> a[q[i]]]
           k == c.count
           h == c.head
           m == c.dtqmb
<1>1. /\ k \in 0 .. n /\ h \in Nat /\ m \in [0 .. n - 1 -> Datum]
      /\ n # 0 => h < n
  BY DEF Ring, Datum
<1>2. ring = [i \in 1 .. k |-> m[(h + i - 1) % n]]
  OBVIOUS
<1> HIDE DEF k, h, m, ring
<1>3. ASSUME NEW i \in 1 .. k
      PROVE  (h + i - 1) % n = Cell(n, h, i) /\ Cell(n, h, i) \in 0 .. n - 1
  <2>1. n \in Nat /\ n > 0 /\ h + i - 1 \in Nat /\ h + i - 1 < n + n
    BY <1>1
  <2>2. (h + i - 1) % n = Cell(n, h, i)
    BY <1>1, <2>1, ModOnce DEF Cell
  <2>3. Cell(n, h, i) \in 0 .. n - 1
    BY <1>1, <2>1 DEF Cell
  <2> QED BY <2>2, <2>3
<1>4. ring \in Seq(Datum) /\ Len(ring) = k /\ \A i \in 1 .. k : ring[i] = m[Cell(n, h, i)]
  <2>1. \A i \in 1 .. k : m[(h + i - 1) % n] \in Datum
    BY <1>1, <1>3
  <2>2. k \in Nat
    BY <1>1
  <2> QED BY <1>2, <1>3, <2>1, <2>2
<1>5. rest \in Seq(Datum) /\ Len(rest) = Len(q) /\ \A i \in 1 .. Len(q) : rest[i] = a[q[i]]
  <2>1. Len(q) \in Nat /\ \A i \in 1 .. Len(q) : a[q[i]] \in Datum
    OBVIOUS
  <2> QED BY <2>1
<1> HIDE DEF rest
<1>6. LineOf(c, n, q, a) = ring \o rest
  BY DEF LineOf, ring, rest
<1>7. /\ ring \o rest \in Seq(Datum) /\ Len(ring \o rest) = k + Len(q)
      /\ \A i \in 1 .. k : (ring \o rest)[i] = ring[i]
      /\ \A i \in 1 .. Len(q) : (ring \o rest)[k + i] = rest[i]
  <2>1. ring \in Seq(Datum) /\ rest \in Seq(Datum)
    BY <1>4, <1>5
  <2>2. /\ ring \o rest \in Seq(Datum) /\ Len(ring \o rest) = Len(ring) + Len(rest)
        /\ \A i \in 1 .. Len(ring) : (ring \o rest)[i] = ring[i]
        /\ \A i \in 1 .. Len(rest) : (ring \o rest)[Len(ring) + i] = rest[i]
    <3>1. ring \o rest \in Seq(Datum) /\ Len(ring \o rest) = Len(ring) + Len(rest)
      BY ONLY <2>1, Joined
    <3>2. \A i \in 1 .. Len(ring) : (ring \o rest)[i] = ring[i]
      BY ONLY <2>1, Joined
    <3>3. \A i \in 1 .. Len(rest) : (ring \o rest)[Len(ring) + i] = rest[i]
      BY ONLY <2>1, Joined
    <3> QED BY ONLY <3>1, <3>2, <3>3
  <2>3. Len(ring) = k /\ Len(rest) = Len(q)
    BY <1>4, <1>5
  <2> QED BY ONLY <2>2, <2>3, Zenon
<1>8. Shaped(ring \o rest, c, n, q, a)
  BY ONLY <1>4, <1>5, <1>7 DEF Shaped, k, h, m
<1> QED BY ONLY <1>6, <1>8, Zenon

(* What storing, forcing and taking a datum do to the cells in use.        *)
LEMMA StoredCells ==
  ASSUME NEW d \in Dataqueue, NEW n, n = dtqcnt[d], NEW c \in Ring(n), NEW v \in Data,
         NEW e, c.count < n, e = enqueueData(d, c, v)
  PROVE  /\ e \in Ring(n) /\ e.count = c.count + 1
         /\ \A i \in 1 .. c.count :
              e.dtqmb[Cell(n, e.head, i)] = c.dtqmb[Cell(n, c.head, i)]
         /\ e.dtqmb[Cell(n, e.head, e.count)] = v
<1> DEFINE k == c.count
           h == c.head
           m == c.dtqmb
           t == c.tail
<1>1. e \in Ring(n) /\ e.count = k + 1
  BY Enqueues
<1>2. /\ n \in Nat /\ k \in 0 .. n /\ k < n /\ h \in Nat /\ t \in Nat
      /\ m \in [0 .. n - 1 -> Data \cup {NoData}]
      /\ n # 0 => h < n
      /\ t = IF h + k < n THEN h + k ELSE h + k - n
  BY TwoQueues DEF Ring
<1>3. e.head = h /\ e.dtqmb = [m EXCEPT ![t] = v]
  BY DEF enqueueData, Ring
<1> HIDE DEF k, h, m, t
<1>4. t \in 0 .. n - 1 /\ t = Cell(n, h, k + 1)
  <2>1. /\ n \in Nat /\ k \in Nat /\ h \in Nat /\ t \in Nat /\ k < n /\ h < n
        /\ t = IF h + k < n THEN h + k ELSE h + k - n
    BY <1>2
  <2>2. t \in 0 .. n - 1
    BY ONLY <2>1
  <2>3. t = Cell(n, h, k + 1)
    BY ONLY <2>1 DEF Cell
  <2> QED BY ONLY <2>2, <2>3, Zenon
<1>5. \A i \in 1 .. k : Cell(n, h, i) \in 0 .. n - 1 /\ Cell(n, h, i) # t
  <2> SUFFICES ASSUME NEW i \in 1 .. k
               PROVE  Cell(n, h, i) \in 0 .. n - 1 /\ Cell(n, h, i) # t
    OBVIOUS
  <2>1. /\ n \in Nat /\ k \in Nat /\ h \in Nat /\ k < n /\ h < n
        /\ t = IF h + k < n THEN h + k ELSE h + k - n
    BY <1>2
  <2>2. i \in Nat /\ 1 <= i /\ i <= k
    BY ONLY <2>1, i \in 1 .. k
  <2> QED BY ONLY <2>1, <2>2 DEF Cell
<1> QED BY <1>1, <1>2, <1>3, <1>4, <1>5 DEF k, h, m

(* Taking the first datum leaves the others one place nearer.              *)
LEMMA TakenCells ==
  ASSUME NEW d \in Dataqueue, NEW n, n = dtqcnt[d], NEW c \in Ring(n),
         NEW e, c.count > 0, e = dequeueData(d, c)
  PROVE  /\ e \in Ring(n) /\ e.count = c.count - 1
         /\ \A i \in 1 .. e.count :
              e.dtqmb[Cell(n, e.head, i)] = c.dtqmb[Cell(n, c.head, i + 1)]
<1> DEFINE k == c.count
           h == c.head
<1>1. e \in Ring(n) /\ e.count = k - 1
  BY Dequeues
<1>2. /\ n \in Nat /\ k \in 0 .. n /\ k > 0 /\ h \in Nat /\ h < n
  BY TwoQueues DEF Ring
<1>3. e.head = (IF h + 1 >= n THEN 0 ELSE h + 1) /\ e.dtqmb = c.dtqmb
  BY DEF dequeueData, Wrapped, Ring
<1> HIDE DEF k, h
<1>4. \A i \in 1 .. k - 1 : Cell(n, e.head, i) = Cell(n, h, i + 1)
  BY <1>2, <1>3 DEF Cell
<1> QED BY <1>1, <1>3, <1>4 DEF k, h

(* Forcing a datum into a full ring drops the first and ends with it.      *)
LEMMA ForcedCells ==
  ASSUME NEW d \in Dataqueue, NEW n, n = dtqcnt[d], NEW c \in Ring(n), NEW v \in Data,
         NEW e, n > 0, c.count = n, e = forceEnqueueData(d, c, v)
  PROVE  /\ e \in Ring(n) /\ e.count = n
         /\ \A i \in 1 .. n - 1 :
              e.dtqmb[Cell(n, e.head, i)] = c.dtqmb[Cell(n, c.head, i + 1)]
         /\ e.dtqmb[Cell(n, e.head, n)] = v
<1> DEFINE h == c.head
           m == c.dtqmb
           t == c.tail
<1>1. e \in Ring(n) /\ e.count = n
  BY ForceEnqueues
<1>2. /\ n \in Nat /\ n > 0 /\ h \in Nat /\ h < n /\ t \in Nat
      /\ m \in [0 .. n - 1 -> Data \cup {NoData}]
      /\ t = IF h + n < n THEN h + n ELSE h + n - n
  BY TwoQueues DEF Ring
<1>3. e.head = (IF t + 1 >= n THEN 0 ELSE t + 1) /\ e.dtqmb = [m EXCEPT ![t] = v]
  BY <1>2 DEF forceEnqueueData, Wrapped, Ring
<1> HIDE DEF h, m, t
<1>4. t = h /\ h \in 0 .. n - 1 /\ h = Cell(n, e.head, n)
  BY <1>2, <1>3 DEF Cell
<1>5. \A i \in 1 .. n - 1 :
        /\ Cell(n, e.head, i) = Cell(n, h, i + 1)
        /\ Cell(n, e.head, i) \in 0 .. n - 1 /\ Cell(n, e.head, i) # t
  <2>1. CASE h + 1 >= n
    <3>1. t + 1 >= n /\ h = n - 1
      BY ONLY <1>2, <1>4, <2>1
    <3>2. e.head = 0
      BY <1>3, <3>1
    <3> QED BY ONLY <1>2, <1>4, <3>1, <3>2 DEF Cell
  <2>2. CASE h + 1 < n
    <3>1. ~ (t + 1 >= n)
      BY <1>2, <1>4, <2>2
    <3>2. e.head = h + 1
      BY <1>3, <1>4, <3>1
    <3>3. ASSUME NEW i \in 1 .. n - 1
          PROVE  /\ Cell(n, h + 1, i) = Cell(n, h, i + 1)
                 /\ Cell(n, h + 1, i) \in 0 .. n - 1 /\ Cell(n, h + 1, i) # h
      BY ONLY <1>2, <2>2 DEF Cell
    <3> QED BY <1>4, <3>2, <3>3
  <2> QED BY <1>2, <2>1, <2>2
<1> QED BY <1>1, <1>2, <1>3, <1>4, <1>5, Zenon DEF h, m

(* What they do to the line.                                               *)
LEMMA LineStored ==
  ASSUME NEW d \in Dataqueue, NEW c \in Ring(dtqcnt[d]), NEW v \in Data,
         c.count < dtqcnt[d], NEW a \in [Task -> Datum]
  PROVE  LET l == LineOf(c, dtqcnt[d], <<>>, a)
         IN  /\ Len(l) = c.count
             /\ LineOf(enqueueData(d, c, v), dtqcnt[d], <<>>, a)
                  = Channel!InsertAt(l, c.count + 1, v)
<1> DEFINE n == dtqcnt[d]
           q == <<>>
           e == enqueueData(d, c, v)
           l == LineOf(c, n, q, a)
           k == c.count
           r == Channel!InsertAt(l, k + 1, v)
           m == LineOf(e, n, q, a)
<1>0. /\ n = dtqcnt[d] /\ c \in Ring(n) /\ c.count < n /\ e = enqueueData(d, c, v)
      /\ q \in Seq(Task)
  OBVIOUS
<1>1. n \in Nat /\ k \in Nat /\ v \in Datum /\ Len(q) = 0
  BY <1>0, TwoQueues DEF Ring, Datum
<1> HIDE DEF n, q, e
<1>2. /\ e \in Ring(n) /\ e.count = k + 1
      /\ \A i \in 1 .. k : e.dtqmb[Cell(n, e.head, i)] = c.dtqmb[Cell(n, c.head, i)]
      /\ e.dtqmb[Cell(n, e.head, k + 1)] = v
  BY <1>0, StoredCells
<1> HIDE DEF l, k, r, m
<1>3. /\ l \in Seq(Datum) /\ Len(l) = k
      /\ \A i \in 1 .. k : l[i] = c.dtqmb[Cell(n, c.head, i)]
  <2>1. /\ l \in Seq(Datum) /\ Len(l) = k + Len(q)
        /\ \A i \in 1 .. k : l[i] = c.dtqmb[Cell(n, c.head, i)]
    <3>1. n \in Nat /\ c \in Ring(n) /\ q \in Seq(Task) /\ a \in [Task -> Datum]
      BY <1>0, <1>1
    <3>2. Shaped(l, c, n, q, a)
      BY ONLY <3>1, LineShape, Zenon DEF l
    <3> QED BY ONLY <3>2 DEF Shaped, k
  <2> QED BY ONLY <1>1, <2>1
<1>4. /\ m \in Seq(Datum) /\ Len(m) = k + 1
      /\ \A i \in 1 .. k + 1 : m[i] = e.dtqmb[Cell(n, e.head, i)]
  <2>1. /\ m \in Seq(Datum) /\ Len(m) = e.count + Len(q)
        /\ \A i \in 1 .. e.count : m[i] = e.dtqmb[Cell(n, e.head, i)]
    <3>1. n \in Nat /\ e \in Ring(n) /\ q \in Seq(Task) /\ a \in [Task -> Datum]
      BY <1>0, <1>1, <1>2
    <3>2. Shaped(m, e, n, q, a)
      BY ONLY <3>1, LineShape, Zenon DEF m
    <3> QED BY ONLY <3>2 DEF Shaped
  <2> QED BY ONLY <1>1, <1>2, <2>1
<1>5. k + 1 \in 1 .. Len(l) + 1
  BY ONLY <1>1, <1>3
<1>6. /\ r \in Seq(Datum) /\ Len(r) = Len(l) + 1
      /\ \A i \in 1 .. Len(l) + 1 :
           r[i] = IF i < k + 1 THEN l[i] ELSE IF i = k + 1 THEN v ELSE l[i - 1]
  <2> DEFINE x == k + 1
  <2>1. l \in Seq(Datum) /\ x \in 1 .. Len(l) + 1 /\ v \in Datum /\ r = Channel!InsertAt(l, x, v)
    BY ONLY <1>1, <1>3, <1>5 DEF r
  <2> HIDE DEF x
  <2>2. JoinedAt(r, l, x, v)
    BY ONLY <2>1, InsertedDatum, Zenon
  <2> QED BY ONLY <2>2, Zenon DEF JoinedAt, x
<1>7. \A i \in 1 .. Len(m) : m[i] = r[i]
  BY ONLY <1>1, <1>2, <1>3, <1>4, <1>6
<1>8. m = r
  BY <1>3, <1>4, <1>6, <1>7, SeqEqual
<1> QED BY <1>3, <1>8 DEF n, q, e, l, k, r, m

(* Forcing: the datum joins behind the ring and the first one leaves.      *)
LEMMA LineForced ==
  ASSUME NEW d \in Dataqueue, NEW n, n = dtqcnt[d],
         NEW c \in Ring(n), NEW v \in Data, NEW e, n > 0, c.count = n,
         e = forceEnqueueData(d, c, v), NEW q \in Seq(Task), NEW a \in [Task -> Datum]
  PROVE  LET l == LineOf(c, n, q, a)
         IN  /\ Len(l) = n + Len(q)
             /\ LineOf(e, n, q, a) = Channel!RemoveAt(Channel!InsertAt(l, n + 1, v), 1)
<1> DEFINE l == LineOf(c, n, q, a)
           r == Channel!InsertAt(l, n + 1, v)
           s == Channel!RemoveAt(r, 1)
           m == LineOf(e, n, q, a)
<1>1. n \in Nat /\ v \in Datum /\ Len(q) \in Nat
  BY TwoQueues DEF Datum
<1>2. /\ e \in Ring(n) /\ e.count = n
      /\ \A i \in 1 .. n - 1 : e.dtqmb[Cell(n, e.head, i)] = c.dtqmb[Cell(n, c.head, i + 1)]
      /\ e.dtqmb[Cell(n, e.head, n)] = v
  BY ForcedCells
<1> HIDE DEF l, r, s, m
<1>3. /\ l \in Seq(Datum) /\ Len(l) = n + Len(q)
      /\ \A i \in 1 .. n : l[i] = c.dtqmb[Cell(n, c.head, i)]
      /\ \A i \in 1 .. Len(q) : l[n + i] = a[q[i]]
  <2>1. n \in Nat /\ c \in Ring(n) /\ c.count = n /\ q \in Seq(Task) /\ a \in [Task -> Datum]
    BY <1>1
  <2>2. Shaped(l, c, n, q, a)
    BY ONLY <2>1, LineShape, Zenon DEF l
  <2> QED BY ONLY <2>1, <2>2, Zenon DEF Shaped
<1>4. /\ m \in Seq(Datum) /\ Len(m) = n + Len(q)
      /\ \A i \in 1 .. n : m[i] = e.dtqmb[Cell(n, e.head, i)]
      /\ \A i \in 1 .. Len(q) : m[n + i] = a[q[i]]
  <2>1. n \in Nat /\ e \in Ring(n) /\ e.count = n /\ q \in Seq(Task) /\ a \in [Task -> Datum]
    BY <1>1, <1>2
  <2>2. Shaped(m, e, n, q, a)
    BY ONLY <2>1, LineShape, Zenon DEF m
  <2> QED BY ONLY <2>1, <2>2, Zenon DEF Shaped
<1>5. n + 1 \in 1 .. Len(l) + 1
  BY ONLY <1>1, <1>3
<1>6. /\ r \in Seq(Datum) /\ Len(r) = Len(l) + 1
      /\ \A i \in 1 .. Len(l) + 1 :
           r[i] = IF i < n + 1 THEN l[i] ELSE IF i = n + 1 THEN v ELSE l[i - 1]
  <2> DEFINE x == n + 1
  <2>1. l \in Seq(Datum) /\ x \in 1 .. Len(l) + 1 /\ v \in Datum /\ r = Channel!InsertAt(l, x, v)
    BY ONLY <1>1, <1>3, <1>5 DEF r
  <2> HIDE DEF x
  <2>2. JoinedAt(r, l, x, v)
    BY ONLY <2>1, InsertedDatum, Zenon
  <2> QED BY ONLY <2>2, Zenon DEF JoinedAt, x
<1>7. 1 \in 1 .. Len(r)
  BY ONLY <1>1, <1>3, <1>6
<1>8. /\ s \in Seq(Datum) /\ Len(s) = Len(r) - 1
      /\ \A i \in 1 .. Len(r) - 1 : s[i] = IF i < 1 THEN r[i] ELSE r[i + 1]
  BY <1>6, <1>7, RemovedAt, ZenonT(60) DEF s
<1>9. ASSUME NEW i \in 1 .. n + Len(q) PROVE m[i] = s[i]
  <2>1. s[i] = r[i + 1] /\ i + 1 \in 1 .. Len(l) + 1
    BY ONLY <1>1, <1>3, <1>6, <1>8, i \in 1 .. n + Len(q)
  <2>2. CASE i < n
    <3>1. r[i + 1] = l[i + 1] /\ i + 1 \in 1 .. n /\ i \in 1 .. n - 1
      BY ONLY <1>1, <1>6, <2>1, <2>2, i \in 1 .. n + Len(q)
    <3> QED BY ONLY <1>1, <1>2, <1>3, <1>4, <2>1, <3>1
  <2>3. CASE i = n
    BY ONLY <1>1, <1>2, <1>4, <1>6, <2>1, <2>3, i \in 1 .. n + Len(q)
  <2>4. CASE i > n
    <3>1. r[i + 1] = l[i] /\ i - n \in 1 .. Len(q) /\ n + (i - n) = i
      BY ONLY <1>1, <1>6, <2>1, <2>4, i \in 1 .. n + Len(q)
    <3>2. l[n + (i - n)] = m[n + (i - n)]
      BY ONLY <1>3, <1>4, <3>1
    <3> QED BY ONLY <2>1, <3>1, <3>2
  <2> QED BY <1>1, <2>2, <2>3, <2>4
<1>10. Len(s) = n + Len(q) /\ \A i \in 1 .. Len(m) : m[i] = s[i]
  BY ONLY <1>1, <1>3, <1>4, <1>6, <1>8, <1>9
<1>11. m = s
  BY <1>4, <1>8, <1>10, SeqEqual
<1> QED BY <1>3, <1>11 DEF l, r, s, m

(* Taking the first datum when nobody waits to send.                       *)
LEMMA LineTaken ==
  ASSUME NEW d \in Dataqueue, NEW c \in Ring(dtqcnt[d]), c.count > 0,
         NEW a \in [Task -> Datum], NEW b \in [Task -> Datum]
  PROVE  LET l == LineOf(c, dtqcnt[d], <<>>, a)
         IN  l # <<>> /\ LineOf(dequeueData(d, c), dtqcnt[d], <<>>, b) = Tail(l)
<1> DEFINE n == dtqcnt[d]
           q == <<>>
           e == dequeueData(d, c)
           l == LineOf(c, n, q, a)
           k == c.count
           m == LineOf(e, n, q, b)
<1>0. n = dtqcnt[d] /\ c \in Ring(n) /\ e = dequeueData(d, c) /\ q \in Seq(Task)
  OBVIOUS
<1>1. n \in Nat /\ k \in Nat /\ k > 0 /\ Len(q) = 0
  BY <1>0, TwoQueues DEF Ring, Datum
<1> HIDE DEF n, q, e
<1>2. /\ e \in Ring(n) /\ e.count = k - 1
      /\ \A i \in 1 .. k - 1 : e.dtqmb[Cell(n, e.head, i)] = c.dtqmb[Cell(n, c.head, i + 1)]
  BY <1>0, TakenCells
<1> HIDE DEF l, k, m
<1>3. /\ l \in Seq(Datum) /\ Len(l) = k
      /\ \A i \in 1 .. k : l[i] = c.dtqmb[Cell(n, c.head, i)]
  <2>1. /\ l \in Seq(Datum) /\ Len(l) = k + Len(q)
        /\ \A i \in 1 .. k : l[i] = c.dtqmb[Cell(n, c.head, i)]
    <3>1. n \in Nat /\ c \in Ring(n) /\ q \in Seq(Task) /\ a \in [Task -> Datum]
      BY <1>0, <1>1
    <3>2. Shaped(l, c, n, q, a)
      BY ONLY <3>1, LineShape, Zenon DEF l
    <3> QED BY ONLY <3>2 DEF Shaped, k
  <2> QED BY ONLY <1>1, <2>1
<1>4. /\ m \in Seq(Datum) /\ Len(m) = k - 1
      /\ \A i \in 1 .. k - 1 : m[i] = e.dtqmb[Cell(n, e.head, i)]
  <2>1. /\ m \in Seq(Datum) /\ Len(m) = e.count + Len(q)
        /\ \A i \in 1 .. e.count : m[i] = e.dtqmb[Cell(n, e.head, i)]
    <3>1. n \in Nat /\ e \in Ring(n) /\ q \in Seq(Task) /\ b \in [Task -> Datum]
      BY <1>0, <1>1, <1>2
    <3>2. Shaped(m, e, n, q, b)
      BY ONLY <3>1, LineShape, Zenon DEF m
    <3> QED BY ONLY <3>2 DEF Shaped
  <2> QED BY ONLY <1>1, <1>2, <2>1
<1>5. l # <<>>
  BY ONLY <1>1, <1>3
<1>6. /\ Tail(l) \in Seq(Datum) /\ Len(Tail(l)) = k - 1
      /\ \A i \in 1 .. k - 1 : Tail(l)[i] = l[i + 1]
  BY ONLY <1>1, <1>3, <1>5
<1>7. ASSUME NEW i \in 1 .. Len(m) PROVE m[i] = Tail(l)[i]
  <2>1. i \in 1 .. k - 1 /\ i + 1 \in 1 .. k
    BY <1>1, <1>4
  <2>2. Tail(l)[i] = l[i + 1] /\ l[i + 1] = c.dtqmb[Cell(n, c.head, i + 1)]
    BY ONLY <1>3, <1>6, <2>1
  <2>3. m[i] = e.dtqmb[Cell(n, e.head, i)]
    BY ONLY <1>4, <2>1
  <2>4. e.dtqmb[Cell(n, e.head, i)] = c.dtqmb[Cell(n, c.head, i + 1)]
    BY ONLY <1>2, <2>1
  <2> QED BY ONLY <2>2, <2>3, <2>4
<1>8. m = Tail(l)
  BY <1>4, <1>6, <1>7, SeqEqual
<1> QED BY <1>5, <1>8 DEF n, q, e, l, m

(* Taking the first datum when the first sender fills the place.           *)
LEMMA LineRefilled ==
  ASSUME NEW d \in Dataqueue, NEW c \in Ring(dtqcnt[d]), dtqcnt[d] > 0, c.count = dtqcnt[d],
         NEW q \in Seq(Task), q # <<>>, NEW a \in [Task -> Datum], NEW b \in [Task -> Datum],
         a[q[1]] \in Data, \A i \in 2 .. Len(q) : b[q[i]] = a[q[i]]
  PROVE  LET l == LineOf(c, dtqcnt[d], q, a)
         IN  /\ l # <<>>
             /\ LineOf(enqueueData(d, dequeueData(d, c), a[q[1]]), dtqcnt[d], Tail(q), b) = Tail(l)
<1> DEFINE n == dtqcnt[d]
           v == a[q[1]]
           o == dequeueData(d, c)
           e == enqueueData(d, o, v)
           l == LineOf(c, n, q, a)
           m == LineOf(e, n, Tail(q), b)
           p == Tail(q)
<1>0. /\ n = dtqcnt[d] /\ c \in Ring(n) /\ n > 0 /\ c.count = n /\ v \in Data /\ v = a[q[1]]
      /\ o = dequeueData(d, c) /\ e = enqueueData(d, o, v)
  OBVIOUS
<1>1. n \in Nat /\ Len(q) \in Nat /\ Len(q) > 0
  BY TwoQueues
<1> HIDE DEF n, v, o, e
<1>2. /\ o \in Ring(n) /\ o.count = n - 1
      /\ \A i \in 1 .. n - 1 : o.dtqmb[Cell(n, o.head, i)] = c.dtqmb[Cell(n, c.head, i + 1)]
  BY <1>0, <1>1, TakenCells
<1>3. /\ e \in Ring(n) /\ e.count = n
      /\ \A i \in 1 .. n - 1 : e.dtqmb[Cell(n, e.head, i)] = o.dtqmb[Cell(n, o.head, i)]
      /\ e.dtqmb[Cell(n, e.head, n)] = v
  <2>1. o.count < n /\ e = enqueueData(d, o, v) /\ o.count = n - 1 /\ n - 1 + 1 = n
    BY <1>0, <1>1, <1>2
  <2>2. /\ e \in Ring(n) /\ e.count = o.count + 1
        /\ \A i \in 1 .. o.count : e.dtqmb[Cell(n, e.head, i)] = o.dtqmb[Cell(n, o.head, i)]
        /\ e.dtqmb[Cell(n, e.head, e.count)] = v
    BY <1>0, <1>2, <2>1, StoredCells
  <2> QED BY ONLY <2>1, <2>2
<1>4. /\ p \in Seq(Task) /\ Len(p) = Len(q) - 1 /\ \A i \in 1 .. Len(q) - 1 : p[i] = q[i + 1]
  BY <1>1
<1> HIDE DEF l, m, p
<1>5. /\ l \in Seq(Datum) /\ Len(l) = n + Len(q)
      /\ \A i \in 1 .. n : l[i] = c.dtqmb[Cell(n, c.head, i)]
      /\ \A i \in 1 .. Len(q) : l[n + i] = a[q[i]]
  <2>1. n \in Nat /\ c \in Ring(n) /\ c.count = n /\ q \in Seq(Task) /\ a \in [Task -> Datum]
    BY <1>0, <1>1
  <2>2. Shaped(l, c, n, q, a)
    BY ONLY <2>1, LineShape, Zenon DEF l
  <2> QED BY ONLY <2>1, <2>2, Zenon DEF Shaped
<1>6. /\ m \in Seq(Datum) /\ Len(m) = n + Len(p)
      /\ \A i \in 1 .. n : m[i] = e.dtqmb[Cell(n, e.head, i)]
      /\ \A i \in 1 .. Len(p) : m[n + i] = b[p[i]]
  <2>1. n \in Nat /\ e \in Ring(n) /\ p \in Seq(Task) /\ b \in [Task -> Datum] /\ m = LineOf(e, n, p, b)
    BY <1>1, <1>3, <1>4 DEF m, p
  <2>2. Shaped(m, e, n, p, b)
    BY ONLY <2>1, LineShape, Zenon
  <2> QED BY ONLY <1>3, <2>2, Zenon DEF Shaped
<1>7. l # <<>>
  BY ONLY <1>1, <1>5
<1>8. /\ Tail(l) \in Seq(Datum) /\ Len(Tail(l)) = n + Len(q) - 1
      /\ \A i \in 1 .. n + Len(q) - 1 : Tail(l)[i] = l[i + 1]
  BY ONLY <1>1, <1>5, <1>7
<1>9. ASSUME NEW i \in 1 .. n + Len(q) - 1 PROVE m[i] = Tail(l)[i]
  <2>1. Tail(l)[i] = l[i + 1]
    BY ONLY <1>8, i \in 1 .. n + Len(q) - 1
  <2>2. CASE i < n
    <3>1. i \in 1 .. n - 1 /\ i \in 1 .. n /\ i + 1 \in 1 .. n
      BY ONLY <1>1, <2>2, i \in 1 .. n + Len(q) - 1
    <3>2. m[i] = e.dtqmb[Cell(n, e.head, i)] /\ l[i + 1] = c.dtqmb[Cell(n, c.head, i + 1)]
      BY ONLY <1>5, <1>6, <3>1
    <3>3. e.dtqmb[Cell(n, e.head, i)] = c.dtqmb[Cell(n, c.head, i + 1)]
      BY ONLY <1>2, <1>3, <3>1
    <3> QED BY ONLY <2>1, <3>2, <3>3
  <2>3. CASE i = n
    <3>1. n \in 1 .. n /\ 1 \in 1 .. Len(q)
      BY ONLY <1>0, <1>1
    <3>2. m[n] = v /\ l[n + 1] = a[q[1]]
      BY ONLY <1>3, <1>5, <1>6, <3>1
    <3> QED BY ONLY <1>0, <2>1, <2>3, <3>2
  <2>4. CASE i > n
    <3> DEFINE j == i - n
    <3>1. /\ j \in 1 .. Len(p) /\ j + 1 \in 2 .. Len(q) /\ j + 1 \in 1 .. Len(q)
          /\ j \in 1 .. Len(q) - 1 /\ n + j = i /\ n + (j + 1) = i + 1
      BY ONLY <1>1, <1>4, <2>4, i \in 1 .. n + Len(q) - 1
    <3> HIDE DEF j
    <3>2. m[n + j] = b[q[j + 1]] /\ l[n + (j + 1)] = a[q[j + 1]]
      BY ONLY <1>4, <1>5, <1>6, <3>1, SMTT(60)
    <3>3. b[q[j + 1]] = a[q[j + 1]]
      BY <3>1
    <3> QED BY ONLY <2>1, <3>1, <3>2, <3>3
  <2>5. i < n \/ i = n \/ i > n
    BY ONLY <1>1, i \in 1 .. n + Len(q) - 1
  <2> QED BY ONLY <2>2, <2>3, <2>4, <2>5
<1>10. Len(m) = n + Len(q) - 1 /\ \A i \in 1 .. Len(m) : m[i] = Tail(l)[i]
  BY ONLY <1>1, <1>4, <1>6, <1>9
<1>11. m = Tail(l)
  BY <1>6, <1>8, <1>10, SeqEqual
<1> QED BY <1>7, <1>11 DEF n, v, o, e, l, m, p

(* With an empty ring the first sender's own datum is taken.               *)
LEMMA LinePassed ==
  ASSUME NEW n \in Nat, NEW c \in Ring(n), c.count = 0, NEW q \in Seq(Task), q # <<>>,
         NEW a \in [Task -> Datum], NEW b \in [Task -> Datum],
         \A i \in 2 .. Len(q) : b[q[i]] = a[q[i]]
  PROVE  LineOf(c, n, q, a) # <<>> /\ LineOf(c, n, Tail(q), b) = Tail(LineOf(c, n, q, a))
<1> DEFINE l == LineOf(c, n, q, a)
           m == LineOf(c, n, Tail(q), b)
           p == Tail(q)
<1>1. Len(q) \in Nat /\ Len(q) > 0 /\ \A i \in Nat : 0 + i = i
  OBVIOUS
<1>2. /\ p \in Seq(Task) /\ Len(p) = Len(q) - 1 /\ \A i \in 1 .. Len(q) - 1 : p[i] = q[i + 1]
  BY <1>1
<1> HIDE DEF l, m, p
<1>3. /\ l \in Seq(Datum) /\ Len(l) = 0 + Len(q)
      /\ \A i \in 1 .. Len(q) : l[0 + i] = a[q[i]]
  <2>1. n \in Nat /\ c \in Ring(n) /\ c.count = 0 /\ q \in Seq(Task) /\ a \in [Task -> Datum]
    OBVIOUS
  <2>2. Shaped(l, c, n, q, a)
    BY ONLY <2>1, LineShape, Zenon DEF l
  <2> QED BY ONLY <2>1, <2>2, Zenon DEF Shaped
<1>4. /\ m \in Seq(Datum) /\ Len(m) = 0 + Len(p)
      /\ \A i \in 1 .. Len(p) : m[0 + i] = b[p[i]]
  <2>1. n \in Nat /\ c \in Ring(n) /\ c.count = 0 /\ p \in Seq(Task) /\ b \in [Task -> Datum]
    BY <1>2
  <2>2. Shaped(m, c, n, p, b)
    BY ONLY <2>1, LineShape, Zenon DEF m, p
  <2> QED BY ONLY <2>1, <2>2, Zenon DEF Shaped
<1>5. Len(l) = Len(q) /\ \A i \in 1 .. Len(q) : l[i] = a[q[i]]
  BY ONLY <1>1, <1>3
<1>6. Len(m) = Len(q) - 1 /\ \A i \in 1 .. Len(q) - 1 : m[i] = b[q[i + 1]]
  BY ONLY <1>1, <1>2, <1>4
<1>7. l # <<>>
  BY ONLY <1>1, <1>3, <1>5
<1>8. /\ Tail(l) \in Seq(Datum) /\ Len(Tail(l)) = Len(q) - 1
      /\ \A i \in 1 .. Len(q) - 1 : Tail(l)[i] = l[i + 1]
  BY ONLY <1>1, <1>3, <1>5, <1>7
<1>9. ASSUME NEW i \in 1 .. Len(m) PROVE m[i] = Tail(l)[i]
  <2>1. i \in 1 .. Len(q) - 1 /\ i + 1 \in 2 .. Len(q) /\ i + 1 \in 1 .. Len(q)
    BY <1>1, <1>6
  <2> QED BY <1>5, <1>6, <1>8, <2>1
<1>10. m = Tail(l)
  BY <1>4, <1>6, <1>8, <1>9, SeqEqual
<1> QED BY <1>7, <1>10 DEF l, m, p

(* A sender joins the line, leaves it or moves in it.                      *)
LEMMA LineJoined ==
  ASSUME NEW n \in Nat, NEW c \in Ring(n), NEW q \in Seq(Task), NEW a \in [Task -> Datum],
         NEW b \in [Task -> Datum], NEW t \in Task, NEW k \in 1 .. Len(q) + 1,
         \A i \in 1 .. Len(q) : b[q[i]] = a[q[i]]
  PROVE  LineOf(c, n, InsertBefore(q, k, t), b)
           = Channel!InsertAt(LineOf(c, n, q, a), c.count + k, b[t])
<1> DEFINE l == LineOf(c, n, q, a)
           p == InsertBefore(q, k, t)
           m == LineOf(c, n, p, b)
           h == c.count
           r == Channel!InsertAt(l, h + k, b[t])
<1>1. Len(q) \in Nat /\ h \in Nat /\ b[t] \in Datum
  BY DEF Ring
<1>2. /\ p \in Seq(Task) /\ Len(p) = Len(q) + 1
      /\ \A i \in 1 .. Len(q) + 1 :
           p[i] = IF i < k THEN q[i] ELSE IF i = k THEN t ELSE q[i - 1]
  <2>1. p \in Seq(Task)
    BY InsertBeforeProperties
  <2>2. p = [i \in 1 .. Len(q) + 1 |->
               IF i < k THEN q[i] ELSE IF i = k THEN t ELSE q[i - 1]]
    BY DEF InsertBefore
  <2> HIDE DEF p
  <2>3. DOMAIN p = 1 .. Len(q) + 1
    BY <2>2
  <2>4. Len(p) = Len(q) + 1
    BY <1>1, <2>1, <2>3
  <2> QED BY <2>1, <2>2, <2>4
<1> HIDE DEF l, p, m, h, r
<1>3. /\ l \in Seq(Datum) /\ Len(l) = h + Len(q)
      /\ \A i \in 1 .. h : l[i] = c.dtqmb[Cell(n, c.head, i)]
      /\ \A i \in 1 .. Len(q) : l[h + i] = a[q[i]]
  <2>1. Shaped(l, c, n, q, a)
    BY LineShape, Zenon DEF l
  <2> QED BY ONLY <2>1, Zenon DEF Shaped, h
<1>4. /\ m \in Seq(Datum) /\ Len(m) = h + Len(p)
      /\ \A i \in 1 .. h : m[i] = c.dtqmb[Cell(n, c.head, i)]
      /\ \A i \in 1 .. Len(p) : m[h + i] = b[p[i]]
  <2>1. Shaped(m, c, n, p, b)
    BY <1>2, LineShape, Zenon DEF m
  <2> QED BY ONLY <2>1, Zenon DEF Shaped, h
<1>5. l \in Seq(Datum) /\ h + k \in 1 .. Len(l) + 1 /\ b[t] \in Datum
  BY ONLY <1>1, <1>3, k \in 1 .. Len(q) + 1
<1>6. /\ r \in Seq(Datum) /\ Len(r) = Len(l) + 1
      /\ \A i \in 1 .. Len(l) + 1 :
           r[i] = IF i < h + k THEN l[i] ELSE IF i = h + k THEN b[t] ELSE l[i - 1]
  <2> DEFINE x == h + k
             v == b[t]
  <2>1. l \in Seq(Datum) /\ x \in 1 .. Len(l) + 1 /\ v \in Datum /\ r = Channel!InsertAt(l, x, v)
    BY ONLY <1>5 DEF r
  <2> HIDE DEF x, v
  <2>2. JoinedAt(r, l, x, v)
    BY ONLY <2>1, InsertedDatum, Zenon
  <2> QED BY ONLY <2>2, Zenon DEF JoinedAt, x, v
<1>7. ASSUME NEW i \in 1 .. h + Len(q) + 1 PROVE m[i] = r[i]
  <2>1. i \in 1 .. Len(l) + 1
    BY ONLY <1>1, <1>3, i \in 1 .. h + Len(q) + 1
  <2>2. CASE i <= h
    <3>1. i \in 1 .. h /\ i < h + k
      BY ONLY <1>1, <2>2, k \in 1 .. Len(q) + 1, i \in 1 .. h + Len(q) + 1
    <3> QED BY ONLY <1>3, <1>4, <1>6, <2>1, <3>1
  <2>3. CASE i > h
    <3> DEFINE j == i - h
    <3>1. /\ j \in 1 .. Len(p) /\ j \in 1 .. Len(q) + 1 /\ h + j = i
      BY ONLY <1>1, <1>2, <2>3, i \in 1 .. h + Len(q) + 1
    <3>2. /\ i < h + k => j < k /\ j \in 1 .. Len(q)
          /\ i = h + k <=> j = k
          /\ i > h + k => j > k /\ j - 1 \in 1 .. Len(q) /\ h + (j - 1) = i - 1
      BY ONLY <1>1, <2>3, k \in 1 .. Len(q) + 1, i \in 1 .. h + Len(q) + 1
    <3> HIDE DEF j
    <3>3. m[i] = b[p[j]]
      BY ONLY <1>4, <3>1
    <3>4. CASE i < h + k
      <4>1. p[j] = q[j] /\ r[i] = l[h + j] /\ l[h + j] = a[q[j]]
        BY ONLY <1>2, <1>3, <1>6, <2>1, <3>1, <3>2, <3>4
      <4>2. b[q[j]] = a[q[j]]
        BY <3>2, <3>4
      <4> QED BY ONLY <3>3, <4>1, <4>2
    <3>5. CASE i = h + k
      <4>1. p[j] = t /\ r[i] = b[t]
        BY ONLY <1>1, <1>2, <1>6, <2>1, <3>1, <3>2, <3>5, k \in 1 .. Len(q) + 1
      <4> QED BY ONLY <3>3, <4>1
    <3>6. CASE i > h + k
      <4>1. /\ ~ (j < k) /\ j # k /\ ~ (i < h + k) /\ i # h + k
            /\ j - 1 \in 1 .. Len(q) /\ h + (j - 1) = i - 1
        BY ONLY <1>1, <3>1, <3>2, <3>6, k \in 1 .. Len(q) + 1, i \in 1 .. h + Len(q) + 1
      <4>2. p[j] = q[j - 1] /\ r[i] = l[h + (j - 1)] /\ l[h + (j - 1)] = a[q[j - 1]]
        BY ONLY <1>2, <1>3, <1>6, <2>1, <3>1, <4>1
      <4>3. b[q[j - 1]] = a[q[j - 1]]
        BY <4>1
      <4> QED BY ONLY <3>3, <4>2, <4>3
    <3> QED BY <1>1, <3>4, <3>5, <3>6, SMTT(60)
  <2> QED BY <1>1, <2>2, <2>3
<1>8. Len(m) = h + Len(q) + 1 /\ Len(r) = h + Len(q) + 1 /\ \A i \in 1 .. Len(m) : m[i] = r[i]
  BY ONLY <1>1, <1>2, <1>3, <1>4, <1>6, <1>7
<1>9. m = r
  BY <1>4, <1>6, <1>8, SeqEqual
<1> QED BY <1>9 DEF l, p, m, h, r

(* A sender that leaves takes its datum out of the line.                   *)
LEMMA LineLeft ==
  ASSUME NEW n \in Nat, NEW c \in Ring(n), NEW q \in Seq(Task), NEW a \in [Task -> Datum],
         NEW t \in Task, Member(q, t)
  PROVE  \E k \in 1 .. Len(q) :
           /\ LineOf(c, n, q, a)[c.count + k] = a[t]
           /\ LineOf(c, n, Delete(q, t), a) = Channel!RemoveAt(LineOf(c, n, q, a), c.count + k)
<1> DEFINE l == LineOf(c, n, q, a)
           p == Delete(q, t)
           k == CHOOSE i \in 1 .. Len(q) : q[i] = t
           m == LineOf(c, n, p, a)
           h == c.count
           r == Channel!RemoveAt(l, h + k)
<1>1. Len(q) \in Nat /\ h \in Nat
  BY DEF Ring
<1>2. k \in 1 .. Len(q) /\ q[k] = t
  BY DEF Member
<1>3. /\ p \in Seq(Task) /\ Len(p) = Len(q) - 1
      /\ \A i \in 1 .. Len(q) - 1 : p[i] = IF i < k THEN q[i] ELSE q[i + 1]
  <2>1. p \in Seq(Task)
    BY DeleteType
  <2>2. p = [i \in 1 .. Len(q) - 1 |-> IF i < k THEN q[i] ELSE q[i + 1]]
    BY DEF Delete
  <2> HIDE DEF p, k
  <2>3. DOMAIN p = 1 .. Len(q) - 1
    BY <2>2
  <2>4. Len(p) = Len(q) - 1
    BY <1>1, <1>2, <2>1, <2>3
  <2> QED BY <2>1, <2>2, <2>4
<1> HIDE DEF l, p, k, m, h, r
<1>4. /\ l \in Seq(Datum) /\ Len(l) = h + Len(q)
      /\ \A i \in 1 .. h : l[i] = c.dtqmb[Cell(n, c.head, i)]
      /\ \A i \in 1 .. Len(q) : l[h + i] = a[q[i]]
  <2>1. Shaped(l, c, n, q, a)
    BY LineShape, Zenon DEF l
  <2> QED BY ONLY <2>1, Zenon DEF Shaped, h
<1>5. /\ m \in Seq(Datum) /\ Len(m) = h + Len(p)
      /\ \A i \in 1 .. h : m[i] = c.dtqmb[Cell(n, c.head, i)]
      /\ \A i \in 1 .. Len(p) : m[h + i] = a[p[i]]
  <2>1. Shaped(m, c, n, p, a)
    BY <1>3, LineShape, Zenon DEF m
  <2> QED BY ONLY <2>1, Zenon DEF Shaped, h
<1>6. l \in Seq(Datum) /\ h + k \in 1 .. Len(l)
  BY ONLY <1>1, <1>2, <1>4
<1>7. /\ r \in Seq(Datum) /\ Len(r) = Len(l) - 1
      /\ \A i \in 1 .. Len(l) - 1 : r[i] = IF i < h + k THEN l[i] ELSE l[i + 1]
  BY ONLY <1>6, RemovedAt DEF r
<1>8. ASSUME NEW i \in 1 .. h + Len(q) - 1 PROVE m[i] = r[i]
  <2>1. i \in 1 .. Len(l) - 1
    BY ONLY <1>1, <1>4, i \in 1 .. h + Len(q) - 1
  <2>2. CASE i <= h
    <3>1. i \in 1 .. h /\ i < h + k
      BY ONLY <1>1, <1>2, <2>2, i \in 1 .. h + Len(q) - 1
    <3> QED BY ONLY <1>4, <1>5, <1>7, <2>1, <3>1
  <2>3. CASE i > h
    <3> DEFINE j == i - h
    <3>1. /\ j \in 1 .. Len(p) /\ j \in 1 .. Len(q) - 1 /\ h + j = i /\ h + (j + 1) = i + 1
          /\ j \in 1 .. Len(q) /\ j + 1 \in 1 .. Len(q) /\ (i < h + k <=> j < k)
      BY ONLY <1>1, <1>2, <1>3, <2>3, i \in 1 .. h + Len(q) - 1, SMTT(60)
    <3> HIDE DEF j
    <3>2. m[i] = a[p[j]] /\ l[i] = a[q[j]] /\ l[i + 1] = a[q[j + 1]]
      BY ONLY <1>4, <1>5, <3>1
    <3> QED BY ONLY <1>3, <1>7, <2>1, <3>1, <3>2
  <2> QED BY <1>1, <2>2, <2>3
<1>9. Len(m) = h + Len(q) - 1 /\ Len(r) = h + Len(q) - 1 /\ \A i \in 1 .. Len(m) : m[i] = r[i]
  BY ONLY <1>1, <1>3, <1>4, <1>5, <1>7, <1>8
<1>10. m = r
  BY <1>5, <1>7, <1>9, SeqEqual
<1>11. l[h + k] = a[t]
  BY <1>2, <1>4
<1> QED BY <1>2, <1>10, <1>11 DEF l, p, m, h, r

(* A sender that changes its place takes its datum along.                  *)
LEMMA LineMoved ==
  ASSUME NEW n \in Nat, NEW c \in Ring(n), NEW q \in Seq(Task), NEW a \in [Task -> Datum],
         NEW t \in Task, Member(q, t), NoDuplicate(q), NEW k \in 1 .. Len(q)
  PROVE  LET l == LineOf(c, n, q, a)
         IN  \E i \in 1 .. Len(q) :
               LineOf(c, n, InsertBefore(Delete(q, t), k, t), a)
                 = Channel!InsertAt(Channel!RemoveAt(l, c.count + i), c.count + k, l[c.count + i])
<1> DEFINE l == LineOf(c, n, q, a)
           p == Delete(q, t)
<1>1. PICK i \in 1 .. Len(q) :
        l[c.count + i] = a[t] /\ LineOf(c, n, p, a) = Channel!RemoveAt(l, c.count + i)
  BY LineLeft
<1>2. p \in Seq(Task) /\ Len(p) = Len(q) - 1
  BY DeleteProperties
<1>3. k \in 1 .. Len(p) + 1
  BY <1>2
<1> HIDE DEF p, l
<1>4. LineOf(c, n, InsertBefore(p, k, t), a)
        = Channel!InsertAt(LineOf(c, n, p, a), c.count + k, a[t])
  BY <1>2, <1>3, LineJoined
<1> QED BY <1>1, <1>4 DEF p, l

(* Taking its first task from a queue leaves the rest.                     *)
LEMMA WithoutHead ==
  ASSUME NEW T, NEW q \in Seq(T), NoDuplicate(q), q # <<>>
  PROVE  Without(q, {Head(q)}) = Tail(q)
<1> DEFINE N == Len(q)
           S == {Head(q)}
<1>1. N \in Nat /\ N > 0 /\ Head(q) = q[1]
  OBVIOUS
<1>2. PICK rest : /\ Without(q, S) = rest[N]
                  /\ rest[0] = <<>>
                  /\ \A n \in 0 .. N - 1 :
                       rest[n + 1] = IF q[n + 1] \in S THEN rest[n] ELSE Append(rest[n], q[n + 1])
  BY WithoutUnfolds
<1>3. /\ rest[1] = <<>>
      /\ \A n \in 1 .. N - 1 : rest[n + 1] = Append(rest[n], q[n + 1])
  <2>1. rest[1] = <<>>
    <3>1. 0 \in 0 .. N - 1 /\ 0 + 1 = 1 /\ q[1] \in S
      BY <1>1
    <3>2. rest[0 + 1] = IF q[0 + 1] \in S THEN rest[0] ELSE Append(rest[0], q[0 + 1])
      BY <1>2, <3>1
    <3> QED BY ONLY <1>2, <3>1, <3>2
  <2>2. \A n \in 1 .. N - 1 : q[n + 1] \notin S /\ n \in 0 .. N - 1
    BY <1>1 DEF NoDuplicate
  <2> QED BY ONLY <1>2, <2>1, <2>2
<1>4. /\ Tail(q) \in Seq(T) /\ Len(Tail(q)) = N - 1
      /\ \A i \in 1 .. N - 1 : Tail(q)[i] = q[i + 1]
  BY <1>1
<1> DEFINE Good == {m \in 0 .. N - 1 :
                      /\ rest[m + 1] \in Seq(T) /\ Len(rest[m + 1]) = m
                      /\ \A i \in 1 .. m : rest[m + 1][i] = q[i + 1]}
<1> HIDE DEF N, S
<1>5. 0 \in Good
  <2>1. 0 \in 0 .. N - 1 /\ rest[0 + 1] = <<>>
    BY <1>1, <1>3
  <2>2. <<>> \in Seq(T) /\ Len(<<>>) = 0 /\ 1 .. 0 = {}
    OBVIOUS
  <2> QED BY <2>1, <2>2
<1>6. ASSUME NEW m \in 0 .. (N - 1) - 1, m \in Good PROVE m + 1 \in Good
  <2> DEFINE r == rest[m + 1]
             e == q[m + 2]
  <2>1. m \in Nat /\ m + 1 \in 0 .. N - 1 /\ m + 1 \in 1 .. N - 1 /\ m + 2 \in 1 .. Len(q)
    BY <1>1 DEF N
  <2>2. e \in T /\ r \in Seq(T) /\ Len(r) = m /\ \A i \in 1 .. m : r[i] = q[i + 1]
    BY <1>6, <2>1
  <2>3. rest[(m + 1) + 1] = Append(r, e)
    BY <1>3, <2>1
  <2> HIDE DEF r, e
  <2>4. /\ Append(r, e) \in Seq(T) /\ Len(Append(r, e)) = m + 1
        /\ \A i \in 1 .. m : Append(r, e)[i] = r[i]
        /\ Append(r, e)[m + 1] = e
    BY <2>1, <2>2
  <2>5. \A i \in 1 .. m + 1 : Append(r, e)[i] = q[i + 1]
    BY <2>1, <2>2, <2>4 DEF e
  <2> QED BY <2>1, <2>3, <2>4, <2>5
<1>7. N - 1 \in Good
  <2>1. N - 1 \in Nat
    BY <1>1
  <2> HIDE DEF Good
  <2>2. 0 .. N - 1 \subseteq Good
    BY <1>5, <1>6, <2>1, SetInduction
  <2> QED BY <2>1, <2>2
<1>8. rest[N] \in Seq(T) /\ Len(rest[N]) = N - 1 /\ \A i \in 1 .. N - 1 : rest[N][i] = q[i + 1]
  <2>1. (N - 1) + 1 = N
    BY <1>1
  <2> QED BY <1>7, <2>1
<1>9. rest[N] = Tail(q)
  <2>1. \A i \in 1 .. Len(rest[N]) : rest[N][i] = Tail(q)[i]
    BY ONLY <1>4, <1>8
  <2> QED BY <1>4, <1>8, <2>1, SeqEqual
<1> QED BY <1>2, <1>9 DEF S

(* A task is put into a queue somewhere.                                   *)
LEMMA InsertedSomewhere ==
  ASSUME NEW q \in Seq(Task), NEW t \in Task, NEW pr \in [Task -> Nat]
  PROVE  /\ \E k \in 1 .. Len(q) + 1 : InsertTpri(q, pr, t) = InsertBefore(q, k, t)
         /\ Append(q, t) = InsertBefore(q, Len(q) + 1, t)
<1>1. \E k \in 1 .. Len(q) + 1 : InsertTpri(q, pr, t) = InsertBefore(q, k, t)
  <2> DEFINE n == CHOOSE k \in 1 .. Len(q) + 1 : IsInsertPoint(q, pr, t, k)
  <2>1. n \in 1 .. Len(q) + 1
    BY InsertPointExists
  <2> HIDE DEF n
  <2> QED BY <2>1 DEF InsertTpri, n
<1>2. Append(q, t) = InsertBefore(q, Len(q) + 1, t)
  <2> DEFINE a == Append(q, t)
             b == InsertBefore(q, Len(q) + 1, t)
  <2>1. Len(q) \in Nat /\ Len(q) + 1 \in 1 .. Len(q) + 1
    OBVIOUS
  <2>2. /\ a \in Seq(Task) /\ Len(a) = Len(q) + 1
        /\ \A i \in 1 .. Len(q) + 1 : a[i] = IF i <= Len(q) THEN q[i] ELSE t
    BY <2>1
  <2>3. b \in Seq(Task)
    BY <2>1, InsertBeforeProperties
  <2>4. /\ DOMAIN b = 1 .. Len(q) + 1
        /\ \A i \in 1 .. Len(q) + 1 : b[i] = IF i <= Len(q) THEN q[i] ELSE t
    BY <2>1 DEF InsertBefore
  <2> HIDE DEF a, b
  <2>5. Len(b) = Len(q) + 1
    BY <2>1, <2>3, <2>4
  <2>6. \A i \in 1 .. Len(a) : a[i] = b[i]
    BY <2>2, <2>4
  <2>7. a = b
    BY <2>2, <2>3, <2>5, <2>6, SeqEqual
  <2> QED BY <2>7 DEF a, b
<1> QED BY <1>1, <1>2

(* What the kernel's own calls may do to a queue: one task leaves it, or   *)
(* takes another place.                                                    *)
Same(w)   == wait_queue'[w] = wait_queue[w]
Leaves(w) == \E t \in Waiters(w) : wait_queue'[w] = Delete(wait_queue[w], t)
Places(w) ==
  \E t \in Waiters(w) : \E k \in 1 .. Len(wait_queue[w]) :
    wait_queue'[w] = InsertBefore(Delete(wait_queue[w], t), k, t)

AllSame     == \A w \in Wobj \ Mutex : Same(w)
Only(w)     == \A v \in (Wobj \ Mutex) \ {w} : Same(v)
KernelMove  ==
  \/ AllSame
  \/ \E w \in Wobj \ Mutex : Only(w) /\ (Leaves(w) \/ (w \in TpriWobj /\ Places(w)))

(* A task that is taken out of the queue it may be in.                     *)
LEMMA QueueLeft ==
  ASSUME IInv, NEW t \in Task, \A w \in Wobj \ Mutex : wait_queue'[w] = QueuesWithout(t)[w]
  PROVE  KernelMove
<1> DEFINE v == waiton[t]
<1>1. wait_queue \in [Wobj -> Seq(Task)]
  BY DEF IInv, TypeOK
<1>2. CASE v \in Wobj
  <2>1. QueuesWithout(t) = [wait_queue EXCEPT ![v] = Delete(@, t)]
    BY <1>2 DEF QueuesWithout
  <2> HIDE DEF v
  <2>2. /\ \A w \in Wobj \ {v} : QueuesWithout(t)[w] = wait_queue[w]
        /\ QueuesWithout(t)[v] = Delete(wait_queue[v], t)
    BY <1>1, <1>2, <2>1
  <2>3. CASE v \in Mutex
    BY <2>2, <2>3 DEF KernelMove, AllSame, Same
  <2>4. CASE v \notin Mutex
    <3>1. Only(v)
      BY <2>2 DEF Only, Same
    <3>2. Leaves(v)
      BY <1>2, <2>2, <2>4 DEF Leaves, Waiters, v
    <3> QED BY <1>2, <2>4, <3>1, <3>2 DEF KernelMove
  <2> QED BY <2>3, <2>4
<1>3. CASE v \notin Wobj
  <2>1. QueuesWithout(t) = wait_queue
    BY <1>3 DEF QueuesWithout
  <2> QED BY <2>1 DEF KernelMove, AllSame, Same
<1> QED BY <1>2, <1>3

(* The mutexes of a task that ends go to tasks in their queues only.       *)
LEMMA TerminationMoves ==
  ASSUME IInv, NEW t \in Task, NEW r, task_terminate(t, r)
  PROVE  KernelMove
<1>1. wait_queue' = [w \in Wobj |-> IF w \in Contended(lastmtx[t]) THEN Tail(QueuesWithout(t)[w])
                                                                 ELSE QueuesWithout(t)[w]]
  BY DEF task_terminate, mutexRelease
<1>2. Contended(lastmtx[t]) \subseteq Mutex
  BY DEF Contended
<1>3. \A w \in Wobj \ Mutex : wait_queue'[w] = QueuesWithout(t)[w]
  BY <1>1, <1>2
<1> QED BY <1>3, QueueLeft

(* A task that changes its place with its priority.                        *)
LEMMA PriorityQueues ==
  ASSUME IInv, IInv', NEW t \in Task, NEW p, NEW mode, change_priority(t, p, mode)
  PROVE  KernelMove
<1> DEFINE w == waiton[t]
           q == wait_queue[w]
<1>1. /\ wait_queue \in [Wobj -> Seq(Task)] /\ prio' \in [Task -> Nat] /\ TpriWobj \subseteq Wobj
  <2>1. wait_queue \in [Wobj -> Seq(Task)] /\ (prio \in [Task -> TaskPrio])'
    BY DEF IInv, TypeOK
  <2>2. prio' \in [Task -> TaskPrio] /\ TaskPrio \subseteq Nat
    BY <2>1, PrioAssumption DEF TaskPrio
  <2> QED BY <2>1, <2>2, ConfigAssumption
<1>2. CASE w \notin TpriWobj
  BY <1>2 DEF change_priority, KernelMove, AllSame, Same
<1>3. CASE w \in TpriWobj
  <2>1. wait_queue' = [wait_queue EXCEPT ![w] = InsertTpri(Delete(@, t), prio', t)]
    BY <1>3 DEF change_priority
  <2>2. w \in Wobj /\ q \in Seq(Task) /\ Member(q, t) /\ NoDuplicate(q)
    BY <1>1, <1>3 DEF IInv, WaitsOwned
  <2> HIDE DEF w, q
  <2>3. /\ wait_queue'[w] = InsertTpri(Delete(q, t), prio', t)
        /\ \A v \in Wobj \ {w} : wait_queue'[v] = wait_queue[v]
    BY <1>1, <2>1, <2>2 DEF q
  <2>4. CASE w \in Mutex
    BY <2>3, <2>4 DEF KernelMove, AllSame, Same
  <2>5. CASE w \notin Mutex
    <3>1. Only(w)
      BY <2>3 DEF Only, Same
    <3>2. Delete(q, t) \in Seq(Task) /\ Len(Delete(q, t)) + 1 = Len(q)
      <4>1. Delete(q, t) \in Seq(Task) /\ Len(Delete(q, t)) = Len(q) - 1
        BY <2>2, DeleteProperties
      <4> QED BY <2>2, <4>1
    <3>3. PICK k \in 1 .. Len(q) : InsertTpri(Delete(q, t), prio', t) = InsertBefore(Delete(q, t), k, t)
      BY <1>1, <3>2, InsertedSomewhere
    <3>4. t \in Waiters(w)
      BY DEF Waiters, w
    <3>5. Places(w)
      BY <2>3, <3>3, <3>4 DEF Places, q
    <3> QED BY <1>3, <2>2, <2>5, <3>1, <3>5 DEF KernelMove
  <2> QED BY <2>4, <2>5
<1> QED BY <1>2, <1>3

(* No call of the kernel itself does more than that to the queues.         *)
LEMMA KernelMoves ==
  ASSUME IInv, IInv', KernelCall \/ UNCHANGED vars
  PROVE  KernelMove
<1> USE DEF waitVars
<1>1. ASSUME UNCHANGED wait_queue PROVE KernelMove
  BY <1>1 DEF KernelMove, AllSame, Same
<1>2. ASSUME NEW t \in Task, wait_dequeue_wobj(t) PROVE KernelMove
  BY <1>2, QueueLeft DEF wait_dequeue_wobj
<1>3. CASE UNCHANGED vars \/ Boot \/ enter_int \/ leave_int
  BY <1>1, <1>3 DEF vars, Boot, initialize_task, startDispatch, enter_int, leave_int
<1>4. ASSUME NEW t \in Task, wait_tmout(t) PROVE KernelMove
  BY <1>2, <1>4 DEF wait_tmout
<1>5. CASE ManageCall
  <2>1. ASSUME NEW t \in Task, NEW p \in TaskPrio, chg_pri(t, p) PROVE KernelMove
    <3>1. UNCHANGED wait_queue \/ change_priority(t, p, FALSE)
      BY <2>1 DEF chg_pri
    <3> QED BY <1>1, <3>1, PriorityQueues
  <2>2. ASSUME NEW t \in Task, act_tsk(t) \/ can_act(t) PROVE UNCHANGED wait_queue
    BY <2>2 DEF act_tsk, can_act
  <2>3. ASSUME NEW p \in TaskPrio, rot_rdq(p) PROVE UNCHANGED wait_queue
    BY <2>3 DEF rot_rdq
  <2> QED BY <1>1, <1>5, <2>1, <2>2, <2>3 DEF ManageCall
<1>6. CASE SyncCall
  <2>1. (\E timed \in BOOLEAN : slp_tsk(timed)) \/ dly_tsk => UNCHANGED wait_queue
    BY DEF slp_tsk, dly_tsk
  <2>2. ASSUME NEW t \in Task, wup_tsk(t) \/ can_wup(t) \/ sus_tsk(t) \/ rsm_tsk(t)
        PROVE  UNCHANGED wait_queue
    BY <2>2 DEF wup_tsk, can_wup, sus_tsk, rsm_tsk
  <2>3. ASSUME NEW t \in Task, rel_wai(t) PROVE KernelMove
    BY <1>2, <2>3 DEF rel_wai
  <2> QED BY <1>1, <1>6, <2>1, <2>2, <2>3 DEF SyncCall
<1>7. ASSUME TaskContext, \E r : task_terminate(runtsk, r) PROVE KernelMove
  <2>1. runtsk \in Task
    BY <1>7 DEF TaskContext, IInv, TypeOK
  <2> QED BY <1>7, <2>1, TerminationMoves
<1>8. CASE TermCall
  <2>1. CASE ext_tsk
    BY <1>7, <2>1 DEF ext_tsk
  <2>2. CASE dis_ter
    BY <1>1, <2>2 DEF dis_ter
  <2>3. CASE ena_ter
    BY <1>1, <1>7, <2>3 DEF ena_ter, checkContextTaskUnlock
  <2>4. ASSUME NEW t \in Task, ter_tsk(t) PROVE KernelMove
    BY <2>4, TerminationMoves DEF ter_tsk
  <2>5. ASSUME NEW t \in Task, ras_ter(t) PROVE KernelMove
    <3>1. (\E r : task_terminate(t, r)) \/ UNCHANGED wait_queue \/ wait_dequeue_wobj(t)
      BY <2>5 DEF ras_ter
    <3> QED BY <1>1, <1>2, <3>1, TerminationMoves
  <2> QED BY <1>8, <2>1, <2>2, <2>3, <2>4, <2>5 DEF TermCall
<1>9. CASE CpuCall
  <2>1. loc_cpu \/ unl_cpu \/ dis_dsp => UNCHANGED wait_queue
    BY DEF loc_cpu, unl_cpu, dis_dsp
  <2>2. ASSUME TaskContext, resume_dispatch PROVE KernelMove
    BY <1>1, <1>7, <2>2 DEF resume_dispatch
  <2>3. CASE ena_dsp
    BY <1>1, <2>2, <2>3 DEF ena_dsp, checkContextTaskUnlock
  <2>4. CASE \E all \in BOOLEAN : chg_ipm(all)
    BY <1>1, <2>2, <2>4 DEF chg_ipm, checkContextTaskUnlock
  <2> QED BY <1>1, <1>9, <2>1, <2>3, <2>4 DEF CpuCall
<1> QED BY <1>3, <1>4, <1>5, <1>6, <1>8, <1>9 DEF KernelCall, Interrupt

(* Where a data queue stands in its line and how many wait to receive.     *)
Readers(d) == Len(wait_queue[rwait[d]])

(* What the invariant says of a line and its receivers.                    *)
LEMMA LineFacts ==
  ASSUME IInv, DtqInv, NEW d \in Dataqueue
  PROVE  /\ Line(d) = LineOf(dtqcb[d], dtqcnt[d], wait_queue[d], data)
         /\ dtqcnt[d] \in Nat /\ dtqcb[d] \in Ring(dtqcnt[d]) /\ data \in [Task -> Datum]
         /\ dtqcb[d].count \in 0 .. dtqcnt[d]
         /\ wait_queue[d] \in Seq(Task) /\ NoDuplicate(wait_queue[d])
         /\ wait_queue[rwait[d]] \in Seq(Task)
         /\ Len(Line(d)) = dtqcb[d].count + Len(wait_queue[d])
         /\ wait_queue[d] # <<>> => dtqcb[d].count = dtqcnt[d]
         /\ Line(d) \in Seq(Datum)
         /\ Readers(d) \in Nat
<1>1. Line(d) = LineOf(dtqcb[d], dtqcnt[d], wait_queue[d], data)
  BY DEF Line, Contents, LineOf
<1>2. /\ dtqcnt[d] \in Nat /\ dtqcb[d] \in Ring(dtqcnt[d]) /\ data \in [Task -> Datum]
      /\ dtqcb[d].count \in 0 .. dtqcnt[d]
      /\ wait_queue[d] # <<>> => dtqcb[d].count = dtqcnt[d]
  BY TwoQueues DEF DtqInv, Ring, Datum, NobodyWaitsInVain
<1>3. /\ wait_queue[d] \in Seq(Task) /\ NoDuplicate(wait_queue[d])
      /\ wait_queue[rwait[d]] \in Seq(Task)
  BY TwoQueues DEF IInv, TypeOK, WaitsOwned
<1>4. Line(d) \in Seq(Datum) /\ Len(Line(d)) = dtqcb[d].count + Len(wait_queue[d])
  <2>1. Shaped(Line(d), dtqcb[d], dtqcnt[d], wait_queue[d], data)
    BY <1>1, <1>2, <1>3, LineShape, Zenon
  <2> QED BY ONLY <2>1, Zenon DEF Shaped
<1>5. Readers(d) \in Nat
  BY <1>3 DEF Readers
<1> QED BY <1>1, <1>2, <1>3, <1>4, <1>5

(* The line after a step.                                                  *)
LEMMA NextLine ==
  ASSUME NEW d \in Dataqueue
  PROVE  Line(d)' = LineOf(dtqcb'[d], dtqcnt[d], wait_queue'[d], data')
BY DEF Line, Contents, LineOf

(* A line is empty when neither the ring nor a sender has a datum.         *)
LEMMA EmptyLine ==
  ASSUME IInv, DtqInv, NEW d \in Dataqueue
  PROVE  /\ Line(d) = <<>> <=> dtqcb[d].count = 0 /\ wait_queue[d] = <<>>
         /\ Readers(d) = 0 <=> wait_queue[rwait[d]] = <<>>
<1>1. /\ Line(d) \in Seq(Datum) /\ Len(Line(d)) = dtqcb[d].count + Len(wait_queue[d])
      /\ dtqcb[d].count \in Nat /\ wait_queue[d] \in Seq(Task)
      /\ wait_queue[rwait[d]] \in Seq(Task)
  BY LineFacts
<1>2. Len(wait_queue[d]) \in Nat /\ (wait_queue[d] = <<>> <=> Len(wait_queue[d]) = 0)
  BY <1>1
<1>3. Line(d) = <<>> <=> Len(Line(d)) = 0
  BY <1>1
<1>4. Readers(d) = 0 <=> wait_queue[rwait[d]] = <<>>
  BY <1>1 DEF Readers
<1>5. Len(Line(d)) = 0 <=> dtqcb[d].count = 0 /\ Len(wait_queue[d]) = 0
  BY ONLY <1>1, <1>2
<1> QED BY <1>2, <1>3, <1>4, <1>5

(* No step changes the datum of a sender that waits.                       *)
SendersKeep == \A t \in Task : waiton[t] \in Dataqueue => data'[t] = data[t]

(* What the steps do to the queue of w.                                    *)
LEMMA QueueChanges ==
  ASSUME IInv, IInv', NEW w \in Wobj \ Mutex
  PROVE  /\ QueueServe(w) => wait_queue' = [wait_queue EXCEPT ![w] = Tail(@)]
         /\ QueueClear(w) => wait_queue' = [wait_queue EXCEPT ![w] = <<>>]
         /\ QueueWait(w) =>
              /\ runtsk \in Task /\ waiton[runtsk] = "NONE"
              /\ \E k \in 1 .. Len(wait_queue[w]) + 1 :
                   wait_queue' = [wait_queue EXCEPT ![w] = InsertBefore(@, k, runtsk)]
<1> DEFINE q == wait_queue[w]
<1>1. wait_queue \in [Wobj -> Seq(Task)] /\ q \in Seq(Task) /\ NoDuplicate(q)
  BY DEF IInv, TypeOK, WaitsOwned
<1>2. ASSUME QueueServe(w) PROVE wait_queue' = [wait_queue EXCEPT ![w] = Tail(@)]
  <2>1. q # <<>> /\ wait_queue' = [wait_queue EXCEPT ![w] = Without(q, {Head(q)})]
    BY <1>2 DEF QueueServe, wobj_release_first, wobj_release
  <2> HIDE DEF q
  <2>2. Without(q, {Head(q)}) = Tail(q)
    BY <1>1, <2>1, WithoutHead
  <2> QED BY <2>1, <2>2 DEF q
<1>3. ASSUME QueueClear(w) PROVE wait_queue' = [wait_queue EXCEPT ![w] = <<>>]
  <2>1. wait_queue'[w] = <<>>
    BY <1>3, ReleaseEmpties
  <2>2. PICK s : wait_queue' = [wait_queue EXCEPT ![w] = s]
    BY <1>3 DEF QueueClear, wobj_release
  <2>3. s = <<>>
    BY <1>1, <2>1, <2>2
  <2> QED BY <2>2, <2>3
<1>4. ASSUME QueueWait(w)
      PROVE  /\ runtsk \in Task /\ waiton[runtsk] = "NONE"
             /\ \E k \in 1 .. Len(q) + 1 :
                  wait_queue' = [wait_queue EXCEPT ![w] = InsertBefore(@, k, runtsk)]
  <2>1. PICK timed \in BOOLEAN : wobj_wait(w, timed)
    BY <1>4 DEF QueueWait
  <2>2. runtsk \in Task /\ waiton[runtsk] = "NONE"
    BY <2>1, CallerRuns DEF wobj_wait, checkDispatch
  <2>3. wait_queue' = [wait_queue EXCEPT ![w] = IF w \in TpriWobj THEN InsertTpri(@, prio, runtsk)
                                                                ELSE Append(@, runtsk)]
    BY <2>1 DEF wobj_wait, wobj_make_wait, wobj_queue_insert
  <2>4. prio \in [Task -> Nat]
    <3>1. prio \in [Task -> TaskPrio] /\ TaskPrio \subseteq Nat
      BY PrioAssumption DEF IInv, TypeOK, TaskPrio
    <3> QED BY <3>1
  <2>5. PICK k \in 1 .. Len(q) + 1 :
          (IF w \in TpriWobj THEN InsertTpri(q, prio, runtsk) ELSE Append(q, runtsk))
            = InsertBefore(q, k, runtsk)
    <3>1. Len(q) + 1 \in 1 .. Len(q) + 1
      BY <1>1
    <3> HIDE DEF q
    <3> QED BY <1>1, <2>2, <2>4, <3>1, InsertedSomewhere
  <2>6. wait_queue' = [wait_queue EXCEPT ![w] = InsertBefore(@, k, runtsk)]
    BY <2>3, <2>5
  <2> QED BY <2>2, <2>6
<1> QED BY <1>2, <1>3, <1>4

(* The steps of one data queue as steps of its line.                       *)
LEMMA SendersKept ==
  ASSUME IInv, IInv', DtqInv, DtqQuiet \/ \E d \in Dataqueue : DtqStep(d)
  PROVE  SendersKeep
<1>1. /\ data \in [Task -> Data \cup {NoData}] /\ "NONE" \notin Dataqueue
      /\ \A d \in Dataqueue : rwait[d] \notin Dataqueue
  BY DataqueueAssumption, ConfigAssumption DEF DtqInv
<1>2. ASSUME UNCHANGED data PROVE SendersKeep
  BY <1>2 DEF SendersKeep
<1>3. ASSUME NEW d \in Dataqueue, NEW v \in Data, HandsOver(d, v) PROVE SendersKeep
  <2>1. Receiver(d) \in Waiters(rwait[d])
    BY <1>3, TwoQueues, HeadWaits DEF HandsOver, QueueServe, Receiver
  <2> QED BY <1>1, <1>3, <2>1 DEF HandsOver, SendersKeep, Waiters
<1>4. ASSUME runtsk \in Task, waiton[runtsk] = "NONE", NEW v, data' = [data EXCEPT ![runtsk] = v]
      PROVE  SendersKeep
  BY <1>1, <1>4 DEF SendersKeep
<1>5. ASSUME NEW d \in Dataqueue, NEW v \in Data, SendWaits(d, v) PROVE SendersKeep
  <2>1. runtsk \in Task /\ waiton[runtsk] = "NONE"
    BY <1>5, TwoQueues, QueueChanges DEF SendWaits
  <2> QED BY <1>4, <1>5, <2>1 DEF SendWaits
<1>6. ASSUME NEW d \in Dataqueue, Takes(d) \/ Passes(d) PROVE SendersKeep
  BY <1>4, <1>6 DEF Takes, Passes
<1> QED BY <1>2, <1>3, <1>5, <1>6, Zenon DEF DtqQuiet, DtqStep, Stores, ReceiveWaits, Resets, dtqOwn

(* What a step leaves as it is: a whole data queue, or its receivers.      *)
LineKept(d)    == Line(d)' = Line(d)
ReadersKept(d) == Readers(d)' = Readers(d)
Others(d)      == \A o \in Dataqueue \ {d} : LineKept(o) /\ ReadersKept(o)

Lines     == [d \in Dataqueue |-> Line(d)]
ReadersOf == [d \in Dataqueue |-> Readers(d)]

(* The actions of the channels, on one line.                               *)
LEMMA ChannelActions ==
  ASSUME NEW d \in Dataqueue, Others(d)
  PROVE  /\ \A l : ReadersKept(d) /\ Line(d)' = l => Channel!LineBecomes(d, l)
         /\ LineKept(d) /\ Readers(d) > 0 /\ Readers(d)' = Readers(d) - 1
              => Channel!OneReaderLess(d)
         /\ LineKept(d) /\ Line(d) = <<>> /\ Readers(d)' = Readers(d) + 1 => Channel!Await(d)
         /\ Line(d)' = <<>> /\ Readers(d)' = 0 => Channel!Clear(d)
<1>1. /\ \A o \in Dataqueue \ {d} : Line(o)' = Line(o)
      /\ \A o \in Dataqueue \ {d} : Readers(o)' = Readers(o)
  BY DEF Others, LineKept, ReadersKept
<1>2. /\ Lines' = [o \in Dataqueue |-> Line(o)'] /\ Lines = [o \in Dataqueue |-> Line(o)]
      /\ ReadersOf' = [o \in Dataqueue |-> Readers(o)']
      /\ ReadersOf = [o \in Dataqueue |-> Readers(o)]
  BY DEF Lines, ReadersOf
<1>3. /\ \A l : Line(d)' = l => Lines' = [Lines EXCEPT ![d] = l]
      /\ \A n : Readers(d)' = n => ReadersOf' = [ReadersOf EXCEPT ![d] = n]
      /\ LineKept(d) => Lines' = Lines
      /\ ReadersKept(d) => ReadersOf' = ReadersOf
  BY <1>1, <1>2 DEF LineKept, ReadersKept
<1>4. Lines[d] = Line(d) /\ ReadersOf[d] = Readers(d)
  BY <1>2
<1>5. \A l : ReadersKept(d) /\ Line(d)' = l => Channel!LineBecomes(d, l)
  BY <1>3 DEF Channel!LineBecomes, Lines, ReadersOf, Readers
<1>6. LineKept(d) /\ Readers(d) > 0 /\ Readers(d)' = Readers(d) - 1 => Channel!OneReaderLess(d)
  <2>1. SUFFICES ASSUME LineKept(d), Readers(d) > 0, Readers(d)' = Readers(d) - 1
                 PROVE  ReadersOf[d] > 0 /\ ReadersOf' = [ReadersOf EXCEPT ![d] = @ - 1] /\ Lines' = Lines
    BY DEF Channel!OneReaderLess, Lines, ReadersOf, Readers
  <2> QED BY <1>3, <1>4, <2>1
<1>7. LineKept(d) /\ Line(d) = <<>> /\ Readers(d)' = Readers(d) + 1 => Channel!Await(d)
  <2>1. SUFFICES ASSUME LineKept(d), Line(d) = <<>>, Readers(d)' = Readers(d) + 1
                 PROVE  Lines[d] = <<>> /\ ReadersOf' = [ReadersOf EXCEPT ![d] = @ + 1] /\ Lines' = Lines
    BY DEF Channel!Await, Lines, ReadersOf, Readers
  <2> QED BY <1>3, <1>4, <2>1
<1>8. Line(d)' = <<>> /\ Readers(d)' = 0 => Channel!Clear(d)
  <2>1. SUFFICES ASSUME Line(d)' = <<>>, Readers(d)' = 0
                 PROVE  Lines' = [Lines EXCEPT ![d] = <<>>] /\ ReadersOf' = [ReadersOf EXCEPT ![d] = 0]
    BY SMTT(60) DEF Channel!Clear, Lines, ReadersOf, Readers
  <2> QED BY <1>3, <2>1
<1> QED BY <1>5, <1>6, <1>7, <1>8

(* A data queue whose own state a step leaves alone keeps its line.        *)
LEMMA LeftAlone ==
  ASSUME IInv, DtqInv, SendersKeep, NEW d \in Dataqueue, dtqcb'[d] = dtqcb[d]
  PROVE  Same(d) => LineKept(d)
<1> SUFFICES ASSUME Same(d) PROVE Line(d)' = Line(d)
  BY DEF LineKept
<1> DEFINE c == dtqcb[d]
           q == wait_queue[d]
<1>1. q \in Seq(Task) /\ \A t \in Task : Member(q, t) => data'[t] = data[t]
  <2>1. q \in Seq(Task) /\ \A t \in Task : Member(q, t) <=> waiton[t] = d
    BY TwoQueues DEF IInv, TypeOK, WaitsOwned
  <2> QED BY <2>1 DEF SendersKeep
<1>2. \A i \in 1 .. Len(q) : data'[q[i]] = data[q[i]]
  BY <1>1 DEF Member
<1>3. dtqcb'[d] = c /\ wait_queue'[d] = q
  BY DEF Same
<1>4. Line(d) = LineOf(c, dtqcnt[d], q, data) /\ Line(d)' = LineOf(c, dtqcnt[d], q, data')
  BY <1>3, LineFacts, NextLine
<1> HIDE DEF c, q
<1>5. [i \in 1 .. Len(q) |-> data'[q[i]]] = [i \in 1 .. Len(q) |-> data[q[i]]]
  BY <1>2
<1> QED BY <1>4, <1>5, Zenon DEF LineOf

(* The receivers of a data queue are those in one wait queue.              *)
LEMMA SameReaders ==
  ASSUME NEW d \in Dataqueue, Same(rwait[d])
  PROVE  ReadersKept(d)
BY DEF Same, ReadersKept, Readers

(* A step that leaves the other data queues alone but for one wait queue.  *)
LEMMA OthersLeft ==
  ASSUME IInv, DtqInv, SendersKeep, NEW d \in Dataqueue,
         \A o \in Dataqueue \ {d} : dtqcb'[o] = dtqcb[o],
         NEW w \in {d, rwait[d]}, Only(w)
  PROVE  Others(d) /\ (w = d => ReadersKept(d)) /\ (w # d /\ dtqcb'[d] = dtqcb[d] => LineKept(d))
<1>1. \A o \in Dataqueue : /\ o \in Wobj \ Mutex /\ rwait[o] \in Wobj \ Mutex
                           /\ rwait[o] # d /\ rwait[d] # o
                           /\ (o # d => rwait[o] # rwait[d])
  BY TwoQueues
<1>2. \A o \in Dataqueue \ {d} : Same(o) /\ Same(rwait[o])
  BY <1>1 DEF Only
<1>3. Others(d)
  BY <1>2, LeftAlone, SameReaders DEF Others
<1>4. w = d => Same(rwait[d])
  BY <1>1 DEF Only
<1>5. w # d => Same(d)
  BY <1>1 DEF Only
<1> QED BY <1>3, <1>4, <1>5, LeftAlone, SameReaders

(* A step that writes one wait queue.                                      *)
LEMMA OneQueue ==
  ASSUME IInv, NEW w \in Wobj, NEW s, wait_queue' = [wait_queue EXCEPT ![w] = s]
  PROVE  wait_queue'[w] = s /\ Only(w)
BY DEF IInv, TypeOK, Only, Same

(* A step that writes one control block.                                   *)
LEMMA OneRing ==
  ASSUME DtqInv, NEW d \in Dataqueue, NEW e, dtqcb' = [dtqcb EXCEPT ![d] = e]
  PROVE  dtqcb'[d] = e /\ \A o \in Dataqueue \ {d} : dtqcb'[o] = dtqcb[o]
BY DEF DtqInv

(* Putting a datum in front of the waiting senders or among them.          *)
LEMMA PutsLine ==
  ASSUME IInv, DtqInv, NEW d \in Dataqueue, Others(d), ReadersKept(d), Readers(d) = 0,
         NEW v \in Data,
         NEW i \in 1 .. Len(Line(d)) + 1, i > dtqcnt[d] \/ i = Len(Line(d)) + 1,
         Line(d)' = Channel!InsertAt(Line(d), i, v)
  PROVE  Channel!Put(d, v)
<1>1. Len(Line(d)) \in Nat /\ dtqcnt[d] \in Nat
  BY LineFacts
<1>2. Lines[d] = Line(d) /\ ReadersOf[d] = Readers(d)
  BY DEF Lines, ReadersOf
<1>3. Channel!LineBecomes(d, Channel!InsertAt(Line(d), i, v))
  BY ChannelActions
<1>4. i \in Channel!Stored(d) + 1 .. Len(Lines[d]) + 1
  <2>1. Channel!Stored(d) = IF Len(Lines[d]) < dtqcnt[d] THEN Len(Lines[d]) ELSE dtqcnt[d]
    BY DEF Channel!Stored, Lines
  <2> QED BY ONLY <1>1, <1>2, <2>1, i \in 1 .. Len(Line(d)) + 1,
                  i > dtqcnt[d] \/ i = Len(Line(d)) + 1
<1>5. /\ ReadersOf[d] = 0 /\ i \in Channel!Stored(d) + 1 .. Len(Lines[d]) + 1
      /\ Channel!LineBecomes(d, Channel!InsertAt(Lines[d], i, v))
  BY <1>2, <1>3, <1>4
<1> QED BY <1>5 DEF Channel!Put, Lines, ReadersOf, Readers

(* A datum handed to a receiver never stands in the line.                  *)
LEMMA HandsPromised ==
  ASSUME IInv, IInv', DtqInv, SendersKeep, NEW d \in Dataqueue, NEW v \in Data, HandsOver(d, v)
  PROVE  Channel!Put(d, v)
<1> DEFINE r == rwait[d]
<1>1. r \in Wobj \ Mutex /\ r # d /\ wait_queue[r] # <<>>
  BY TwoQueues DEF HandsOver, QueueServe
<1>2. wait_queue' = [wait_queue EXCEPT ![r] = Tail(@)]
  BY <1>1, QueueChanges DEF HandsOver
<1>3. wait_queue'[r] = Tail(wait_queue[r]) /\ Only(r)
  BY <1>1, <1>2, OneQueue
<1>4. UNCHANGED dtqcb
  BY DEF HandsOver
<1>5. Others(d) /\ LineKept(d)
  <2>1. \A o \in Dataqueue : dtqcb'[o] = dtqcb[o]
    BY <1>4
  <2> QED BY <1>1, <1>3, <2>1, OthersLeft
<1>6. wait_queue[r] \in Seq(Task)
  BY LineFacts
<1>7. Readers(d) > 0 /\ Readers(d)' = Readers(d) - 1
  BY <1>1, <1>3, <1>6 DEF Readers
<1>8. Channel!OneReaderLess(d)
  BY <1>5, <1>7, ChannelActions
<1> QED BY <1>8 DEF Channel!Put

(* A forced datum drops none while there is room.                          *)
LEMMA NothingForced ==
  ASSUME DtqInv, NEW d \in Dataqueue, HasRoom(d), NEW v
  PROVE  forceEnqueueData(d, dtqcb[d], v) = enqueueData(d, dtqcb[d], v)
<1> DEFINE c == dtqcb[d]
           n == dtqcnt[d]
<1>1. /\ n \in Nat /\ c.count \in 0 .. n /\ c.count < n
      /\ c = [count |-> c.count, head |-> c.head, tail |-> c.tail, dtqmb |-> c.dtqmb]
  BY TwoQueues DEF DtqInv, Ring, HasRoom
<1>2. ~ (c.count >= n)
  BY <1>1
<1> HIDE DEF c, n
<1>3. forceEnqueueData(d, c, v) =
        [count |-> c.count + 1, head |-> c.head, tail |-> Wrapped(d, c.tail + 1),
         dtqmb |-> [c.dtqmb EXCEPT ![c.tail] = v]]
  <2>1. forceEnqueueData(d, c, v) =
          [c EXCEPT !.dtqmb[c.tail] = v, !.tail = Wrapped(d, c.tail + 1),
                    !.count = IF c.count >= n THEN @ ELSE @ + 1,
                    !.head = IF c.count >= n THEN Wrapped(d, c.tail + 1) ELSE @]
    BY DEF forceEnqueueData, n
  <2> QED BY <1>1, <1>2, <2>1
<1>4. enqueueData(d, c, v) =
        [count |-> c.count + 1, head |-> c.head, tail |-> Wrapped(d, c.tail + 1),
         dtqmb |-> [c.dtqmb EXCEPT ![c.tail] = v]]
  <2>1. enqueueData(d, c, v) =
          [c EXCEPT !.dtqmb[c.tail] = v, !.count = @ + 1, !.tail = Wrapped(d, @ + 1)]
    BY DEF enqueueData
  <2> QED BY <1>1, <2>1
<1> QED BY <1>3, <1>4 DEF c

(* A datum that is stored joins the line, in a full queue in place of the  *)
(* oldest.                                                                 *)
LEMMA StoresPromised ==
  ASSUME IInv, IInv', DtqInv, SendersKeep, NEW d \in Dataqueue, NEW v \in Data, Stores(d, v)
  PROVE  Channel!Put(d, v) \/ Channel!Force(d, v)
<1> DEFINE c == dtqcb[d]
           n == dtqcnt[d]
           q == wait_queue[d]
<1>1. /\ UNCHANGED wait_queue /\ UNCHANGED data /\ wait_queue[rwait[d]] = <<>>
      /\ d \in Wobj \ Mutex /\ rwait[d] \in Wobj \ Mutex /\ rwait[d] # d
  BY TwoQueues DEF Stores, vars, waitVars
<1>2. /\ Line(d) = LineOf(c, n, q, data) /\ n \in Nat /\ c \in Ring(n) /\ data \in [Task -> Datum]
      /\ c.count \in 0 .. n /\ q \in Seq(Task) /\ Len(Line(d)) = c.count + Len(q)
      /\ q # <<>> => c.count = n
  BY LineFacts
<1>3. Line(d)' = LineOf(dtqcb'[d], n, q, data)
  BY <1>1, NextLine
<1>4. \A o \in Dataqueue \ {d} : dtqcb'[o] = dtqcb[o]
  BY OneRing DEF Stores
<1>5. Others(d) /\ ReadersKept(d) /\ Readers(d) = 0
  <2>1. Only(d)
    BY <1>1 DEF Only, Same
  <2> QED BY <1>1, <1>4, <2>1, OthersLeft, EmptyLine
<1>6. CASE c.count < n
  <2>1. dtqcb' = [dtqcb EXCEPT ![d] = enqueueData(d, c, v)]
    BY <1>6, NothingForced DEF Stores, HasRoom
  <2>2. dtqcb'[d] = enqueueData(d, c, v)
    BY <2>1, OneRing
  <2>3. q = <<>>
    BY <1>2, <1>6
  <2> HIDE DEF c, n, q
  <2>4. n = dtqcnt[d]
    BY DEF n
  <2>5. /\ Len(Line(d)) = c.count
        /\ Line(d)' = Channel!InsertAt(Line(d), c.count + 1, v)
    <3> DEFINE a == data
    <3>1. /\ d \in Dataqueue /\ c \in Ring(dtqcnt[d]) /\ v \in Data /\ c.count < dtqcnt[d]
          /\ a \in [Task -> Datum]
      BY <1>2, <1>6, <2>4
    <3>2. /\ Line(d) = LineOf(c, dtqcnt[d], <<>>, a)
          /\ Line(d)' = LineOf(enqueueData(d, c, v), dtqcnt[d], <<>>, a)
      BY <1>2, <1>3, <2>2, <2>3, <2>4
    <3> HIDE DEF a
    <3> QED BY ONLY <3>1, <3>2, LineStored
  <2>6. Len(Line(d)) + 1 \in 1 .. Len(Line(d)) + 1 /\ Len(Line(d)) + 1 = c.count + 1
    BY <1>2, <2>5
  <2>7. Channel!Put(d, v)
    BY <1>5, <2>5, <2>6, PutsLine
  <2> QED BY <2>7
<1>7. CASE ~ (c.count < n)
  <2>1. c.count = n /\ n > 0 /\ dtqcb' = [dtqcb EXCEPT ![d] = forceEnqueueData(d, c, v)]
    BY <1>2, <1>7 DEF Stores, HasRoom
  <2>2. dtqcb'[d] = forceEnqueueData(d, c, v)
    BY <2>1, OneRing
  <2> HIDE DEF c, n, q
  <2>3. n = dtqcnt[d]
    BY DEF n
  <2>4. /\ Len(Line(d)) = n + Len(q)
        /\ Line(d)' = Channel!RemoveAt(Channel!InsertAt(Line(d), n + 1, v), 1)
    BY <1>2, <1>3, <2>1, <2>2, <2>3, LineForced
  <2>5. Channel!LineBecomes(d, Channel!RemoveAt(Channel!InsertAt(Line(d), n + 1, v), 1))
    BY <1>5, <2>4, ChannelActions
  <2>6. Lines[d] = Line(d) /\ ReadersOf[d] = 0 /\ Len(Line(d)) >= n
    <3>1. Len(q) \in Nat
      BY <1>2
    <3> QED BY <1>2, <1>5, <2>4, <3>1 DEF Lines, ReadersOf
  <2>7. /\ dtqcnt[d] > 0 /\ ReadersOf[d] = 0 /\ Len(Lines[d]) >= dtqcnt[d]
        /\ Channel!LineBecomes(d, Channel!RemoveAt(Channel!InsertAt(Lines[d], dtqcnt[d] + 1, v), 1))
    BY <2>1, <2>3, <2>5, <2>6
  <2>8. Channel!Force(d, v)
    BY <2>7 DEF Channel!Force, Lines, ReadersOf, Readers
  <2> QED BY <2>8
<1> QED BY <1>6, <1>7

(* A sender that waits joins with its datum at its place in the queue.     *)
LEMMA SendWaitPromised ==
  ASSUME IInv, IInv', DtqInv, DtqInv', SendersKeep, NEW d \in Dataqueue, NEW v \in Data,
         SendWaits(d, v)
  PROVE  Channel!Put(d, v)
<1> DEFINE c == dtqcb[d]
           n == dtqcnt[d]
           q == wait_queue[d]
           t == runtsk
<1>1. /\ d \in Wobj \ Mutex /\ rwait[d] # d /\ wait_queue[rwait[d]] = <<>>
      /\ QueueWait(d) /\ data' = [data EXCEPT ![t] = v] /\ UNCHANGED dtqcb
      /\ ~ (c.count < n)
  BY TwoQueues DEF SendWaits, HasRoom
<1>2. /\ Line(d) = LineOf(c, n, q, data) /\ n \in Nat /\ c \in Ring(n) /\ data \in [Task -> Datum]
      /\ c.count \in 0 .. n /\ q \in Seq(Task) /\ Len(Line(d)) = c.count + Len(q)
  BY LineFacts
<1>3. /\ t \in Task /\ waiton[t] = "NONE"
      /\ \E k \in 1 .. Len(q) + 1 : wait_queue' = [wait_queue EXCEPT ![d] = InsertBefore(@, k, t)]
  BY <1>1, QueueChanges
<1>4. PICK k \in 1 .. Len(q) + 1 : wait_queue' = [wait_queue EXCEPT ![d] = InsertBefore(@, k, t)]
  BY <1>3
<1>5. wait_queue'[d] = InsertBefore(q, k, t) /\ Only(d)
  BY <1>1, <1>4, OneQueue
<1>6. data' \in [Task -> Datum] /\ data'[t] = v
  BY <1>1, <1>2, <1>3 DEF Datum
<1>7. \A i \in 1 .. Len(q) : data'[q[i]] = data[q[i]]
  <2>1. \A u \in Task : Member(q, u) => waiton[u] = d
    BY <1>1 DEF IInv, WaitsOwned
  <2>2. \A i \in 1 .. Len(q) : q[i] \in Task /\ Member(q, q[i])
    BY <1>2 DEF Member
  <2> QED BY <2>1, <2>2 DEF SendersKeep
<1>8. /\ dtqcb'[d] = c /\ \A o \in Dataqueue : dtqcb'[o] = dtqcb[o]
      /\ Line(d)' = LineOf(c, n, InsertBefore(q, k, t), data')
  BY <1>1, <1>5, NextLine
<1>9. Others(d) /\ ReadersKept(d) /\ Readers(d) = 0
  BY <1>1, <1>5, <1>8, OthersLeft, EmptyLine
<1> HIDE DEF c, n, q, t
<1>10. Line(d)' = Channel!InsertAt(Line(d), c.count + k, v)
  <2> DEFINE a == data
             b == data'
  <2>1. /\ n \in Nat /\ c \in Ring(n) /\ q \in Seq(Task) /\ a \in [Task -> Datum]
        /\ b \in [Task -> Datum] /\ t \in Task /\ k \in 1 .. Len(q) + 1
        /\ \A i \in 1 .. Len(q) : b[q[i]] = a[q[i]]
    BY <1>2, <1>3, <1>6, <1>7
  <2>2. b[t] = v /\ Line(d) = LineOf(c, n, q, a) /\ Line(d)' = LineOf(c, n, InsertBefore(q, k, t), b)
    BY <1>2, <1>6, <1>8
  <2> HIDE DEF a, b
  <2> QED BY ONLY <2>1, <2>2, LineJoined
<1>11. /\ c.count + k \in 1 .. Len(Line(d)) + 1 /\ c.count + k > dtqcnt[d]
  <2>1. c.count = n /\ Len(q) \in Nat /\ n = dtqcnt[d]
    BY <1>1, <1>2 DEF n
  <2> QED BY ONLY <1>2, <2>1, k \in 1 .. Len(q) + 1
<1> QED BY <1>9, <1>10, <1>11, PutsLine

(* A receiver waits for an empty line.                                     *)
LEMMA ReceiveWaitPromised ==
  ASSUME IInv, IInv', DtqInv, SendersKeep, NEW d \in Dataqueue, ReceiveWaits(d)
  PROVE  Channel!Await(d)
<1> DEFINE r == rwait[d]
           q == wait_queue[r]
           t == runtsk
<1>1. /\ r \in Wobj \ Mutex /\ r # d /\ QueueWait(r) /\ UNCHANGED dtqcb
      /\ dtqcb[d].count = 0 /\ wait_queue[d] = <<>>
  BY TwoQueues DEF ReceiveWaits, dtqOwn
<1>2. /\ t \in Task
      /\ \E k \in 1 .. Len(q) + 1 : wait_queue' = [wait_queue EXCEPT ![r] = InsertBefore(@, k, t)]
  BY <1>1, QueueChanges
<1>3. PICK k \in 1 .. Len(q) + 1 : wait_queue' = [wait_queue EXCEPT ![r] = InsertBefore(@, k, t)]
  BY <1>2
<1>4. wait_queue'[r] = InsertBefore(q, k, t) /\ Only(r)
  BY <1>1, <1>3, OneQueue, ZenonT(60)
<1>5. Others(d) /\ LineKept(d)
  <2>1. \A o \in Dataqueue : dtqcb'[o] = dtqcb[o]
    BY <1>1
  <2> QED BY <1>1, <1>4, <2>1, OthersLeft
<1>6. q \in Seq(Task) /\ wait_queue'[r] \in Seq(Task)
  BY <1>1 DEF IInv, TypeOK
<1>7. Len(InsertBefore(q, k, t)) = Len(q) + 1
  <2>1. DOMAIN InsertBefore(q, k, t) = 1 .. Len(q) + 1 /\ Len(q) \in Nat
    BY <1>6 DEF InsertBefore
  <2> QED BY <1>4, <1>6, <2>1
<1>8. Readers(d)' = Readers(d) + 1
  BY <1>4, <1>7 DEF Readers
<1>9. Line(d) = <<>>
  BY <1>1, EmptyLine
<1> QED BY <1>5, <1>8, <1>9, ChannelActions

(* The front of a line is taken.                                           *)
LEMMA TakesLine ==
  ASSUME NEW d \in Dataqueue, Others(d), ReadersKept(d),
         Line(d) # <<>>, Line(d)' = Tail(Line(d))
  PROVE  Channel!Take(d)
<1>1. Lines[d] = Line(d)
  BY DEF Lines
<1>2. Channel!LineBecomes(d, Tail(Line(d)))
  BY ChannelActions
<1>3. Lines[d] # <<>> /\ Channel!LineBecomes(d, Tail(Lines[d]))
  BY <1>1, <1>2
<1> QED BY <1>3 DEF Channel!Take, Lines

(* The data of the senders that wait, before and after a step.             *)
LEMMA SendersData ==
  ASSUME IInv, DtqInv, SendersKeep, NEW d \in Dataqueue
  PROVE  LET q == wait_queue[d]
         IN  \A i \in 1 .. Len(q) : data[q[i]] \in Data /\ data'[q[i]] = data[q[i]]
<1> DEFINE q == wait_queue[d]
<1>1. q \in Seq(Task) /\ \A u \in Task : Member(q, u) => waiton[u] = d
  BY TwoQueues DEF IInv, TypeOK, WaitsOwned
<1>2. \A i \in 1 .. Len(q) : q[i] \in Task /\ Member(q, q[i])
  BY <1>1 DEF Member
<1> HIDE DEF q
<1>3. \A i \in 1 .. Len(q) : data[q[i]] \in Data /\ data'[q[i]] = data[q[i]]
  BY <1>1, <1>2 DEF SendersKeep, DtqInv
<1> QED BY <1>3 DEF q

(* A datum taken from the ring, which the first sender fills up again.     *)
LEMMA TakesPromised ==
  ASSUME IInv, IInv', DtqInv, DtqInv', SendersKeep, NEW d \in Dataqueue, Takes(d)
  PROVE  Channel!Take(d)
<1> DEFINE c == dtqcb[d]
           n == dtqcnt[d]
           q == wait_queue[d]
<1>1. /\ d \in Wobj \ Mutex /\ rwait[d] \in Wobj \ Mutex /\ rwait[d] # d
      /\ c.count > 0 /\ dtqcb' = [dtqcb EXCEPT ![d] = Refilled(d)]
      /\ \/ q = <<>> /\ UNCHANGED vars
         \/ QueueServe(d)
  BY TwoQueues DEF Takes
<1>2. /\ Line(d) = LineOf(c, n, q, data) /\ n \in Nat /\ c \in Ring(n) /\ data \in [Task -> Datum]
      /\ c.count \in 0 .. n /\ q \in Seq(Task) /\ (q # <<>> => c.count = n)
  BY LineFacts
<1>3. data' \in [Task -> Datum]
  BY DEF DtqInv, Datum
<1>4. dtqcb'[d] = Refilled(d) /\ \A o \in Dataqueue \ {d} : dtqcb'[o] = dtqcb[o]
  BY <1>1, OneRing
<1>5. Line(d)' = LineOf(Refilled(d), n, wait_queue'[d], data')
  BY <1>4, NextLine
<1>6. CASE q = <<>> /\ UNCHANGED vars
  <2>1. wait_queue' = wait_queue /\ Only(d)
    BY <1>6 DEF vars, waitVars, Only, Same
  <2>2. Refilled(d) = dequeueData(d, c)
    BY <1>6 DEF Refilled
  <2>3. Others(d) /\ ReadersKept(d)
    BY <1>1, <1>4, <2>1, OthersLeft
  <2> DEFINE a == data
             b == data'
  <2>4. /\ Line(d) = LineOf(c, n, <<>>, a) /\ Line(d)' = LineOf(dequeueData(d, c), n, <<>>, b)
        /\ c \in Ring(n) /\ c.count > 0 /\ a \in [Task -> Datum] /\ b \in [Task -> Datum]
    BY <1>1, <1>2, <1>3, <1>5, <1>6, <2>1, <2>2
  <2> HIDE DEF a, b, c
  <2>5. Line(d) # <<>> /\ Line(d)' = Tail(Line(d))
    BY ONLY <2>4, d \in Dataqueue, LineTaken
  <2> QED BY <2>3, <2>5, TakesLine
<1>7. CASE QueueServe(d)
  <2>1. q # <<>> /\ wait_queue' = [wait_queue EXCEPT ![d] = Tail(@)]
    BY <1>1, <1>7, QueueChanges DEF QueueServe
  <2>2. wait_queue'[d] = Tail(q) /\ Only(d)
    BY <1>1, <2>1, OneQueue
  <2>3. Refilled(d) = enqueueData(d, dequeueData(d, c), data[q[1]])
    BY <2>1 DEF Refilled, Sender
  <2>4. Others(d) /\ ReadersKept(d)
    BY <1>1, <1>4, <2>2, OthersLeft
  <2>5. \A i \in 1 .. Len(q) : data[q[i]] \in Data /\ data'[q[i]] = data[q[i]]
    BY SendersData
  <2> HIDE DEF q
  <2>6. 1 \in 1 .. Len(q) /\ 2 .. Len(q) \subseteq 1 .. Len(q)
    BY <1>2, <2>1
  <2> DEFINE a == data
             b == data'
  <2>7. /\ Line(d) = LineOf(c, n, q, a)
        /\ Line(d)' = LineOf(enqueueData(d, dequeueData(d, c), a[q[1]]), n, Tail(q), b)
        /\ c \in Ring(n) /\ a \in [Task -> Datum] /\ b \in [Task -> Datum]
        /\ q \in Seq(Task) /\ q # <<>>
    BY <1>2, <1>3, <1>5, <2>1, <2>2, <2>3
  <2>8. n > 0 /\ c.count = n
    BY <1>1, <1>2, <2>1
  <2>9. a[q[1]] \in Data /\ \A i \in 2 .. Len(q) : b[q[i]] = a[q[i]]
    BY <2>5, <2>6
  <2> HIDE DEF a, b, c
  <2>10. Line(d) # <<>> /\ Line(d)' = Tail(Line(d))
    BY ONLY <2>7, <2>8, <2>9, d \in Dataqueue, LineRefilled
  <2> QED BY <2>4, <2>10, TakesLine
<1> QED BY <1>1, <1>6, <1>7

(* A datum taken from a sender of a queue without capacity.                *)
LEMMA PassesPromised ==
  ASSUME IInv, IInv', DtqInv, DtqInv', SendersKeep, NEW d \in Dataqueue, Passes(d)
  PROVE  Channel!Take(d)
<1> DEFINE c == dtqcb[d]
           n == dtqcnt[d]
           q == wait_queue[d]
<1>1. /\ d \in Wobj \ Mutex /\ rwait[d] \in Wobj \ Mutex /\ rwait[d] # d
      /\ c.count = 0 /\ UNCHANGED dtqcb /\ QueueServe(d)
  BY TwoQueues DEF Passes
<1>2. /\ Line(d) = LineOf(c, n, q, data) /\ n \in Nat /\ c \in Ring(n) /\ data \in [Task -> Datum]
      /\ q \in Seq(Task)
  BY LineFacts
<1>3. data' \in [Task -> Datum]
  BY DEF DtqInv, Datum
<1>4. \A o \in Dataqueue : dtqcb'[o] = dtqcb[o]
  BY <1>1
<1>5. q # <<>> /\ wait_queue' = [wait_queue EXCEPT ![d] = Tail(@)]
  BY <1>1, QueueChanges DEF QueueServe
<1>6. wait_queue'[d] = Tail(q) /\ Only(d)
  BY <1>1, <1>5, OneQueue
<1>7. Others(d) /\ ReadersKept(d)
  BY <1>1, <1>4, <1>6, OthersLeft
<1>8. Line(d)' = LineOf(c, n, Tail(q), data')
  BY <1>4, <1>6, NextLine
<1>9. \A i \in 1 .. Len(q) : data'[q[i]] = data[q[i]]
  BY SendersData
<1> HIDE DEF q
<1>10. \A i \in 2 .. Len(q) : data'[q[i]] = data[q[i]]
  BY <1>2, <1>9
<1> DEFINE a == data
           b == data'
<1>11. /\ Line(d) = LineOf(c, n, q, a) /\ Line(d)' = LineOf(c, n, Tail(q), b)
       /\ n \in Nat /\ c \in Ring(n) /\ c.count = 0 /\ q \in Seq(Task) /\ q # <<>>
       /\ a \in [Task -> Datum] /\ b \in [Task -> Datum]
       /\ \A i \in 2 .. Len(q) : b[q[i]] = a[q[i]]
  BY <1>1, <1>2, <1>3, <1>5, <1>8, <1>10
<1> HIDE DEF a, b, c, n
<1>12. Line(d) # <<>> /\ Line(d)' = Tail(Line(d))
  BY ONLY <1>11, LinePassed, SMTT(60)
<1> QED BY <1>7, <1>12, TakesLine

(* A data queue that is reinitialised loses its line and its receivers.    *)
LEMMA ResetsPromised ==
  ASSUME IInv, IInv', DtqInv, DtqInv', SendersKeep, NEW d \in Dataqueue, Resets(d)
  PROVE  Channel!Clear(d)
<1>1. /\ d \in Wobj \ Mutex /\ rwait[d] \in Wobj \ Mutex /\ rwait[d] # d
      /\ dtqcb' = [dtqcb EXCEPT ![d].count = 0, ![d].head = 0, ![d].tail = 0]
  BY TwoQueues DEF Resets
<1>2. /\ \A o \in Dataqueue \ {d} : dtqcb'[o] = dtqcb[o]
      /\ dtqcb'[d].count = 0
  <2>1. dtqcb \in [Dataqueue -> UNION {Ring(dtqcnt[o]) : o \in Dataqueue}]
    BY DEF DtqInv
  <2>2. dtqcb[d] \in Ring(dtqcnt[d])
    BY DEF DtqInv
  <2>3. dtqcb' = [dtqcb EXCEPT ![d] = [dtqcb[d] EXCEPT !.count = 0, !.head = 0, !.tail = 0]]
    BY <1>1, <2>1
  <2>4. /\ \A o \in Dataqueue \ {d} : dtqcb'[o] = dtqcb[o]
        /\ dtqcb'[d] = [dtqcb[d] EXCEPT !.count = 0, !.head = 0, !.tail = 0]
    BY <2>1, <2>3
  <2>5. [dtqcb[d] EXCEPT !.count = 0, !.head = 0, !.tail = 0].count = 0
    BY <2>2 DEF Ring
  <2> QED BY <2>4, <2>5
<1>3. PICK w \in {d, rwait[d]} :
        /\ QueueClear(w)
        /\ \A v \in {d, rwait[d]} \ {w} : wait_queue[v] = <<>>
  BY <1>1 DEF Resets
<1>4. wait_queue' = [wait_queue EXCEPT ![w] = <<>>]
  BY <1>1, <1>3, QueueChanges
<1>5. wait_queue'[w] = <<>> /\ Only(w)
  <2>1. IInv /\ w \in Wobj
    BY <1>1, <1>3
  <2> QED BY ONLY <2>1, <1>4, OneQueue, Zenon
<1>6. wait_queue'[d] = <<>> /\ wait_queue'[rwait[d]] = <<>>
  BY <1>1, <1>3, <1>5 DEF Only, Same
<1>7. Others(d)
  BY <1>2, <1>5, OthersLeft
<1>8. Line(d)' = <<>> /\ Readers(d)' = 0
  <2>1. Line(d)' = LineOf(dtqcb'[d], dtqcnt[d], <<>>, data')
    BY <1>6, NextLine
  <2>2. LineOf(dtqcb'[d], dtqcnt[d], <<>>, data') = <<>>
    BY <1>2 DEF LineOf
  <2> QED BY <1>6, <2>1, <2>2 DEF Readers
<1> QED BY <1>7, <1>8, ChannelActions
-----------------------------------------------------------------------------
(* The kernel's own steps: a sender or a receiver gives up, a sender moves *)
(* among the others, or no line changes.                                   *)
LEMMA LeavesPromised ==
  ASSUME IInv, DtqInv, SendersKeep, NEW d \in Dataqueue, UNCHANGED dtqOwn, Only(d), Leaves(d)
  PROVE  Channel!GiveUp(d)
<1> DEFINE c == dtqcb[d]
           n == dtqcnt[d]
           q == wait_queue[d]
<1>1. /\ d \in Wobj /\ rwait[d] # d /\ dtqcb' = dtqcb /\ data' = data
  BY TwoQueues DEF dtqOwn
<1>2. PICK t \in Waiters(d) : wait_queue'[d] = Delete(q, t)
  BY DEF Leaves
<1>3. t \in Task /\ Member(q, t)
  BY <1>1, <1>2 DEF IInv, WaitsOwned, Waiters
<1>4. /\ Line(d) = LineOf(c, n, q, data) /\ n \in Nat /\ c \in Ring(n) /\ data \in [Task -> Datum]
      /\ q \in Seq(Task) /\ (q # <<>> => c.count = n) /\ Len(Line(d)) = c.count + Len(q)
  BY LineFacts
<1>5. Line(d)' = LineOf(c, n, Delete(q, t), data)
  BY <1>1, <1>2, NextLine
<1>6. Others(d) /\ ReadersKept(d)
  BY <1>1, OthersLeft
<1>7. q # <<>>
  BY <1>3, <1>4 DEF Member
<1> DEFINE a == data
<1>8. /\ Line(d) = LineOf(c, n, q, a) /\ Line(d)' = LineOf(c, n, Delete(q, t), a)
      /\ n \in Nat /\ c \in Ring(n) /\ a \in [Task -> Datum] /\ q \in Seq(Task)
      /\ t \in Task /\ Member(q, t)
  BY <1>3, <1>4, <1>5
<1>9. c.count = dtqcnt[d] /\ Len(Line(d)) = c.count + Len(q) /\ dtqcnt[d] \in Nat /\ Len(q) \in Nat
  BY <1>4, <1>7
<1> HIDE DEF a, c, n, q
<1>10. PICK k \in 1 .. Len(q) : Line(d)' = Channel!RemoveAt(Line(d), c.count + k)
  BY ONLY <1>8, LineLeft
<1>11. c.count + k \in dtqcnt[d] + 1 .. Len(Line(d))
  BY ONLY <1>9, k \in 1 .. Len(q)
<1>12. Channel!LineBecomes(d, Channel!RemoveAt(Line(d), c.count + k))
  BY <1>6, <1>10, ChannelActions
<1>13. Lines[d] = Line(d)
  BY DEF Lines
<1>14. \E i \in dtqcnt[d] + 1 .. Len(Lines[d]) : Channel!LineBecomes(d, Channel!RemoveAt(Lines[d], i))
  BY <1>11, <1>12, <1>13
<1> QED BY <1>14 DEF Channel!GiveUp, Lines

(* A sender that changes its place moves its datum behind the ring.        *)
LEMMA PlacesPromised ==
  ASSUME IInv, DtqInv, SendersKeep, NEW d \in Dataqueue, UNCHANGED dtqOwn, Only(d), Places(d)
  PROVE  Channel!Move(d)
<1> DEFINE c == dtqcb[d]
           n == dtqcnt[d]
           q == wait_queue[d]
<1>1. /\ d \in Wobj /\ rwait[d] # d /\ dtqcb' = dtqcb /\ data' = data
  BY TwoQueues DEF dtqOwn
<1>2. PICK t \in Waiters(d), k \in 1 .. Len(q) : wait_queue'[d] = InsertBefore(Delete(q, t), k, t)
  BY DEF Places
<1>3. t \in Task /\ Member(q, t)
  BY <1>1, <1>2 DEF IInv, WaitsOwned, Waiters
<1>4. /\ Line(d) = LineOf(c, n, q, data) /\ n \in Nat /\ c \in Ring(n) /\ data \in [Task -> Datum]
      /\ q \in Seq(Task) /\ (q # <<>> => c.count = n) /\ Len(Line(d)) = c.count + Len(q)
      /\ NoDuplicate(q)
  BY LineFacts
<1>5. Line(d)' = LineOf(c, n, InsertBefore(Delete(q, t), k, t), data)
  BY <1>1, <1>2, NextLine
<1>6. Others(d) /\ ReadersKept(d)
  BY <1>1, OthersLeft
<1>7. q # <<>>
  BY <1>3, <1>4 DEF Member
<1> DEFINE a == data
<1>8. /\ Line(d) = LineOf(c, n, q, a)
      /\ Line(d)' = LineOf(c, n, InsertBefore(Delete(q, t), k, t), a)
      /\ n \in Nat /\ c \in Ring(n) /\ a \in [Task -> Datum] /\ q \in Seq(Task)
      /\ t \in Task /\ Member(q, t) /\ NoDuplicate(q) /\ k \in 1 .. Len(q)
  BY <1>2, <1>3, <1>4, <1>5
<1>9. c.count = dtqcnt[d] /\ Len(Line(d)) = c.count + Len(q) /\ dtqcnt[d] \in Nat /\ Len(q) \in Nat
  BY <1>4, <1>7
<1> HIDE DEF a, c, n, q
<1> DEFINE l == Line(d)
<1>10. PICK i \in 1 .. Len(q) :
         Line(d)' = Channel!InsertAt(Channel!RemoveAt(l, c.count + i), c.count + k, l[c.count + i])
  BY ONLY <1>8, LineMoved, SMTT(60)
<1>11. c.count + i \in dtqcnt[d] + 1 .. Len(l) /\ c.count + k \in dtqcnt[d] + 1 .. Len(l)
  BY ONLY <1>9, k \in 1 .. Len(q), i \in 1 .. Len(q), SMTT(60)
<1>12. Channel!LineBecomes(d, Channel!InsertAt(Channel!RemoveAt(l, c.count + i), c.count + k,
                                               l[c.count + i]))
  BY <1>6, <1>10, ChannelActions
<1>13. Lines[d] = l
  BY DEF Lines
<1>14. \E x, y \in dtqcnt[d] + 1 .. Len(Lines[d]) :
         Channel!LineBecomes(d, Channel!InsertAt(Channel!RemoveAt(Lines[d], x), y, Lines[d][x]))
  BY <1>11, <1>12, <1>13
<1> QED BY <1>14 DEF Channel!Move, Lines

(* The kernel's own steps are stutters or end or move one wait.            *)
LEMMA QuietPromised ==
  ASSUME IInv, IInv', DtqInv, SendersKeep, DtqQuiet
  PROVE  [Channel!Next]_(Channel!channelVars)
<1>1. KernelMove /\ UNCHANGED dtqOwn
  BY KernelMoves DEF DtqQuiet
<1>2. \A o \in Dataqueue : dtqcb'[o] = dtqcb[o] /\ o \in Wobj \ Mutex /\ rwait[o] \in Wobj \ Mutex
  BY <1>1, TwoQueues DEF dtqOwn
<1>3. ASSUME \A o \in Dataqueue : Same(o) /\ Same(rwait[o]) PROVE UNCHANGED Channel!channelVars
  <2>1. \A o \in Dataqueue : Line(o)' = Line(o) /\ Readers(o)' = Readers(o)
    BY <1>2, <1>3, LeftAlone, SameReaders DEF LineKept, ReadersKept
  <2>2. Lines' = Lines /\ ReadersOf' = ReadersOf
    BY <2>1 DEF Lines, ReadersOf
  <2> QED BY <2>2 DEF Channel!channelVars, Lines, ReadersOf, Readers
<1>4. CASE AllSame
  BY <1>2, <1>3, <1>4 DEF AllSame
<1>5. ASSUME NEW w \in Wobj \ Mutex, Only(w), Leaves(w) \/ (w \in TpriWobj /\ Places(w))
      PROVE  [Channel!Next]_(Channel!channelVars)
  <2>1. CASE w \in Dataqueue
    BY <1>1, <1>5, <2>1, LeavesPromised, PlacesPromised DEF Channel!Next
  <2>2. ASSUME NEW d \in Dataqueue, w = rwait[d] PROVE Channel!GiveUp(d)
    <3>1. Leaves(w) /\ w # d
      BY <1>5, <2>2, TwoQueues, DataqueueAssumption
    <3>2. Others(d) /\ LineKept(d)
      BY <1>2, <1>5, <2>2, <3>1, OthersLeft
    <3>3. PICK t \in Waiters(w) : wait_queue'[w] = Delete(wait_queue[w], t)
      BY <3>1 DEF Leaves
    <3>4. wait_queue[w] \in Seq(Task) /\ t \in Task /\ Member(wait_queue[w], t)
          /\ NoDuplicate(wait_queue[w])
      BY <1>5 DEF IInv, TypeOK, WaitsOwned, Waiters
    <3>5. Len(Delete(wait_queue[w], t)) = Len(wait_queue[w]) - 1 /\ Len(wait_queue[w]) > 0
      BY <3>4, DeleteProperties, SMTT(60) DEF Member
    <3>6. Readers(d) > 0 /\ Readers(d)' = Readers(d) - 1
      BY <2>2, <3>3, <3>5 DEF Readers
    <3>7. Channel!OneReaderLess(d)
      BY <3>2, <3>6, ChannelActions
    <3> QED BY <3>7 DEF Channel!GiveUp
  <2>3. CASE w \notin Dataqueue /\ \A o \in Dataqueue : w # rwait[o]
    BY <1>2, <1>3, <1>5, <2>3 DEF Only
  <2> QED BY <2>1, <2>2, <2>3 DEF Channel!Next
<1> QED BY <1>1, <1>4, <1>5 DEF KernelMove
-----------------------------------------------------------------------------
(* Every step of the data queues is one of their channels, or a stutter.   *)
LEMMA ChannelSteps ==
  ASSUME IInv, IInv', DtqInv, DtqInv', [DtqNext]_dtqVars
  PROVE  [Channel!Next]_(Channel!channelVars)
<1>1. DtqQuiet \/ \E d \in Dataqueue : DtqStep(d)
  BY DataqueueSteps
<1>2. SendersKeep
  BY <1>1, SendersKept
<1>3. CASE DtqQuiet
  BY <1>2, <1>3, QuietPromised
<1>4. ASSUME NEW d \in Dataqueue, DtqStep(d) PROVE Channel!Next
  <2>1. ASSUME NEW v \in Data, HandsOver(d, v) \/ Stores(d, v) \/ SendWaits(d, v)
        PROVE  Channel!Put(d, v) \/ Channel!Force(d, v)
    BY <1>2, <2>1, HandsPromised, StoresPromised, SendWaitPromised
  <2>2. Takes(d) \/ Passes(d) => Channel!Take(d)
    BY <1>2, TakesPromised, PassesPromised
  <2>3. ReceiveWaits(d) => Channel!Await(d)
    BY <1>2, ReceiveWaitPromised
  <2>4. Resets(d) => Channel!Clear(d)
    BY <1>2, ResetsPromised
  <2> QED BY <1>4, <2>1, <2>2, <2>3, <2>4 DEF DtqStep, Channel!Next
<1> QED BY <1>1, <1>3, <1>4

(* Data queues implement the channels of FifoChannel: ring buffer, waiting *)
(* senders and their data are one line each, whatever the capacities, the  *)
(* order of the senders and the waits that end early.                      *)
THEOREM ChannelImplemented == DtqSpec => ChannelPromised
<1> DEFINE I == IInv /\ SInv /\ ResultPending /\ DtqInv
<1>1. DtqInit => Channel!Init
  <2> SUFFICES ASSUME DtqInit PROVE Channel!Init
    OBVIOUS
  <2>1. \A d \in Dataqueue : Line(d) = <<>> /\ Len(wait_queue[rwait[d]]) = 0
    <3> SUFFICES ASSUME NEW d \in Dataqueue
                 PROVE  Line(d) = <<>> /\ Len(wait_queue[rwait[d]]) = 0
      OBVIOUS
    <3>1. wait_queue[d] = <<>> /\ wait_queue[rwait[d]] = <<>> /\ dtqcb[d] = Initial(d)
      BY TwoQueues DEF DtqInit, Init
    <3>2. dtqcb[d].count = 0
      BY <3>1 DEF Initial
    <3>3. Contents(d) = <<>> /\ [i \in 1 .. Len(wait_queue[d]) |-> data[wait_queue[d][i]]] = <<>>
      BY <3>1, <3>2 DEF Contents
    <3> QED BY <3>1, <3>3 DEF Line
  <2> QED BY <2>1 DEF Channel!Init
<1>2. I /\ I' /\ [DtqNext]_dtqVars => [Channel!Next]_(Channel!channelVars)
  BY ChannelSteps
<1>3. DtqSpec => []I
  BY DataqueueInvariant
<1> QED BY <1>1, <1>2, <1>3, PTL DEF DtqSpec, ChannelPromised, Channel!Spec
-----------------------------------------------------------------------------
(* A list that one element has joined.                                     *)
LEMMA InsertBeforeShape ==
  ASSUME NEW T, NEW q \in Seq(T), NEW t \in T, NEW k \in 1 .. Len(q) + 1
  PROVE  LET p == InsertBefore(q, k, t)
         IN  /\ p \in Seq(T) /\ Len(p) = Len(q) + 1
             /\ \A i \in 1 .. Len(q) + 1 :
                  p[i] = IF i < k THEN q[i] ELSE IF i = k THEN t ELSE q[i - 1]
<1> DEFINE p == InsertBefore(q, k, t)
<1>1. Len(q) \in Nat
  OBVIOUS
<1>2. p \in Seq(T)
  BY InsertBeforeProperties
<1>3. p = [i \in 1 .. Len(q) + 1 |-> IF i < k THEN q[i] ELSE IF i = k THEN t ELSE q[i - 1]]
  BY DEF InsertBefore
<1> HIDE DEF p
<1>4. DOMAIN p = 1 .. Len(q) + 1
  BY <1>3
<1>5. Len(p) = Len(q) + 1
  BY <1>1, <1>2, <1>4
<1> QED BY <1>2, <1>3, <1>5 DEF p

(* It tells in its place what the array says of it.                        *)
LEMMA AlongInserted ==
  ASSUME NEW T, NEW S, NEW p \in Seq(T), NEW t \in T, NEW k \in 1 .. Len(p) + 1,
         NEW a, NEW b, b[t] \in S,
         \A i \in 1 .. Len(p) : a[p[i]] \in S /\ b[p[i]] = a[p[i]]
  PROVE  Along(InsertBefore(p, k, t), b) = InsertBefore(Along(p, a), k, b[t])
<1> DEFINE q == InsertBefore(p, k, t)
           s == Along(p, a)
<1>1. /\ Len(p) \in Nat /\ Len(q) = Len(p) + 1
      /\ \A i \in 1 .. Len(p) + 1 :
           q[i] = IF i < k THEN p[i] ELSE IF i = k THEN t ELSE p[i - 1]
  <2>1. p \in Seq(T) /\ t \in T /\ k \in 1 .. Len(p) + 1 /\ Len(p) \in Nat
    OBVIOUS
  <2>2. Len(InsertBefore(p, k, t)) = Len(p) + 1
    BY ONLY <2>1, InsertBeforeShape
  <2>3. \A i \in 1 .. Len(p) + 1 :
          InsertBefore(p, k, t)[i] = IF i < k THEN p[i] ELSE IF i = k THEN t ELSE p[i - 1]
    BY ONLY <2>1, InsertBeforeShape
  <2> QED BY ONLY <2>1, <2>2, <2>3
<1>2. Len(s) = Len(p) /\ \A i \in 1 .. Len(p) : s[i] = a[p[i]]
  <2> HIDE DEF q
  <2> QED BY <1>1 DEF Along
<1> HIDE DEF q, s
<1>3. ASSUME NEW i \in 1 .. Len(p) + 1
      PROVE  b[q[i]] = IF i < k THEN s[i] ELSE IF i = k THEN b[t] ELSE s[i - 1]
  <2>1. CASE i < k
    <3>1. i \in 1 .. Len(p) /\ q[i] = p[i]
      BY <1>1, <2>1
    <3> QED BY <1>2, <2>1, <3>1
  <2>2. CASE i = k
    BY <1>1, <2>2
  <2>3. CASE i > k
    <3>1. i - 1 \in 1 .. Len(p) /\ q[i] = p[i - 1] /\ ~ (i < k) /\ i # k
      BY <1>1, <2>3
    <3> QED BY <1>2, <3>1
  <2> QED BY <2>1, <2>2, <2>3
<1>4. [i \in 1 .. Len(p) + 1 |-> b[q[i]]]
        = [i \in 1 .. Len(p) + 1 |-> IF i < k THEN s[i] ELSE IF i = k THEN b[t] ELSE s[i - 1]]
  BY <1>3
<1>5. /\ Along(q, b) = [i \in 1 .. Len(p) + 1 |-> b[q[i]]]
      /\ InsertBefore(s, k, b[t])
           = [i \in 1 .. Len(p) + 1 |-> IF i < k THEN s[i] ELSE IF i = k THEN b[t] ELSE s[i - 1]]
  BY <1>1, <1>2 DEF Along, InsertBefore
<1> QED BY <1>4, <1>5 DEF q, s

(* The rest of a list tells the rest.                                      *)
LEMMA AlongTail ==
  ASSUME NEW T, NEW p \in Seq(T), p # <<>>, NEW a, NEW b,
         \A i \in 1 .. Len(p) : b[p[i]] = a[p[i]]
  PROVE  /\ Along(p, a) # <<>> /\ Head(Along(p, a)) = a[Head(p)]
         /\ Along(Tail(p), b) = Tail(Along(p, a))
<1> DEFINE S == {a[p[i]] : i \in 1 .. Len(p)}
           s == Along(p, a)
           r == Along(Tail(p), b)
<1>0. \A i \in 1 .. Len(p) : a[p[i]] \in S
  OBVIOUS
<1> HIDE DEF S
<1>1. /\ Len(p) \in Nat \ {0} /\ Head(p) = p[1] /\ Tail(p) \in Seq(T) /\ Len(Tail(p)) = Len(p) - 1
      /\ \A i \in 1 .. Len(p) - 1 : Tail(p)[i] = p[i + 1]
  OBVIOUS
<1>2. s \in Seq(S) /\ Len(s) = Len(p) /\ \A i \in 1 .. Len(p) : s[i] = a[p[i]]
  <2> HIDE DEF r
  <2> QED BY <1>0, <1>1 DEF Along
<1>3. r \in Seq(S) /\ Len(r) = Len(p) - 1 /\ \A i \in 1 .. Len(p) - 1 : r[i] = b[p[i + 1]]
  <2>1. \A i \in 1 .. Len(Tail(p)) : b[Tail(p)[i]] \in S
    BY <1>0, <1>1
  <2> HIDE DEF s, r
  <2> DEFINE u == Tail(p)
  <2>2. /\ r \in Seq(S) /\ Len(r) = Len(u)
        /\ \A i \in 1 .. Len(u) : r[i] = b[u[i]]
    <3>1. u \in Seq(T) /\ r = Along(u, b) /\ \A i \in 1 .. Len(u) : b[u[i]] \in S
      BY <1>1, <2>1 DEF r
    <3> HIDE DEF u
    <3>2. Len(u) \in Nat
      BY <3>1
    <3> QED BY ONLY <3>1, <3>2 DEF Along
  <2> QED BY <1>1, <2>2
<1> HIDE DEF s, r
<1>4. s # <<>> /\ Head(s) = s[1] /\ s[1] = a[p[1]]
  BY <1>1, <1>2
<1>5. /\ Tail(s) \in Seq(S) /\ Len(Tail(s)) = Len(p) - 1
      /\ \A i \in 1 .. Len(p) - 1 : Tail(s)[i] = s[i + 1]
  BY <1>1, <1>2
<1>6. \A i \in 1 .. Len(p) - 1 : r[i] = Tail(s)[i]
  BY <1>1, <1>2, <1>3, <1>5
<1>7. r = Tail(s)
  BY <1>3, <1>5, <1>6, SeqEqual
<1> QED BY <1>1, <1>4, <1>7 DEF s, r

(* The two ways of writing down that something joins a list.               *)
LEMMA InsertsAt ==
  ASSUME NEW S, NEW s \in Seq(S), NEW k \in 1 .. Len(s) + 1, NEW v \in S
  PROVE  PromisedPdq!InsertAt(s, k, v) = InsertBefore(s, k, v)
<1> DEFINE x == Channel!InsertAt(s, k, v)
           y == InsertBefore(s, k, v)
<1>1. PromisedPdq!InsertAt(s, k, v) = x
  BY DEF PromisedPdq!InsertAt, Channel!InsertAt
<1>2. /\ x \in Seq(S) /\ Len(x) = Len(s) + 1
      /\ \A i \in 1 .. Len(s) + 1 :
           x[i] = IF i < k THEN s[i] ELSE IF i = k THEN v ELSE s[i - 1]
  <2> HIDE DEF y
  <2>0. s \in Seq(S) /\ k \in 1 .. Len(s) + 1 /\ v \in S
    OBVIOUS
  <2>1. x \in Seq(S)
    BY ONLY <2>0, InsertedAt
  <2>2. Len(x) = Len(s) + 1
    BY ONLY <2>0, InsertedAt
  <2>3. \A i \in 1 .. Len(s) + 1 : x[i] = IF i < k THEN s[i] ELSE IF i = k THEN v ELSE s[i - 1]
    BY ONLY <2>0, InsertedAt
  <2> QED BY <2>1, <2>2, <2>3
<1>3. /\ y \in Seq(S) /\ Len(y) = Len(s) + 1
      /\ \A i \in 1 .. Len(s) + 1 :
           y[i] = IF i < k THEN s[i] ELSE IF i = k THEN v ELSE s[i - 1]
  BY InsertBeforeShape
<1> HIDE DEF x, y
<1>4. x = y
  BY <1>2, <1>3, SeqEqual
<1> QED BY <1>1, <1>4 DEF y

(* An element that leaves takes along what is said of it.                  *)
LEMMA AlongLeft ==
  ASSUME NEW T, NEW p \in Seq(T), NEW t \in T, Member(p, t), NEW a
  PROVE  \E k \in 1 .. Len(p) :
           /\ Along(p, a)[k] = a[t]
           /\ Along(Delete(p, t), a) = PromisedPdq!RemoveAt(Along(p, a), k)
<1> DEFINE S == {a[p[i]] : i \in 1 .. Len(p)}
           s == Along(p, a)
           d == Delete(p, t)
           k == CHOOSE i \in 1 .. Len(p) : p[i] = t
           r == Along(d, a)
           m == PromisedPdq!RemoveAt(s, k)
<1>1. Len(p) \in Nat /\ k \in 1 .. Len(p) /\ p[k] = t
  BY DEF Member
<1>2. /\ d \in Seq(T) /\ Len(d) = Len(p) - 1
      /\ \A i \in 1 .. Len(p) - 1 : d[i] = IF i < k THEN p[i] ELSE p[i + 1]
  <2>1. d \in Seq(T)
    BY DeleteType
  <2>2. d = [i \in 1 .. Len(p) - 1 |-> IF i < k THEN p[i] ELSE p[i + 1]]
    BY DEF Delete
  <2> HIDE DEF d, k
  <2>3. DOMAIN d = 1 .. Len(p) - 1
    BY <2>2
  <2>4. Len(d) = Len(p) - 1
    BY <1>1, <2>1, <2>3
  <2> QED BY <2>1, <2>2, <2>4
<1>0. \A i \in 1 .. Len(p) : a[p[i]] \in S
  OBVIOUS
<1> HIDE DEF S, s, d, k, r, m
<1>3. s \in Seq(S) /\ Len(s) = Len(p) /\ \A i \in 1 .. Len(p) : s[i] = a[p[i]]
  <2>1. p \in Seq(T) /\ \A i \in 1 .. Len(p) : a[p[i]] \in S
    BY <1>0
  <2>2. Len(p) \in Nat
    BY <2>1
  <2> QED BY ONLY <2>1, <2>2 DEF s, Along
<1>4. r \in Seq(S) /\ Len(r) = Len(p) - 1 /\ \A i \in 1 .. Len(p) - 1 : r[i] = a[d[i]]
  <2>1. \A i \in 1 .. Len(d) : a[d[i]] \in S
    <3> SUFFICES ASSUME NEW i \in 1 .. Len(d) PROVE a[d[i]] \in S
      OBVIOUS
    <3>1. i \in 1 .. Len(p) /\ i + 1 \in 1 .. Len(p) /\ (d[i] = p[i] \/ d[i] = p[i + 1])
      BY <1>1, <1>2
    <3> QED BY <1>0, <3>1
  <2>3. Len(d) \in Nat
    BY <1>2
  <2>2. r \in Seq(S) /\ Len(r) = Len(d) /\ \A i \in 1 .. Len(d) : r[i] = a[d[i]]
    BY ONLY <1>2, <2>1, <2>3 DEF r, Along
  <2> QED BY <1>2, <2>2
<1>5. m = Channel!RemoveAt(s, k)
  BY DEF m, PromisedPdq!RemoveAt, Channel!RemoveAt
<1>6. /\ m \in Seq(S) /\ Len(m) = Len(s) - 1
      /\ \A i \in 1 .. Len(s) - 1 : m[i] = IF i < k THEN s[i] ELSE s[i + 1]
  <2>1. k \in 1 .. Len(s)
    BY <1>1, <1>3
  <2>2. m \in Seq(S)
    BY <1>3, <1>5, <2>1, RemovedAt
  <2>3. Len(m) = Len(s) - 1
    BY <1>3, <1>5, <2>1, RemovedAt
  <2>4. \A i \in 1 .. Len(s) - 1 : m[i] = IF i < k THEN s[i] ELSE s[i + 1]
    BY <1>3, <1>5, <2>1, RemovedAt
  <2> QED BY <2>2, <2>3, <2>4
<1>7. ASSUME NEW i \in 1 .. Len(p) - 1 PROVE r[i] = m[i]
  <2>1. /\ i \in 1 .. Len(p) /\ i + 1 \in 1 .. Len(p) /\ i \in 1 .. Len(s) - 1
    BY <1>1, <1>3
  <2>2. /\ r[i] = a[d[i]] /\ d[i] = IF i < k THEN p[i] ELSE p[i + 1]
        /\ m[i] = IF i < k THEN s[i] ELSE s[i + 1]
    BY ONLY <1>2, <1>4, <1>6, <2>1, i \in 1 .. Len(p) - 1
  <2>3. s[i] = a[p[i]] /\ s[i + 1] = a[p[i + 1]]
    BY ONLY <1>3, <2>1
  <2> QED BY ONLY <2>2, <2>3
<1>8. r = m
  <2>1. Len(r) = Len(m) /\ \A i \in 1 .. Len(r) : r[i] = m[i]
    BY <1>3, <1>4, <1>6, <1>7
  <2> QED BY <1>4, <1>6, <2>1, SeqEqual
<1>9. s[k] = a[t]
  BY <1>1, <1>3
<1> QED BY <1>1, <1>8, <1>9 DEF s, d, r, m
-----------------------------------------------------------------------------
(* A list in order stays so when one joins it behind its equals.           *)
LEMMA JoinsOrdered ==
  ASSUME NEW S, NEW s \in Seq(S), NEW rank \in [S -> Nat], NEW v \in S,
         NEW k \in 1 .. Len(s) + 1, PriorityOrdered(s, rank),
         \A j \in 1 .. k - 1 : rank[s[j]] <= rank[v],
         k <= Len(s) => rank[v] < rank[s[k]]
  PROVE  /\ \A j \in k .. Len(s) : rank[s[j]] > rank[v]
         /\ PriorityOrdered(InsertBefore(s, k, v), rank)
<1> DEFINE p == InsertBefore(s, k, v)
           N == Len(s)
<1>1. /\ N \in Nat /\ k \in 1 .. N + 1 /\ rank[v] \in Nat
      /\ \A j \in 1 .. N : rank[s[j]] \in Nat
  OBVIOUS
<1>2. /\ Len(p) = N + 1
      /\ \A i \in 1 .. N + 1 : p[i] = IF i < k THEN s[i] ELSE IF i = k THEN v ELSE s[i - 1]
  <2>1. s \in Seq(S) /\ v \in S /\ k \in 1 .. Len(s) + 1
    OBVIOUS
  <2>2. Len(InsertBefore(s, k, v)) = Len(s) + 1
    BY ONLY <2>1, InsertBeforeShape
  <2>3. \A i \in 1 .. Len(s) + 1 :
          InsertBefore(s, k, v)[i] = IF i < k THEN s[i] ELSE IF i = k THEN v ELSE s[i - 1]
    BY ONLY <2>1, InsertBeforeShape
  <2> QED BY ONLY <2>2, <2>3
<1>3. \A i, j \in 1 .. N : i < j => rank[s[i]] <= rank[s[j]]
  BY DEF PriorityOrdered
<1>4. /\ \A j \in 1 .. k - 1 : rank[s[j]] <= rank[v]
      /\ k <= N => rank[v] < rank[s[k]]
  OBVIOUS
<1> HIDE DEF p, N
<1>5. \A j \in k .. N : rank[s[j]] > rank[v]
  <2> SUFFICES ASSUME NEW j \in k .. N PROVE rank[s[j]] > rank[v]
    OBVIOUS
  <2>1. k \in 1 .. N /\ j \in 1 .. N /\ (j = k \/ k < j) /\ k <= N
    BY ONLY <1>1, j \in k .. N
  <2>2. rank[s[k]] <= rank[s[j]]
    BY <1>1, <1>3, <2>1
  <2> QED BY <1>1, <1>4, <2>1, <2>2
<1>6. ASSUME NEW i \in 1 .. N + 1, NEW j \in 1 .. N + 1, i < j PROVE rank[p[i]] <= rank[p[j]]
  <2>1. CASE j < k
    <3>1. /\ i \in 1 .. N /\ j \in 1 .. N /\ i < k /\ p[i] = s[i] /\ p[j] = s[j]
      BY <1>1, <1>2, <1>6, <2>1
    <3> QED BY <1>3, <1>6, <3>1
  <2>2. CASE j = k
    <3>1. i \in 1 .. k - 1 /\ p[i] = s[i] /\ p[j] = v
      BY <1>1, <1>2, <1>6, <2>2
    <3> QED BY <1>4, <3>1
  <2>3. CASE j > k
    <3>1. j - 1 \in k .. N /\ j - 1 \in 1 .. N /\ p[j] = s[j - 1]
      BY <1>1, <1>2, <1>6, <2>3
    <3>2. rank[s[j - 1]] > rank[v] /\ rank[s[j - 1]] \in Nat
      BY <1>1, <1>5, <3>1
    <3>3. CASE i < k
      <4>1. i \in 1 .. k - 1 /\ i \in 1 .. N /\ p[i] = s[i]
        <5>1. N \in Nat /\ k \in 1 .. N + 1 /\ i \in 1 .. N + 1 /\ i < k
          BY <1>1, <3>3
        <5>2. i \in 1 .. k - 1 /\ i \in 1 .. N
          BY ONLY <5>1
        <5>3. p[i] = s[i]
          BY ONLY <1>2, <5>1, Zenon
        <5> QED BY ONLY <5>2, <5>3, Zenon
      <4>2. rank[s[i]] <= rank[v] /\ rank[s[i]] \in Nat
        BY <1>1, <1>4, <4>1
      <4> QED BY <1>1, <3>1, <3>2, <4>1, <4>2, SMTT(60)
    <3>4. CASE i = k
      <4>1. p[i] = v
        BY <1>1, <1>2, <3>4
      <4> QED BY <1>1, <3>1, <3>2, <4>1, SMTT(60)
    <3>5. CASE i > k
      <4>1. i - 1 \in 1 .. N /\ p[i] = s[i - 1] /\ i - 1 < j - 1
        BY <1>1, <1>2, <1>6, <3>5
      <4> QED BY <1>3, <3>1, <4>1
    <3> QED BY <1>1, <3>3, <3>4, <3>5
  <2> QED BY <1>1, <2>1, <2>2, <2>3
<1>7. PriorityOrdered(p, rank)
  BY <1>2, <1>6 DEF PriorityOrdered
<1> QED BY <1>5, <1>7 DEF p, N

(* The management blocks of a priority data queue with n of them: linked   *)
(* in p_head's list with their data in order, in p_freelist, or not yet    *)
(* used.                                                                   *)
Block(n) == 0 .. n - 1
Blocks(n) ==
  {c \in [queue : Seq(Block(n)), free : Seq(Block(n)), unused : 0 .. n,
          pdqmb : [Block(n) -> Pridata \cup {NoPridata}]] :
     /\ NoDuplicate(c.queue) /\ NoDuplicate(c.free)
     /\ \A b \in Block(n) : ~ (Member(c.queue, b) /\ Member(c.free, b))
     /\ \A b \in Block(n) : Member(c.queue, b) \/ Member(c.free, b) => b < c.unused
     /\ Len(c.queue) + Len(c.free) = c.unused
     /\ \A i \in 1 .. Len(c.queue) : c.pdqmb[c.queue[i]] \in Pridata
     /\ PriorityOrdered(Stored(c), datapri)}

(* What there is to know of the data in the blocks.                        *)
LEMMA BlockFacts ==
  ASSUME NEW n \in Nat, NEW c \in Blocks(n)
  PROVE  /\ Stored(c) \in Seq(Pridata) /\ Len(Stored(c)) = count(c) /\ count(c) \in 0 .. n
         /\ Stored(c) = <<>> <=> c.queue = <<>>
         /\ \A i \in 1 .. count(c) : Stored(c)[i] = c.pdqmb[c.queue[i]]
<1>1. /\ c.queue \in Seq(Block(n)) /\ Len(c.queue) \in Nat /\ Len(c.free) \in Nat
      /\ c.unused \in 0 .. n /\ Len(c.queue) + Len(c.free) = c.unused
      /\ \A i \in 1 .. Len(c.queue) : c.pdqmb[c.queue[i]] \in Pridata
  BY DEF Blocks
<1>2. count(c) \in 0 .. n
  <2> DEFINE x == Len(c.queue)
             y == Len(c.free)
             z == c.unused
  <2>1. x \in Nat /\ y \in Nat /\ z \in 0 .. n /\ x + y = z /\ count(c) = x
    BY <1>1 DEF count
  <2> HIDE DEF x, y, z
  <2> QED BY <2>1
<1>3. /\ Stored(c) \in Seq(Pridata) /\ Len(Stored(c)) = count(c)
      /\ \A i \in 1 .. count(c) : Stored(c)[i] = c.pdqmb[c.queue[i]]
  BY <1>1 DEF Stored, Along, count
<1>4. c.queue = <<>> <=> count(c) = 0
  BY <1>1 DEF count
<1>5. Stored(c) = <<>> <=> Len(Stored(c)) = 0
  BY <1>3
<1> QED BY <1>2, <1>3, <1>4, <1>5

(* Where a new datum is linked.                                            *)
LEMMA PositionFound ==
  ASSUME NEW n \in Nat, NEW c \in Blocks(n), NEW v \in Pridata
  PROVE  /\ Position(c, v) \in 1 .. count(c) + 1
         /\ \A j \in 1 .. Position(c, v) - 1 : datapri[Stored(c)[j]] <= datapri[v]
         /\ Position(c, v) <= count(c) => datapri[v] < datapri[Stored(c)[Position(c, v)]]
<1> DEFINE s == Stored(c)
           P(i) == /\ \A j \in 1 .. i - 1 : datapri[s[j]] <= datapri[v]
                   /\ i <= count(c) => datapri[v] < datapri[s[i]]
<1>1. s \in Seq(Pridata) /\ Len(s) = count(c)
  BY BlockFacts
<1>2. datapri \in [Pridata -> Nat]
  BY PridataqAssumption
<1>3. \E i \in 1 .. Len(s) + 1 : IsInsertPoint(s, datapri, v, i)
  <2> HIDE DEF s
  <2> QED BY <1>1, <1>2, InsertPointExists
<1>4. \E i \in 1 .. count(c) + 1 : P(i)
  BY <1>1, <1>3 DEF IsInsertPoint
<1>5. Position(c, v) = CHOOSE i \in 1 .. count(c) + 1 : P(i)
  BY DEF Position
<1> HIDE DEF P
<1>6. Position(c, v) \in 1 .. count(c) + 1 /\ P(Position(c, v))
  BY <1>4, <1>5
<1> QED BY <1>6 DEF P

(* r is s with v behind its equals.                                        *)
JoinsInOrder(s, v, r) ==
  \E k \in 1 .. Len(s) + 1 :
    /\ r = InsertBefore(s, k, v)
    /\ \A j \in 1 .. k - 1 : datapri[s[j]] <= datapri[v]
    /\ \A j \in k .. Len(s) : datapri[s[j]] > datapri[v]

(* A datum is linked in its place, in a block that is in neither list.     *)
LEMMA EnqueuesPdq ==
  ASSUME NEW n \in Nat, NEW c \in Blocks(n), count(c) < n, NEW v \in Pridata,
         NEW e, e = enqueuePridata(c, v)
  PROVE  /\ e \in Blocks(n) /\ count(e) = count(c) + 1
         /\ JoinsInOrder(Stored(c), v, Stored(e))
<1> DEFINE q == c.queue
           f == c.free
           u == c.unused
           m == c.pdqmb
           s == Stored(c)
           k == Position(c, v)
           b == NextBlockPdq(c)
           g == IF f # <<>> THEN Tail(f) ELSE f
           w == IF f # <<>> THEN u ELSE u + 1
           B == Block(n)
           p == InsertBefore(q, k, b)
           a == [m EXCEPT ![b] = v]
<1>1. /\ c = [queue |-> q, free |-> f, unused |-> u, pdqmb |-> m]
      /\ q \in Seq(B) /\ f \in Seq(B) /\ u \in 0 .. n /\ m \in [B -> Pridata \cup {NoPridata}]
      /\ NoDuplicate(q) /\ NoDuplicate(f)
      /\ \A x \in B : ~ (Member(q, x) /\ Member(f, x))
      /\ \A x \in B : Member(q, x) \/ Member(f, x) => x < u
      /\ Len(q) + Len(f) = u
      /\ \A i \in 1 .. Len(q) : m[q[i]] \in Pridata
      /\ PriorityOrdered(s, datapri)
  BY DEF Blocks
<1>2. /\ s \in Seq(Pridata) /\ Len(s) = Len(q) /\ Len(q) \in Nat
      /\ s = Along(q, m)
  BY BlockFacts DEF Stored, count
<1>3. /\ k \in 1 .. Len(q) + 1
      /\ \A j \in 1 .. k - 1 : datapri[s[j]] <= datapri[v]
      /\ k <= Len(q) => datapri[v] < datapri[s[k]]
  BY PositionFound DEF count
<1>4. Len(q) < n
  BY DEF count
<1>5. e = [queue |-> p, free |-> g, unused |-> w, pdqmb |-> a]
  <2>1. TakenBlock(c) = [queue |-> q, free |-> g, unused |-> w, pdqmb |-> m]
    BY <1>1 DEF TakenBlock
  <2>2. e = [TakenBlock(c) EXCEPT !.pdqmb[b] = v, !.queue = InsertBefore(@, k, b)]
    BY DEF enqueuePridata
  <2> HIDE DEF q, f, u, m, k, b, g, w, p
  <2>3. e = [[queue |-> q, free |-> g, unused |-> w, pdqmb |-> m]
               EXCEPT !.pdqmb[b] = v, !.queue = InsertBefore(@, k, b)]
    BY <2>1, <2>2
  <2>4. e = [queue |-> InsertBefore(q, k, b), free |-> g, unused |-> w, pdqmb |-> a]
    BY ONLY <2>3
  <2> QED BY <2>4 DEF p
<1>6. b = IF f # <<>> THEN Head(f) ELSE u
  BY DEF NextBlockPdq
<1>7. B = 0 .. n - 1
  BY DEF Block
<1> HIDE DEF q, f, u, m, s, k, b, B
<1>8. /\ b \in B /\ ~ Member(q, b)
      /\ g \in Seq(B) /\ NoDuplicate(g) /\ \A x \in B : Member(g, x) => Member(f, x) /\ x # b
      /\ w \in 0 .. n /\ b < w /\ u <= w /\ Len(q) + 1 + Len(g) = w
  <2>1. CASE f # <<>>
    <3>1. b = f[1] /\ g = Tail(f) /\ w = u /\ Len(g) = Len(f) - 1 /\ Len(f) \in Nat
      BY <1>1, <1>6, <2>1
    <3>2. /\ f[1] \in B /\ Member(f, f[1])
          /\ Tail(f) \in Seq(B) /\ NoDuplicate(Tail(f))
          /\ \A x : Member(Tail(f), x) <=> Member(f, x) /\ x # f[1]
      BY ONLY <1>1, <2>1, TailQueue
    <3> HIDE DEF g, w
    <3>3. b < u /\ ~ Member(q, b)
      BY <1>1, <3>1, <3>2
    <3>4. Len(q) + 1 + Len(g) = w
      <4> DEFINE x == Len(q)
                 y == Len(f)
      <4>1. x \in Nat /\ y \in Nat /\ x + y = u /\ Len(g) = y - 1 /\ w = u
        BY <1>1, <1>2, <3>1
      <4> HIDE DEF x, y
      <4>2. x + 1 + Len(g) = w
        BY ONLY <4>1
      <4> QED BY <4>2 DEF x
    <3> QED BY <1>1, <3>1, <3>2, <3>3, <3>4
  <2>2. CASE f = <<>>
    <3>1. b = u /\ g = f /\ w = u + 1 /\ Len(f) = 0
      BY <1>6, <2>2
    <3> HIDE DEF g, w
    <3>2. u = Len(q) /\ u \in 0 .. n - 1
      BY <1>1, <1>2, <1>4, <3>1
    <3>3. b \in B /\ ~ Member(q, b)
      BY <1>1, <1>7, <3>1, <3>2
    <3>4. \A x \in B : ~ Member(f, x)
      BY <1>1, <2>2 DEF Member
    <3> QED BY <1>1, <1>2, <3>1, <3>2, <3>3, <3>4
  <2> QED BY <2>1, <2>2
<1>9. /\ p \in Seq(B) /\ NoDuplicate(p) /\ \A x : Member(p, x) <=> Member(q, x) \/ x = b
      /\ Len(p) = Len(q) + 1
  <2>1. q \in Seq(B) /\ b \in B /\ k \in 1 .. Len(q) + 1 /\ NoDuplicate(q) /\ ~ Member(q, b)
    BY <1>1, <1>3, <1>8
  <2>2. p \in Seq(B) /\ NoDuplicate(p)
    BY ONLY <2>1, InsertBeforeProperties
  <2>3. \A x : Member(p, x) <=> Member(q, x) \/ x = b
    BY ONLY <2>1, InsertBeforeProperties
  <2>4. Len(p) = Len(q) + 1
    BY ONLY <2>1, InsertBeforeShape
  <2> QED BY <2>2, <2>3, <2>4
<1>10. /\ a \in [B -> Pridata \cup {NoPridata}] /\ a[b] = v
       /\ \A i \in 1 .. Len(q) : q[i] # b /\ m[q[i]] \in Pridata /\ a[q[i]] = m[q[i]]
  <2>1. \A i \in 1 .. Len(q) : q[i] # b /\ q[i] \in B
    BY <1>1, <1>8 DEF Member
  <2> QED BY <1>1, <1>8, <2>1
<1> HIDE DEF g, w, p, a
<1>11. Along(p, a) = InsertBefore(s, k, v)
  <2>1. /\ q \in Seq(B) /\ b \in B /\ k \in 1 .. Len(q) + 1 /\ a[b] \in Pridata
        /\ \A i \in 1 .. Len(q) : m[q[i]] \in Pridata /\ a[q[i]] = m[q[i]]
    BY <1>1, <1>3, <1>8, <1>10
  <2>2. Along(InsertBefore(q, k, b), a) = InsertBefore(Along(q, m), k, a[b])
    BY ONLY <2>1, AlongInserted
  <2> QED BY <1>2, <1>10, <2>2 DEF p
<1>12. /\ \A j \in k .. Len(s) : datapri[s[j]] > datapri[v]
       /\ PriorityOrdered(InsertBefore(s, k, v), datapri)
  <2>1. /\ s \in Seq(Pridata) /\ datapri \in [Pridata -> Nat] /\ v \in Pridata
        /\ k \in 1 .. Len(s) + 1 /\ PriorityOrdered(s, datapri)
        /\ \A j \in 1 .. k - 1 : datapri[s[j]] <= datapri[v]
        /\ k <= Len(s) => datapri[v] < datapri[s[k]]
    BY <1>1, <1>2, <1>3, PridataqAssumption
  <2>2. \A j \in k .. Len(s) : datapri[s[j]] > datapri[v]
    BY ONLY <2>1, JoinsOrdered
  <2>3. PriorityOrdered(InsertBefore(s, k, v), datapri)
    BY ONLY <2>1, JoinsOrdered
  <2> QED BY <2>2, <2>3
<1>13. /\ e.queue = p /\ e.free = g /\ e.unused = w /\ e.pdqmb = a
       /\ Stored(e) = InsertBefore(s, k, v) /\ count(e) = Len(q) + 1
  BY <1>5, <1>9, <1>11 DEF Stored, count
<1>14. \A i \in 1 .. Len(p) : a[p[i]] \in Pridata
  <2> SUFFICES ASSUME NEW i \in 1 .. Len(p) PROVE a[p[i]] \in Pridata
    OBVIOUS
  <2>1. Member(p, p[i])
    BY DEF Member
  <2>2. p[i] = b \/ \E j \in 1 .. Len(q) : p[i] = q[j]
    BY <1>9, <2>1 DEF Member
  <2> QED BY <1>10, <2>2
<1>15. e \in Blocks(n)
  <2>1. e \in [queue : Seq(B), free : Seq(B), unused : 0 .. n, pdqmb : [B -> Pridata \cup {NoPridata}]]
    BY <1>5, <1>8, <1>9, <1>10
  <2>2. \A x \in B : ~ (Member(p, x) /\ Member(g, x))
    BY <1>1, <1>8, <1>9
  <2>3. \A x \in B : Member(p, x) \/ Member(g, x) => x < w
    <3> SUFFICES ASSUME NEW x \in B, Member(p, x) \/ Member(g, x) PROVE x < w
      OBVIOUS
    <3>1. x = b \/ x < u
      BY <1>1, <1>8, <1>9
    <3> QED BY <1>1, <1>7, <1>8, <3>1
  <2>4. Len(p) + Len(g) = w
    BY <1>8, <1>9
  <2>5. PriorityOrdered(Stored(e), datapri)
    BY <1>12, <1>13
  <2> QED BY <1>8, <1>9, <1>13, <1>14, <2>1, <2>2, <2>3, <2>4, <2>5 DEF Blocks, B
<1>16. count(e) = count(c) + 1
  BY <1>13 DEF count, q
<1>17. JoinsInOrder(s, v, Stored(e))
  <2>1. k \in 1 .. Len(s) + 1 /\ \A j \in 1 .. k - 1 : datapri[s[j]] <= datapri[v]
    BY <1>2, <1>3
  <2> QED BY <1>12, <1>13, <2>1 DEF JoinsInOrder
<1> QED BY <1>15, <1>16, <1>17 DEF s

(* The block of the first datum is given back.                             *)
LEMMA DequeuesPdq ==
  ASSUME NEW n \in Nat, NEW c \in Blocks(n), count(c) > 0, NEW e, e = dequeuePridata(c)
  PROVE  /\ e \in Blocks(n) /\ count(e) = count(c) - 1
         /\ Stored(c) # <<>> /\ Stored(e) = Tail(Stored(c))
         /\ c.pdqmb[Head(c.queue)] = Head(Stored(c)) /\ Head(Stored(c)) \in Pridata
<1> DEFINE q == c.queue
           f == c.free
           u == c.unused
           m == c.pdqmb
           s == Stored(c)
           p == Tail(q)
           g == <<Head(q)>> \o f
           B == Block(n)
<1>1. /\ c = [queue |-> q, free |-> f, unused |-> u, pdqmb |-> m]
      /\ q \in Seq(B) /\ f \in Seq(B) /\ u \in 0 .. n /\ m \in [B -> Pridata \cup {NoPridata}]
      /\ NoDuplicate(q) /\ NoDuplicate(f)
      /\ \A x \in B : ~ (Member(q, x) /\ Member(f, x))
      /\ \A x \in B : Member(q, x) \/ Member(f, x) => x < u
      /\ Len(q) + Len(f) = u
      /\ \A i \in 1 .. Len(q) : m[q[i]] \in Pridata
      /\ PriorityOrdered(s, datapri)
  BY DEF Blocks
<1>2. /\ s \in Seq(Pridata) /\ Len(s) = Len(q) /\ s = Along(q, m) /\ Len(q) > 0 /\ Len(q) \in Nat
  BY BlockFacts DEF Stored, count
<1>3. e = [queue |-> p, free |-> g, unused |-> u, pdqmb |-> m]
  BY <1>1 DEF dequeuePridata
<1> HIDE DEF q, f, u, m, s, B
<1>4. q # <<>> /\ Head(q) = q[1] /\ Len(p) = Len(q) - 1 /\ \A i \in 1 .. Len(p) : p[i] = q[i + 1]
  BY <1>1, <1>2
<1>5. /\ q[1] \in B /\ Member(q, q[1]) /\ p \in Seq(B) /\ NoDuplicate(p)
      /\ \A x : Member(p, x) <=> Member(q, x) /\ x # q[1]
  BY ONLY <1>1, <1>4, TailQueue
<1>6. /\ g \in Seq(B) /\ NoDuplicate(g) /\ \A x : Member(g, x) <=> Member(f, x) \/ x = q[1]
      /\ Len(g) = Len(f) + 1
  <2> DEFINE h == q[1]
  <2>1. f \in Seq(B) /\ h \in B /\ NoDuplicate(f) /\ ~ Member(f, h) /\ g = <<h>> \o f
    BY <1>1, <1>4, <1>5
  <2> HIDE DEF h, g
  <2>2. g \in Seq(B) /\ NoDuplicate(g) /\ \A x : Member(g, x) <=> Member(f, x) \/ x = h
    BY ONLY <2>1, PushProperties
  <2>3. Len(g) = Len(f) + 1
    BY ONLY <2>1
  <2> QED BY <2>2, <2>3 DEF h
<1> HIDE DEF p, g
<1>7. s # <<>> /\ Head(s) = m[q[1]] /\ Along(p, m) = Tail(s)
  <2> DEFINE a == m
             o == m
  <2>1. q \in Seq(B) /\ q # <<>> /\ \A i \in 1 .. Len(q) : o[q[i]] = a[q[i]]
    BY <1>1, <1>4
  <2> HIDE DEF a, o
  <2>4. Along(q, a) # <<>> /\ Head(Along(q, a)) = a[Head(q)]
    BY ONLY <2>1, AlongTail
  <2>5. Along(Tail(q), o) = Tail(Along(q, a))
    BY ONLY <2>1, AlongTail
  <2>2. Along(q, m) # <<>> /\ Head(Along(q, m)) = m[Head(q)]
    BY <2>4 DEF a
  <2>3. Along(Tail(q), m) = Tail(Along(q, m))
    BY <2>5 DEF a, o
  <2> QED BY <1>2, <1>4, <2>2, <2>3 DEF p
<1>8. Head(s) \in Pridata
  BY <1>1, <1>2, <1>7
<1>9. /\ e.queue = p /\ e.free = g /\ e.unused = u /\ e.pdqmb = m
      /\ Stored(e) = Tail(s) /\ count(e) = Len(q) - 1
  BY <1>3, <1>4, <1>7 DEF Stored, count
<1>10. e \in Blocks(n)
  <2>1. e \in [queue : Seq(B), free : Seq(B), unused : 0 .. n, pdqmb : [B -> Pridata \cup {NoPridata}]]
    BY <1>1, <1>3, <1>5, <1>6
  <2>2. \A x \in B : ~ (Member(p, x) /\ Member(g, x))
    BY <1>1, <1>5, <1>6
  <2>3. \A x \in B : Member(p, x) \/ Member(g, x) => x < u
    BY <1>1, <1>5, <1>6
  <2>4. Len(p) + Len(g) = u
    <3> DEFINE x == Len(q)
               y == Len(f)
    <3>1. x \in Nat /\ y \in Nat /\ x + y = u /\ Len(p) = x - 1 /\ Len(g) = y + 1
      BY <1>1, <1>2, <1>4, <1>6
    <3> HIDE DEF x, y
    <3> QED BY ONLY <3>1
  <2>5. PriorityOrdered(Tail(s), datapri)
    BY <1>1, <1>2, <1>7, TailOrdered
  <2>6. \A i \in 1 .. Len(p) : m[p[i]] \in Pridata
    BY <1>1, <1>2, <1>4
  <2>7. /\ e \in [queue : Seq(B), free : Seq(B), unused : 0 .. n, pdqmb : [B -> Pridata \cup {NoPridata}]]
        /\ NoDuplicate(e.queue) /\ NoDuplicate(e.free)
        /\ \A x \in B : ~ (Member(e.queue, x) /\ Member(e.free, x))
        /\ \A x \in B : Member(e.queue, x) \/ Member(e.free, x) => x < e.unused
        /\ Len(e.queue) + Len(e.free) = e.unused
        /\ \A i \in 1 .. Len(e.queue) : e.pdqmb[e.queue[i]] \in Pridata
        /\ PriorityOrdered(Stored(e), datapri)
    BY ONLY <1>5, <1>6, <1>9, <2>1, <2>2, <2>3, <2>4, <2>5, <2>6, Zenon
  <2> QED BY ONLY <2>7 DEF Blocks, B
<1> QED BY <1>2, <1>4, <1>7, <1>8, <1>9, <1>10 DEF q, m, s, count

(* No blocks are in use when the queue is initialised.                     *)
LEMMA ClearsPdq ==
  ASSUME NEW n \in Nat, NEW m \in [Block(n) -> Pridata \cup {NoPridata}], NEW e,
         e = [queue |-> <<>>, free |-> <<>>, unused |-> 0, pdqmb |-> m]
  PROVE  e \in Blocks(n) /\ Stored(e) = <<>>
<1>1. /\ e.queue = <<>> /\ e.free = <<>> /\ e.unused = 0 /\ e.pdqmb = m
      /\ e \in [queue : Seq(Block(n)), free : Seq(Block(n)), unused : 0 .. n,
                pdqmb : [Block(n) -> Pridata \cup {NoPridata}]]
  OBVIOUS
<1>2. Stored(e) = <<>>
  BY <1>1 DEF Stored, Along
<1>3. /\ NoDuplicate(<<>>) /\ \A b : ~ Member(<<>>, b)
      /\ PriorityOrdered(<<>>, datapri) /\ Len(<<>>) = 0 /\ 1 .. 0 = {}
  BY DEF NoDuplicate, Member, PriorityOrdered
<1> QED BY <1>1, <1>2, <1>3 DEF Blocks
-----------------------------------------------------------------------------
(* The blocks of each priority data queue are in order, who waits to send  *)
(* has a datum, and senders and receivers never wait together.             *)
PdqInv ==
  /\ pdqcb \in [Pridataq -> UNION {Blocks(pdqcnt[q]) : q \in Pridataq}]
  /\ \A q \in Pridataq : pdqcb[q] \in Blocks(pdqcnt[q])
  /\ pridata \in [Task -> Pridata \cup {NoPridata}]
  /\ \A t \in Task : waiton[t] \in Pridataq => pridata[t] \in Pridata
  /\ \A q \in Pridataq : wait_queue[q] = <<>> \/ wait_queue[rwaitPdq[q]] = <<>>

(* The kinds of steps of the priority data queues.                         *)
PdqQuiet == (KernelCall \/ UNCHANGED vars) /\ UNCHANGED pdqOwn
PdqHands(q, v) ==
  /\ QueueServe(rwaitPdq[q])
  /\ pridata' = [pridata EXCEPT ![PdqReceiver(q)] = v] /\ UNCHANGED pdqcb
PdqStores(q, v) ==
  /\ wait_queue[rwaitPdq[q]] = <<>> /\ PdqHasRoom(q) /\ UNCHANGED vars /\ UNCHANGED pridata
  /\ pdqcb' = [pdqcb EXCEPT ![q] = enqueuePridata(@, v)]
PdqTakes(q) ==
  /\ count(pdqcb[q]) > 0 /\ runtsk \in Task /\ waiton[runtsk] = "NONE"
  /\ pridata' = [pridata EXCEPT ![runtsk] = FirstPridata(q)]
  /\ pdqcb' = [pdqcb EXCEPT ![q] = RefilledPdq(q)]
  /\ \/ wait_queue[q] = <<>> /\ UNCHANGED vars
     \/ QueueServe(q)
PdqPasses(q) ==
  /\ count(pdqcb[q]) = 0 /\ runtsk \in Task /\ waiton[runtsk] = "NONE" /\ QueueServe(q)
  /\ pridata' = [pridata EXCEPT ![runtsk] = pridata[PdqSender(q)]] /\ UNCHANGED pdqcb
PdqSendWaits(q, v) ==
  /\ wait_queue[rwaitPdq[q]] = <<>> /\ ~ PdqHasRoom(q) /\ QueueWait(q)
  /\ pridata' = [pridata EXCEPT ![runtsk] = v] /\ UNCHANGED pdqcb
PdqReceiveWaits(q) ==
  /\ count(pdqcb[q]) = 0 /\ wait_queue[q] = <<>>
  /\ QueueWait(rwaitPdq[q]) /\ UNCHANGED pdqOwn
PdqResets(q) ==
  /\ \/ QueueClear(q) /\ wait_queue[rwaitPdq[q]] = <<>>
     \/ QueueClear(rwaitPdq[q]) /\ wait_queue[q] = <<>>
  /\ pdqcb' = [pdqcb EXCEPT ![q].queue = <<>>, ![q].free = <<>>, ![q].unused = 0]
  /\ UNCHANGED pridata

PdqStep(q) ==
  \/ \E v \in Pridata : PdqHands(q, v) \/ PdqStores(q, v) \/ PdqSendWaits(q, v)
  \/ PdqTakes(q) \/ PdqPasses(q) \/ PdqReceiveWaits(q) \/ PdqResets(q)

(* What the two wait queues of a priority data queue are.                  *)
LEMMA PdqQueues ==
  /\ \A q \in Pridataq : q \in Wobj \ Mutex /\ rwaitPdq[q] \in Wobj \ Mutex
  /\ \A q, o \in Pridataq : rwaitPdq[q] # o /\ (rwaitPdq[q] = rwaitPdq[o] => q = o)
  /\ \A q \in Pridataq : pdqcnt[q] \in Nat /\ rwaitPdq[q] \notin TpriWobj
  /\ "NONE" \notin Pridataq
BY PridataqAssumption, ConfigAssumption

(* Every step of the priority data queues is one of these.                 *)
LEMMA PridataqSteps ==
  ASSUME IInv, PdqInv, [PdqNext]_pdqVars
  PROVE  PdqQuiet \/ \E q \in Pridataq : PdqStep(q)
<1>1. CASE (KernelCall /\ UNCHANGED pdqOwn) \/ UNCHANGED pdqVars
  BY <1>1 DEF PdqQuiet, pdqVars
<1>2. ASSUME NEW q \in Pridataq, NEW v \in Pridata, sendPridata(q, v)
      PROVE  PdqHands(q, v) \/ PdqStores(q, v)
  BY <1>2, NoneReleased DEF sendPridata, PdqHands, PdqStores, QueueServe
<1>3. ASSUME NEW q \in Pridataq, checkContextTaskUnlock, receivePridata(q)
      PROVE  PdqTakes(q) \/ PdqPasses(q)
  <2>1. runtsk \in Task /\ waiton[runtsk] = "NONE"
    BY <1>3, CallerRuns
  <2> QED BY <1>3, <2>1, NoneReleased DEF receivePridata, PdqTakes, PdqPasses, QueueServe
<1>4. ASSUME NEW q \in Pridataq, ini_pdq(q) PROVE PdqResets(q)
  <2> DEFINE r == rwaitPdq[q]
  <2>1. /\ q \in Wobj /\ r \in Wobj /\ q # r
        /\ wait_queue[q] = <<>> \/ wait_queue[r] = <<>>
    BY PdqQueues DEF PdqInv
  <2>2. \/ QueueClear(q) /\ wait_queue[r] = <<>>
        \/ QueueClear(r) /\ wait_queue[q] = <<>>
    BY <1>4, <2>1, BothReleased DEF ini_pdq
  <2> QED BY <1>4, <2>2 DEF ini_pdq, PdqResets
<1>5. ASSUME NEW q \in Pridataq,
             \/ prcv_pdq(q) \/ ini_pdq(q)
             \/ \E v \in Pridata : psnd_pdq(q, v)
             \/ \E timed \in BOOLEAN : rcv_pdq(q, timed) \/ \E v \in Pridata : snd_pdq(q, v, timed)
      PROVE  PdqStep(q)
  <2>1. prcv_pdq(q) => PdqStep(q)
    BY <1>3 DEF prcv_pdq, PdqStep
  <2>2. ini_pdq(q) => PdqStep(q)
    BY <1>4 DEF PdqStep
  <2>3. \A v \in Pridata : psnd_pdq(q, v) => PdqStep(q)
    BY <1>2 DEF psnd_pdq, PdqStep
  <2>4. \A timed \in BOOLEAN : rcv_pdq(q, timed) => PdqStep(q)
    BY <1>3 DEF rcv_pdq, checkDispatch, PdqStep, PdqReceiveWaits, QueueWait
  <2>5. \A timed \in BOOLEAN, v \in Pridata : snd_pdq(q, v, timed) => PdqStep(q)
    BY <1>2 DEF snd_pdq, PdqStep, PdqSendWaits, QueueWait
  <2> QED BY <1>5, <2>1, <2>2, <2>3, <2>4, <2>5
<1> QED BY <1>1, <1>5 DEF PdqNext, PridataqCall

(* A step keeps what holds below, serves every queue in order, receivers   *)
(* only when a datum is sent, and lets tasks wait only in their calls.     *)
LEMMA PridataqQueues ==
  ASSUME IInv, SInv, ResultPending, PdqInv, [PdqNext]_pdqVars
  PROVE  /\ IInv' /\ SInv' /\ ResultPending'
         /\ \A q \in Pridataq : FirstServed(q) /\ FirstServed(rwaitPdq[q])
         /\ \A q \in Pridataq, u \in Task :
              Served(rwaitPdq[q], u) =>
                \E v \in Pridata : PdqHands(q, v) /\ u = Head(wait_queue[rwaitPdq[q]])
         /\ \A q \in Pridataq : NobodyJoins(q) \/ \E v \in Pridata : PdqSendWaits(q, v)
         /\ \A q \in Pridataq : NobodyJoins(rwaitPdq[q]) \/ PdqReceiveWaits(q)
<1> DEFINE Order ==
             /\ [Next]_vars /\ ResultPending'
             /\ \A q \in Pridataq : FirstServed(q) /\ FirstServed(rwaitPdq[q])
             /\ \A q \in Pridataq, u \in Task :
                  Served(rwaitPdq[q], u) =>
                    \E v \in Pridata : PdqHands(q, v) /\ u = Head(wait_queue[rwaitPdq[q]])
             /\ \A q \in Pridataq : NobodyJoins(q) \/ \E v \in Pridata : PdqSendWaits(q, v)
             /\ \A q \in Pridataq : NobodyJoins(rwaitPdq[q]) \/ PdqReceiveWaits(q)
<1>1. \A w \in Wobj : NobodyServed(w) => FirstServed(w)
  <2>1. \A w \in Wobj : wait_queue[w] \in Seq(Task)
    BY DEF IInv, TypeOK
  <2> QED BY <2>1 DEF NobodyServed, FirstServed
<1>2. ASSUME KernelCall \/ UNCHANGED vars PROVE Order
  <2>1. ResultPending' /\ \A w \in Wobj \ Mutex : NobodyJoins(w) /\ NobodyServed(w)
    BY <1>2, KernelQueues
  <2> QED BY <1>1, <1>2, <2>1, PdqQueues DEF Next, NobodyServed
<1>3. ASSUME NEW w \in Wobj \ Mutex, QueueCall(w)
      PROVE  /\ [Next]_vars /\ ResultPending'
             /\ \A q \in Pridataq : FirstServed(q) /\ FirstServed(rwaitPdq[q])
             /\ \A v \in Wobj \ {w} : NobodyJoins(v) /\ NobodyServed(v)
             /\ \A u \in Task : Served(w, u) => QueueServe(w) /\ u = Head(wait_queue[w])
             /\ QueueServe(w) \/ QueueClear(w) => NobodyJoins(w)
  <2>1. /\ ObjectCall /\ ResultPending'
        /\ \A v \in Wobj \ {w} : NobodyJoins(v) /\ NobodyServed(v)
        /\ FirstServed(w)
        /\ \A u \in Task : Served(w, u) => QueueServe(w) /\ u = Head(wait_queue[w])
        /\ QueueServe(w) \/ QueueClear(w) => NobodyJoins(w)
    BY <1>3, QueueCalls
  <2>2. \A v \in Wobj : FirstServed(v)
    BY <1>1, <2>1
  <2> QED BY <2>1, <2>2, PdqQueues DEF Next
<1>4. ASSUME NEW q \in Pridataq, NEW v \in Pridata, PdqHands(q, v) PROVE Order
  <2>1. rwaitPdq[q] \in Wobj \ Mutex /\ QueueCall(rwaitPdq[q]) /\ QueueServe(rwaitPdq[q])
    BY <1>4, PdqQueues DEF PdqHands, QueueCall
  <2> QED BY <1>3, <1>4, <2>1, PdqQueues DEF NobodyServed
<1>5. ASSUME NEW q \in Pridataq, QueueServe(q) PROVE Order
  <2>1. q \in Wobj \ Mutex /\ QueueCall(q)
    BY <1>5, PdqQueues DEF QueueCall
  <2> QED BY <1>3, <1>5, <2>1, PdqQueues DEF NobodyServed
<1>6. ASSUME NEW q \in Pridataq, NEW v \in Pridata, PdqSendWaits(q, v) PROVE Order
  <2>1. q \in Wobj \ Mutex /\ QueueCall(q)
    BY <1>6, PdqQueues DEF QueueCall, PdqSendWaits
  <2> QED BY <1>3, <1>6, <2>1, PdqQueues DEF NobodyServed
<1>7. ASSUME NEW q \in Pridataq, PdqReceiveWaits(q) PROVE Order
  <2>1. rwaitPdq[q] \in Wobj \ Mutex /\ QueueWait(rwaitPdq[q]) /\ QueueCall(rwaitPdq[q])
    BY <1>7, PdqQueues DEF QueueCall, PdqReceiveWaits
  <2>2. NobodyServed(rwaitPdq[q])
    BY <2>1, WaitCalls
  <2> QED BY <1>3, <1>7, <2>1, <2>2, PdqQueues DEF NobodyServed
<1>8. ASSUME NEW q \in Pridataq, PdqResets(q) PROVE Order
  <2>1. PICK w \in {q, rwaitPdq[q]} : QueueClear(w)
    BY <1>8 DEF PdqResets
  <2>2. w \in Wobj \ Mutex /\ QueueCall(w)
    BY <2>1, PdqQueues DEF QueueCall
  <2>3. NobodyServed(w)
    <3>1. Waiters(w) \in SUBSET Waiters(w) /\ wobj_release(w, Waiters(w), "error")
      BY <2>1 DEF QueueClear
    <3>2. \A u \in Task : Served(w, u) <=> u \in Waiters(w) /\ "error" = "ok"
      BY <2>2, <3>1, ReleaseCalls
    <3> QED BY <3>2 DEF NobodyServed
  <2> QED BY <1>3, <2>1, <2>2, <2>3, PdqQueues DEF NobodyServed
<1>9. Order
  <2>1. ASSUME NEW q \in Pridataq, PdqStep(q) PROVE Order
    <3>1. \A v \in Pridata : PdqStores(q, v) => UNCHANGED vars
      BY DEF PdqStores
    <3>2. PdqTakes(q) => UNCHANGED vars \/ QueueServe(q)
      BY DEF PdqTakes
    <3>3. PdqPasses(q) => QueueServe(q)
      BY DEF PdqPasses
    <3> HIDE DEF Order
    <3> QED BY <1>2, <1>4, <1>5, <1>6, <1>7, <1>8, <2>1, <3>1, <3>2, <3>3 DEF PdqStep
  <2>2. PdqQuiet => KernelCall \/ UNCHANGED vars
    BY DEF PdqQuiet
  <2> HIDE DEF Order
  <2> QED BY <1>2, <2>1, <2>2, PridataqSteps
<1> QED BY <1>9, NextInvariant, NextState

(* The first datum is taken, and the first waiting sender stores its own.  *)
LEMMA RefillsPdq ==
  ASSUME IInv, PdqInv, NEW q \in Pridataq, PdqTakes(q)
  PROVE  LET s == Stored(pdqcb[q])
             r == Stored(RefilledPdq(q))
         IN  /\ RefilledPdq(q) \in Blocks(pdqcnt[q])
             /\ s # <<>> /\ FirstPridata(q) \in Pridata
             /\ wait_queue[q] = <<>> => r = Tail(s)
             /\ wait_queue[q] # <<>> => /\ pridata[PdqSender(q)] \in Pridata
                                        /\ JoinsInOrder(Tail(s), pridata[PdqSender(q)], r)
<1> DEFINE c == pdqcb[q]
           n == pdqcnt[q]
           rest == dequeuePridata(c)
           v == pridata[PdqSender(q)]
<1>1. n \in Nat /\ c \in Blocks(n) /\ count(c) > 0 /\ rest = dequeuePridata(c)
  BY PdqQueues DEF PdqInv, PdqTakes
<1>2. /\ RefilledPdq(q) = IF wait_queue[q] = <<>> THEN rest ELSE enqueuePridata(rest, v)
      /\ FirstPridata(q) = c.pdqmb[Head(c.queue)]
  BY DEF RefilledPdq, FirstPridata
<1>3. wait_queue[q] # <<>> => v \in Pridata
  <2> SUFFICES ASSUME wait_queue[q] # <<>> PROVE v \in Pridata
    OBVIOUS
  <2>1. PdqSender(q) \in Task /\ waiton[PdqSender(q)] = q
    BY PdqQueues, HeadWaits DEF PdqSender, Waiters
  <2> QED BY <2>1 DEF PdqInv
<1> HIDE DEF c, n, rest, v
<1>4. /\ rest \in Blocks(n) /\ count(rest) = count(c) - 1
      /\ Stored(c) # <<>> /\ Stored(rest) = Tail(Stored(c))
      /\ c.pdqmb[Head(c.queue)] = Head(Stored(c)) /\ Head(Stored(c)) \in Pridata
  BY ONLY <1>1, DequeuesPdq
<1>5. count(c) \in 0 .. n
  BY <1>1, BlockFacts
<1>6. ASSUME wait_queue[q] # <<>>
      PROVE  /\ RefilledPdq(q) \in Blocks(n)
             /\ JoinsInOrder(Tail(Stored(c)), v, Stored(RefilledPdq(q)))
  <2>1. /\ n \in Nat /\ rest \in Blocks(n) /\ count(rest) < n /\ v \in Pridata
        /\ RefilledPdq(q) = enqueuePridata(rest, v)
    BY <1>1, <1>2, <1>3, <1>4, <1>5, <1>6
  <2>2. RefilledPdq(q) \in Blocks(n) /\ JoinsInOrder(Stored(rest), v, Stored(RefilledPdq(q)))
    BY ONLY <2>1, EnqueuesPdq
  <2> QED BY <1>4, <2>2
<1> QED BY <1>2, <1>3, <1>4, <1>6 DEF c, n, v

(* What a step makes of the blocks.                                        *)
LEMMA BlockSteps ==
  ASSUME IInv, PdqInv, NEW q \in Pridataq, PdqStep(q)
  PROVE  \E e \in Blocks(pdqcnt[q]) : pdqcb' = [pdqcb EXCEPT ![q] = e]
<1> DEFINE c == pdqcb[q]
           n == pdqcnt[q]
<1>1. n \in Nat /\ c \in Blocks(n)
  BY PdqQueues DEF PdqInv
<1>2. ASSUME UNCHANGED pdqcb PROVE \E e \in Blocks(n) : pdqcb' = [pdqcb EXCEPT ![q] = e]
  <2>1. pdqcb' = [pdqcb EXCEPT ![q] = c]
    BY <1>2 DEF PdqInv
  <2> QED BY <1>1, <2>1
<1>3. ASSUME NEW v \in Pridata, PdqStores(q, v)
      PROVE  \E e \in Blocks(n) : pdqcb' = [pdqcb EXCEPT ![q] = e]
  <2>1. count(c) < n /\ pdqcb' = [pdqcb EXCEPT ![q] = enqueuePridata(c, v)]
    BY <1>3 DEF PdqStores, PdqHasRoom
  <2>2. enqueuePridata(c, v) \in Blocks(n)
    <3> HIDE DEF c, n
    <3> QED BY <1>1, <2>1, EnqueuesPdq
  <2> QED BY <2>1, <2>2
<1>4. ASSUME PdqTakes(q) PROVE \E e \in Blocks(n) : pdqcb' = [pdqcb EXCEPT ![q] = e]
  BY <1>4, RefillsPdq DEF PdqTakes
<1>5. ASSUME PdqResets(q) PROVE \E e \in Blocks(n) : pdqcb' = [pdqcb EXCEPT ![q] = e]
  <2> DEFINE e == [queue |-> <<>>, free |-> <<>>, unused |-> 0, pdqmb |-> c.pdqmb]
  <2>1. c.pdqmb \in [Block(n) -> Pridata \cup {NoPridata}]
        /\ c = [queue |-> c.queue, free |-> c.free, unused |-> c.unused, pdqmb |-> c.pdqmb]
    BY <1>1 DEF Blocks
  <2>2. pdqcb' = [pdqcb EXCEPT ![q] = [c EXCEPT !.queue = <<>>, !.free = <<>>, !.unused = 0]]
    BY <1>5 DEF PdqResets, PdqInv
  <2>3. e \in Blocks(n)
    BY <1>1, <2>1, ClearsPdq
  <2> DEFINE x == c.queue
             y == c.free
             z == c.unused
             m == c.pdqmb
  <2>4. c = [queue |-> x, free |-> y, unused |-> z, pdqmb |-> m]
        /\ e = [queue |-> <<>>, free |-> <<>>, unused |-> 0, pdqmb |-> m]
    BY <2>1
  <2> HIDE DEF c, x, y, z, m, e
  <2> DEFINE g == [c EXCEPT !.queue = <<>>, !.free = <<>>, !.unused = 0]
  <2>5. g = [[queue |-> x, free |-> y, unused |-> z, pdqmb |-> m]
               EXCEPT !.queue = <<>>, !.free = <<>>, !.unused = 0]
    BY <2>4
  <2> HIDE DEF g
  <2>6. g = [queue |-> <<>>, free |-> <<>>, unused |-> 0, pdqmb |-> m]
    BY ONLY <2>5
  <2>7. pdqcb' = [pdqcb EXCEPT ![q] = g]
    BY <2>2 DEF g
  <2> QED BY <2>3, <2>4, <2>6, <2>7
<1> QED BY <1>2, <1>3, <1>4, <1>5
        DEF PdqStep, PdqHands, PdqSendWaits, PdqPasses, PdqReceiveWaits, pdqOwn

(* What a step makes of the data of senders and receivers.                 *)
LEMMA PridataSteps ==
  ASSUME IInv, PdqInv, PdqQuiet \/ \E q \in Pridataq : PdqStep(q)
  PROVE  \/ UNCHANGED pridata
         \/ \E t \in Task, v \in Pridata :
              /\ pridata' = [pridata EXCEPT ![t] = v]
              /\ \/ waiton[t] = "NONE"
                 \/ \E q \in Pridataq : waiton[t] = rwaitPdq[q]
<1>1. ASSUME NEW q \in Pridataq, NEW v \in Pridata, PdqHands(q, v)
      PROVE  \E t \in Task, x \in Pridata :
               pridata' = [pridata EXCEPT ![t] = x] /\ waiton[t] = rwaitPdq[q]
  <2>1. PdqReceiver(q) \in Waiters(rwaitPdq[q])
    BY <1>1, PdqQueues, HeadWaits DEF PdqHands, QueueServe, PdqReceiver
  <2> QED BY <1>1, <2>1 DEF PdqHands, Waiters
<1>2. ASSUME NEW q \in Pridataq, NEW v \in Pridata, PdqSendWaits(q, v)
      PROVE  runtsk \in Task /\ waiton[runtsk] = "NONE" /\ pridata' = [pridata EXCEPT ![runtsk] = v]
  <2>1. PICK timed \in BOOLEAN : wobj_wait(q, timed)
    BY <1>2 DEF PdqSendWaits, QueueWait
  <2>2. runtsk \in Task /\ waiton[runtsk] = "NONE"
    BY <2>1, CallerRuns DEF wobj_wait, checkDispatch
  <2> QED BY <1>2, <2>2 DEF PdqSendWaits
<1>3. ASSUME NEW q \in Pridataq, PdqTakes(q)
      PROVE  \E v \in Pridata : /\ runtsk \in Task /\ waiton[runtsk] = "NONE"
                                /\ pridata' = [pridata EXCEPT ![runtsk] = v]
  BY <1>3, RefillsPdq DEF PdqTakes
<1>4. ASSUME NEW q \in Pridataq, PdqPasses(q)
      PROVE  \E v \in Pridata : /\ runtsk \in Task /\ waiton[runtsk] = "NONE"
                                /\ pridata' = [pridata EXCEPT ![runtsk] = v]
  <2>1. PdqSender(q) \in Task /\ waiton[PdqSender(q)] = q
    BY <1>4, PdqQueues, HeadWaits DEF PdqPasses, QueueServe, PdqSender, Waiters
  <2>2. pridata[PdqSender(q)] \in Pridata
    BY <2>1, SMTT(60) DEF PdqInv
  <2> QED BY <1>4, <2>2 DEF PdqPasses
<1>5. ASSUME \/ PdqQuiet
             \/ \E q \in Pridataq : \/ PdqReceiveWaits(q) \/ PdqResets(q)
                                    \/ \E v \in Pridata : PdqStores(q, v)
      PROVE  UNCHANGED pridata
  BY <1>5, Zenon DEF PdqQuiet, PdqReceiveWaits, PdqResets, PdqStores, pdqOwn
<1> QED BY <1>1, <1>2, <1>3, <1>4, <1>5 DEF PdqStep

(* Every step of the priority data queues keeps the invariant.             *)
LEMMA PridataqKept ==
  ASSUME IInv, SInv, ResultPending, PdqInv, [PdqNext]_pdqVars
  PROVE  (IInv /\ SInv /\ ResultPending /\ PdqInv)'
<1> DEFINE AllBlocks == [Pridataq -> UNION {Blocks(pdqcnt[q]) : q \in Pridataq}]
<1>1. /\ IInv' /\ SInv' /\ ResultPending'
      /\ \A q \in Pridataq : NobodyJoins(q) \/ \E v \in Pridata : PdqSendWaits(q, v)
      /\ \A q \in Pridataq : NobodyJoins(rwaitPdq[q]) \/ PdqReceiveWaits(q)
  BY PridataqQueues
<1>2. PdqQuiet \/ \E q \in Pridataq : PdqStep(q)
  BY PridataqSteps
<1>3. pdqcb' \in AllBlocks /\ \A q \in Pridataq : pdqcb'[q] \in Blocks(pdqcnt[q])
  <2>1. pdqcb \in AllBlocks /\ \A q \in Pridataq : pdqcb[q] \in Blocks(pdqcnt[q])
    BY DEF PdqInv
  <2>2. ASSUME NEW q \in Pridataq, PdqStep(q)
        PROVE  pdqcb' \in AllBlocks /\ \A o \in Pridataq : pdqcb'[o] \in Blocks(pdqcnt[o])
    <3>1. PICK e \in Blocks(pdqcnt[q]) : pdqcb' = [pdqcb EXCEPT ![q] = e]
      BY <2>2, BlockSteps
    <3>2. e \in UNION {Blocks(pdqcnt[o]) : o \in Pridataq}
      OBVIOUS
    <3> QED BY <2>1, <3>1, <3>2
  <2>3. PdqQuiet => UNCHANGED pdqcb
    BY DEF PdqQuiet, pdqOwn
  <2> HIDE DEF AllBlocks
  <2> QED BY <1>2, <2>1, <2>2, <2>3
<1>4. /\ pridata' \in [Task -> Pridata \cup {NoPridata}]
      /\ \A t \in Task : waiton[t] \in Pridataq => pridata'[t] \in Pridata
  <2>1. /\ pridata \in [Task -> Pridata \cup {NoPridata}]
        /\ \A t \in Task : waiton[t] \in Pridataq => pridata[t] \in Pridata
    BY DEF PdqInv
  <2> QED BY <1>2, <2>1, PridataSteps
<1>5. \A t \in Task : (waiton')[t] \in Pridataq => pridata'[t] \in Pridata
  <2>1. ASSUME NEW q \in Pridataq, NEW v \in Pridata, PdqSendWaits(q, v), NEW t \in Task,
               (waiton')[t] = q
        PROVE  pridata'[t] \in Pridata
    <3>1. /\ q \in Wobj \ Mutex /\ QueueWait(q) /\ pridata' = [pridata EXCEPT ![runtsk] = v]
      BY <2>1, PdqQueues DEF PdqSendWaits
    <3>2. runtsk \in Task /\ waiton' = [waiton EXCEPT ![runtsk] = q]
      BY <3>1, WaitCalls
    <3>3. waiton \in [Task -> WaitCause] /\ pridata \in [Task -> Pridata \cup {NoPridata}]
      BY DEF IInv, TypeOK, PdqInv
    <3>4. CASE t = runtsk
      BY <3>1, <3>3, <3>4
    <3>5. CASE t # runtsk
      BY <1>4, <2>1, <3>2, <3>3, <3>5
    <3> QED BY <3>4, <3>5
  <2>2. ASSUME NEW t \in Task, (waiton')[t] \in Pridataq PROVE pridata'[t] \in Pridata
    <3>1. CASE NobodyJoins((waiton')[t])
      BY <1>4, <2>2, <3>1 DEF NobodyJoins
    <3>2. CASE \E v \in Pridata : PdqSendWaits((waiton')[t], v)
      BY <2>1, <2>2, <3>2
    <3> QED BY <1>1, <2>2, <3>1, <3>2
  <2> QED BY <2>2
<1>6. \A q \in Pridataq : wait_queue'[q] = <<>> \/ wait_queue'[rwaitPdq[q]] = <<>>
  <2> SUFFICES ASSUME NEW q \in Pridataq
               PROVE  wait_queue'[q] = <<>> \/ wait_queue'[rwaitPdq[q]] = <<>>
    OBVIOUS
  <2> DEFINE r == rwaitPdq[q]
  <2>1. /\ q \in Wobj \ Mutex /\ r \in Wobj \ Mutex /\ q # r
        /\ wait_queue[q] = <<>> \/ wait_queue[r] = <<>>
    BY PdqQueues DEF PdqInv
  <2>2. ASSUME NEW v \in Pridata, PdqSendWaits(q, v) PROVE wait_queue'[r] = <<>>
    <3>1. wait_queue[r] = <<>> /\ QueueWait(q)
      BY <2>2 DEF PdqSendWaits
    <3> QED BY <1>1, <2>1, <3>1, WaitCalls, EmptyStays
  <2>3. ASSUME PdqReceiveWaits(q) PROVE wait_queue'[q] = <<>>
    <3>1. wait_queue[q] = <<>> /\ QueueWait(r)
      BY <2>3 DEF PdqReceiveWaits
    <3> QED BY <1>1, <2>1, <3>1, WaitCalls, EmptyStays
  <2>4. ASSUME NobodyJoins(q), NobodyJoins(r) PROVE wait_queue'[q] = <<>> \/ wait_queue'[r] = <<>>
    BY <1>1, <2>1, <2>4, EmptyStays
  <2> QED BY <1>1, <2>2, <2>3, <2>4
<1> QED BY <1>1, <1>3, <1>4, <1>5, <1>6 DEF PdqInv

(* The invariant of the priority data queues, on top of the kernel's.      *)
THEOREM PridataqInvariant == PdqSpec => [](IInv /\ SInv /\ ResultPending /\ PdqInv)
<1>1. PdqInit => IInv /\ SInv /\ ResultPending /\ PdqInv
  <2> SUFFICES ASSUME PdqInit PROVE ResultPending /\ PdqInv
    BY InitInvariant, InitState DEF PdqInit
  <2>1. /\ \A t \in Task : waiton[t] = "NONE"
        /\ \A q \in Pridataq : wait_queue[q] = <<>> /\ wait_queue[rwaitPdq[q]] = <<>>
        /\ pdqcb = [q \in Pridataq |-> InitialPdq(q)]
        /\ pridata = [t \in Task |-> NoPridata]
    BY PdqQueues DEF PdqInit, Init
  <2>2. \A q \in Pridataq : InitialPdq(q) \in Blocks(pdqcnt[q])
    <3> SUFFICES ASSUME NEW q \in Pridataq PROVE InitialPdq(q) \in Blocks(pdqcnt[q])
      OBVIOUS
    <3> DEFINE n == pdqcnt[q]
               m == [b \in 0 .. n - 1 |-> NoPridata]
    <3>1. n \in Nat /\ m \in [Block(n) -> Pridata \cup {NoPridata}]
      BY PdqQueues DEF Block
    <3>2. InitialPdq(q) = [queue |-> <<>>, free |-> <<>>, unused |-> 0, pdqmb |-> m]
      BY DEF InitialPdq
    <3> HIDE DEF n, m
    <3>3. InitialPdq(q) \in Blocks(n)
      BY ONLY <3>1, <3>2, ClearsPdq
    <3> QED BY <3>3 DEF n
  <2>3. /\ pdqcb \in [Pridataq -> UNION {Blocks(pdqcnt[q]) : q \in Pridataq}]
        /\ \A q \in Pridataq : pdqcb[q] \in Blocks(pdqcnt[q])
    BY <2>1, <2>2
  <2>4. ResultPending
    BY <2>1 DEF ResultPending
  <2> QED BY <2>1, <2>3, <2>4, PdqQueues DEF PdqInv
<1>2. /\ IInv /\ SInv /\ ResultPending /\ PdqInv
      /\ [PdqNext]_pdqVars
      => (IInv /\ SInv /\ ResultPending /\ PdqInv)'
  BY PridataqKept
<1> QED BY <1>1, <1>2, PTL DEF PdqSpec
-----------------------------------------------------------------------------
(* What the channels see of one priority data queue.                       *)
StoredIn(q)  == Stored(pdqcb[q])
WaitingAt(q) == Along(wait_queue[q], pridata)
ReadersAt(q) == Len(wait_queue[rwaitPdq[q]])

StoredLines  == [q \in Pridataq |-> Stored(pdqcb[q])]
WaitingLines == [q \in Pridataq |-> Along(wait_queue[q], pridata)]
ReaderCounts == [q \in Pridataq |-> Len(wait_queue[rwaitPdq[q]])]

StoredKept(q)  == StoredIn(q)' = StoredIn(q)
WaitingKept(q) == WaitingAt(q)' = WaitingAt(q)
ReadersStay(q) == ReadersAt(q)' = ReadersAt(q)
OthersStay(q)  == \A o \in Pridataq \ {q} : StoredKept(o) /\ WaitingKept(o) /\ ReadersStay(o)

(* What the functions of the channels become when only one queue changes.  *)
LEMMA LinesChange ==
  ASSUME NEW q \in Pridataq, OthersStay(q)
  PROVE  /\ StoredLines[q] = StoredIn(q) /\ (StoredLines')[q] = StoredIn(q)'
         /\ WaitingLines[q] = WaitingAt(q) /\ ReaderCounts[q] = ReadersAt(q)
         /\ StoredLines' = [StoredLines EXCEPT ![q] = StoredIn(q)']
         /\ WaitingLines' = [WaitingLines EXCEPT ![q] = WaitingAt(q)']
         /\ ReaderCounts' = [ReaderCounts EXCEPT ![q] = ReadersAt(q)']
         /\ StoredKept(q) => StoredLines' = StoredLines
         /\ WaitingKept(q) => WaitingLines' = WaitingLines
         /\ ReadersStay(q) => ReaderCounts' = ReaderCounts
<1>1. \A o \in Pridataq \ {q} : /\ StoredIn(o)' = StoredIn(o)
                                /\ WaitingAt(o)' = WaitingAt(o)
                                /\ ReadersAt(o)' = ReadersAt(o)
  BY DEF OthersStay, StoredKept, WaitingKept, ReadersStay
<1>2. /\ StoredLines = [o \in Pridataq |-> StoredIn(o)]
      /\ StoredLines' = [o \in Pridataq |-> StoredIn(o)']
      /\ WaitingLines = [o \in Pridataq |-> WaitingAt(o)]
      /\ WaitingLines' = [o \in Pridataq |-> WaitingAt(o)']
      /\ ReaderCounts = [o \in Pridataq |-> ReadersAt(o)]
      /\ ReaderCounts' = [o \in Pridataq |-> ReadersAt(o)']
  BY DEF StoredLines, WaitingLines, ReaderCounts, StoredIn, WaitingAt, ReadersAt
<1>3. StoredKept(q) => StoredLines' = StoredLines
  BY <1>1, <1>2 DEF StoredKept
<1>4. WaitingKept(q) => WaitingLines' = WaitingLines
  BY <1>1, <1>2 DEF WaitingKept
<1>5. ReadersStay(q) => ReaderCounts' = ReaderCounts
  BY <1>1, <1>2 DEF ReadersStay
<1>6. StoredLines' = [StoredLines EXCEPT ![q] = StoredIn(q)']
  BY <1>1, <1>2
<1>7. WaitingLines' = [WaitingLines EXCEPT ![q] = WaitingAt(q)']
  BY <1>1, <1>2
<1>8. ReaderCounts' = [ReaderCounts EXCEPT ![q] = ReadersAt(q)']
  BY <1>1, <1>2
<1> QED BY <1>2, <1>3, <1>4, <1>5, <1>6, <1>7, <1>8

(* The actions of the channels that are about receivers.                   *)
LEMMA ReaderActions ==
  ASSUME NEW q \in Pridataq, OthersStay(q)
  PROVE  /\ /\ StoredKept(q) /\ WaitingKept(q)
            /\ ReadersAt(q) > 0 /\ ReadersAt(q)' = ReadersAt(q) - 1
            => PromisedPdq!OneReaderLess(q)
         /\ /\ StoredKept(q) /\ WaitingKept(q) /\ StoredIn(q) = <<>> /\ WaitingAt(q) = <<>>
            /\ ReadersAt(q)' = ReadersAt(q) + 1
            => PromisedPdq!Await(q)
         /\ StoredIn(q)' = <<>> /\ WaitingAt(q)' = <<>> /\ ReadersAt(q)' = 0
            => PromisedPdq!Clear(q)
<1>1. ASSUME StoredKept(q), WaitingKept(q), ReadersAt(q) > 0, ReadersAt(q)' = ReadersAt(q) - 1
      PROVE  PromisedPdq!OneReaderLess(q)
  <2>1. /\ ReaderCounts[q] > 0 /\ ReaderCounts' = [ReaderCounts EXCEPT ![q] = @ - 1]
        /\ StoredLines' = StoredLines /\ WaitingLines' = WaitingLines
    BY <1>1, LinesChange
  <2> QED BY <2>1 DEF PromisedPdq!OneReaderLess, StoredLines, WaitingLines, ReaderCounts
<1>2. ASSUME StoredKept(q), WaitingKept(q), StoredIn(q) = <<>>, WaitingAt(q) = <<>>,
             ReadersAt(q)' = ReadersAt(q) + 1
      PROVE  PromisedPdq!Await(q)
  <2>1. /\ StoredLines[q] = <<>> /\ WaitingLines[q] = <<>>
        /\ ReaderCounts' = [ReaderCounts EXCEPT ![q] = @ + 1]
        /\ StoredLines' = StoredLines /\ WaitingLines' = WaitingLines
    BY <1>2, LinesChange
  <2> QED BY <2>1 DEF PromisedPdq!Await, StoredLines, WaitingLines, ReaderCounts
<1>3. ASSUME StoredIn(q)' = <<>>, WaitingAt(q)' = <<>>, ReadersAt(q)' = 0
      PROVE  PromisedPdq!Clear(q)
  <2>1. /\ StoredLines' = [StoredLines EXCEPT ![q] = <<>>]
        /\ WaitingLines' = [WaitingLines EXCEPT ![q] = <<>>]
        /\ ReaderCounts' = [ReaderCounts EXCEPT ![q] = 0]
    BY <1>3, LinesChange
  <2> QED BY <2>1 DEF PromisedPdq!Clear, PromisedPdq!StoredBecomes, PromisedPdq!WaitingBecomes,
                      StoredLines, WaitingLines, ReaderCounts
<1> QED BY <1>1, <1>2, <1>3

(* Those that store a datum, or let a sender wait with it.                 *)
LEMMA PutActions ==
  ASSUME NEW q \in Pridataq, OthersStay(q), NEW v, ReadersStay(q), ReadersAt(q) = 0
  PROVE  /\ /\ Len(StoredIn(q)) < pdqcnt[q] /\ WaitingKept(q)
            /\ PromisedPdq!HasJoined(StoredIn(q), v, StoredIn(q)')
            => PromisedPdq!Put(q, v)
         /\ /\ Len(StoredIn(q)) = pdqcnt[q] /\ StoredKept(q)
            /\ \E i \in 1 .. Len(WaitingAt(q)) + 1 :
                 WaitingAt(q)' = PromisedPdq!InsertAt(WaitingAt(q), i, v)
            => PromisedPdq!Put(q, v)
<1>1. ASSUME Len(StoredIn(q)) < pdqcnt[q], WaitingKept(q),
             PromisedPdq!HasJoined(StoredIn(q), v, StoredIn(q)')
      PROVE  PromisedPdq!Put(q, v)
  <2>1. /\ ReaderCounts[q] = 0 /\ Len(StoredLines[q]) < pdqcnt[q]
        /\ StoredLines' = [StoredLines EXCEPT ![q] = (StoredLines')[q]]
        /\ PromisedPdq!HasJoined(StoredLines[q], v, (StoredLines')[q])
        /\ WaitingLines' = WaitingLines /\ ReaderCounts' = ReaderCounts
    BY <1>1, LinesChange
  <2> QED BY <2>1 DEF PromisedPdq!Put, PromisedPdq!StoredWith, PromisedPdq!StoredBecomes,
                      StoredLines, WaitingLines, ReaderCounts
<1>2. ASSUME Len(StoredIn(q)) = pdqcnt[q], StoredKept(q),
             NEW i \in 1 .. Len(WaitingAt(q)) + 1,
             WaitingAt(q)' = PromisedPdq!InsertAt(WaitingAt(q), i, v)
      PROVE  PromisedPdq!Put(q, v)
  <2>1. /\ ReaderCounts[q] = 0 /\ Len(StoredLines[q]) = pdqcnt[q]
        /\ i \in 1 .. Len(WaitingLines[q]) + 1
        /\ WaitingLines' = [WaitingLines EXCEPT ![q] = PromisedPdq!InsertAt(WaitingLines[q], i, v)]
        /\ StoredLines' = StoredLines /\ ReaderCounts' = ReaderCounts
    BY <1>2, LinesChange
  <2> QED BY <2>1 DEF PromisedPdq!Put, PromisedPdq!WaitingBecomes,
                      StoredLines, WaitingLines, ReaderCounts
<1> QED BY <1>1, <1>2

(* Those that take one.                                                    *)
LEMMA TakeActions ==
  ASSUME NEW q \in Pridataq, OthersStay(q), ReadersStay(q)
  PROVE  /\ /\ StoredIn(q) # <<>> /\ WaitingAt(q) = <<>> /\ WaitingKept(q)
            /\ StoredIn(q)' = Tail(StoredIn(q))
            => PromisedPdq!Take(q)
         /\ /\ StoredIn(q) # <<>> /\ WaitingAt(q) # <<>>
            /\ PromisedPdq!HasJoined(Tail(StoredIn(q)), Head(WaitingAt(q)), StoredIn(q)')
            /\ WaitingAt(q)' = Tail(WaitingAt(q))
            => PromisedPdq!Take(q)
         /\ /\ StoredIn(q) = <<>> /\ WaitingAt(q) # <<>> /\ StoredKept(q)
            /\ WaitingAt(q)' = Tail(WaitingAt(q))
            => PromisedPdq!Take(q)
<1>1. ASSUME StoredIn(q) # <<>>, WaitingAt(q) = <<>>, WaitingKept(q),
             StoredIn(q)' = Tail(StoredIn(q))
      PROVE  PromisedPdq!Take(q)
  <2>1. /\ StoredLines[q] # <<>> /\ WaitingLines[q] = <<>>
        /\ StoredLines' = [StoredLines EXCEPT ![q] = Tail(StoredLines[q])]
        /\ WaitingLines' = WaitingLines /\ ReaderCounts' = ReaderCounts
    BY <1>1, LinesChange
  <2> QED BY <2>1 DEF PromisedPdq!Take, PromisedPdq!StoredBecomes,
                      StoredLines, WaitingLines, ReaderCounts
<1>2. ASSUME StoredIn(q) # <<>>, WaitingAt(q) # <<>>,
             PromisedPdq!HasJoined(Tail(StoredIn(q)), Head(WaitingAt(q)), StoredIn(q)'),
             WaitingAt(q)' = Tail(WaitingAt(q))
      PROVE  PromisedPdq!Take(q)
  <2>1. /\ StoredLines[q] # <<>> /\ WaitingLines[q] # <<>>
        /\ StoredLines' = [StoredLines EXCEPT ![q] = (StoredLines')[q]]
        /\ PromisedPdq!HasJoined(Tail(StoredLines[q]), Head(WaitingLines[q]), (StoredLines')[q])
        /\ WaitingLines' = [WaitingLines EXCEPT ![q] = Tail(WaitingLines[q])]
        /\ ReaderCounts' = ReaderCounts
    BY <1>2, LinesChange
  <2> QED BY <2>1 DEF PromisedPdq!Take, PromisedPdq!StoredWith, PromisedPdq!StoredBecomes,
                      PromisedPdq!WaitingBecomes, StoredLines, WaitingLines, ReaderCounts
<1>3. ASSUME StoredIn(q) = <<>>, WaitingAt(q) # <<>>, StoredKept(q),
             WaitingAt(q)' = Tail(WaitingAt(q))
      PROVE  PromisedPdq!Take(q)
  <2>1. /\ StoredLines[q] = <<>> /\ WaitingLines[q] # <<>>
        /\ WaitingLines' = [WaitingLines EXCEPT ![q] = Tail(WaitingLines[q])]
        /\ StoredLines' = StoredLines /\ ReaderCounts' = ReaderCounts
    BY <1>3, LinesChange
  <2> QED BY <2>1 DEF PromisedPdq!Take, PromisedPdq!WaitingBecomes,
                      StoredLines, WaitingLines, ReaderCounts
<1> QED BY <1>1, <1>2, <1>3

(* Those of a waiting sender that gives up or gets another priority.       *)
LEMMA SenderActions ==
  ASSUME NEW q \in Pridataq, OthersStay(q), StoredKept(q), ReadersStay(q),
         NEW i \in 1 .. Len(WaitingAt(q)), WaitingAt(q) \in Seq(Pridata)
  PROVE  /\ WaitingAt(q)' = PromisedPdq!RemoveAt(WaitingAt(q), i) => PromisedPdq!GiveUp(q)
         /\ \A j \in 1 .. Len(WaitingAt(q)) :
              WaitingAt(q)' = PromisedPdq!InsertAt(PromisedPdq!RemoveAt(WaitingAt(q), i), j,
                                                   WaitingAt(q)[i])
              => PromisedPdq!Move(q)
<1>0. DOMAIN WaitingAt(q) = 1 .. Len(WaitingAt(q))
  OBVIOUS
<1>1. ASSUME WaitingAt(q)' = PromisedPdq!RemoveAt(WaitingAt(q), i) PROVE PromisedPdq!GiveUp(q)
  <2>1. /\ i \in DOMAIN WaitingLines[q]
        /\ WaitingLines' = [WaitingLines EXCEPT ![q] = PromisedPdq!RemoveAt(WaitingLines[q], i)]
        /\ StoredLines' = StoredLines /\ ReaderCounts' = ReaderCounts
    BY <1>0, <1>1, LinesChange
  <2> QED BY <2>1 DEF PromisedPdq!GiveUp, PromisedPdq!WaitingBecomes,
                      StoredLines, WaitingLines, ReaderCounts
<1>2. ASSUME NEW j \in 1 .. Len(WaitingAt(q)),
             WaitingAt(q)' = PromisedPdq!InsertAt(PromisedPdq!RemoveAt(WaitingAt(q), i), j,
                                                  WaitingAt(q)[i])
      PROVE  PromisedPdq!Move(q)
  <2>1. /\ i \in DOMAIN WaitingLines[q] /\ j \in DOMAIN WaitingLines[q]
        /\ WaitingLines' = [WaitingLines EXCEPT ![q] =
                              PromisedPdq!InsertAt(PromisedPdq!RemoveAt(WaitingLines[q], i), j,
                                                   WaitingLines[q][i])]
        /\ StoredLines' = StoredLines /\ ReaderCounts' = ReaderCounts
    BY <1>0, <1>2, LinesChange
  <2> QED BY <2>1 DEF PromisedPdq!Move, PromisedPdq!WaitingBecomes,
                      StoredLines, WaitingLines, ReaderCounts
<1> QED BY <1>1, <1>2
-----------------------------------------------------------------------------
(* No step changes the datum of a sender that waits.                       *)
PridataKeep == \A t \in Task : waiton[t] \in Pridataq => pridata'[t] = pridata[t]

(* What a step writes belongs to the caller or to a receiver.              *)
LEMMA PridataKept ==
  ASSUME IInv, PdqInv, PdqQuiet \/ \E q \in Pridataq : PdqStep(q)
  PROVE  PridataKeep
<1>1. /\ pridata \in [Task -> Pridata \cup {NoPridata}] /\ "NONE" \notin Pridataq
      /\ \A q \in Pridataq : rwaitPdq[q] \notin Pridataq
  BY PdqQueues DEF PdqInv
<1> QED BY <1>1, PridataSteps DEF PridataKeep

(* A datum that joins in order is one that has joined.                     *)
LEMMA HasJoinedInOrder ==
  ASSUME NEW s \in Seq(Pridata), NEW v \in Pridata, NEW r, JoinsInOrder(s, v, r)
  PROVE  PromisedPdq!HasJoined(s, v, r)
<1>1. PICK k \in 1 .. Len(s) + 1 :
        /\ r = InsertBefore(s, k, v)
        /\ \A j \in 1 .. k - 1 : datapri[s[j]] <= datapri[v]
        /\ \A j \in k .. Len(s) : datapri[s[j]] > datapri[v]
  BY DEF JoinsInOrder
<1>2. PromisedPdq!InsertAt(s, k, v) = InsertBefore(s, k, v)
  <2>1. s \in Seq(Pridata) /\ k \in 1 .. Len(s) + 1 /\ v \in Pridata
    OBVIOUS
  <2> QED BY ONLY <2>1, InsertsAt
<1> QED BY <1>1, <1>2 DEF PromisedPdq!HasJoined

(* What the invariant says of one priority data queue.                     *)
LEMMA PdqFacts ==
  ASSUME IInv, PdqInv, NEW q \in Pridataq
  PROVE  /\ pdqcnt[q] \in Nat /\ pdqcb[q] \in Blocks(pdqcnt[q])
         /\ StoredIn(q) \in Seq(Pridata) /\ Len(StoredIn(q)) = count(pdqcb[q])
         /\ count(pdqcb[q]) \in 0 .. pdqcnt[q]
         /\ wait_queue[q] \in Seq(Task) /\ NoDuplicate(wait_queue[q])
         /\ \A i \in 1 .. Len(wait_queue[q]) :
              pridata[wait_queue[q][i]] \in Pridata /\ waiton[wait_queue[q][i]] = q
         /\ WaitingAt(q) \in Seq(Pridata) /\ Len(WaitingAt(q)) = Len(wait_queue[q])
         /\ WaitingAt(q) = <<>> <=> wait_queue[q] = <<>>
         /\ wait_queue[rwaitPdq[q]] \in Seq(Task) /\ ReadersAt(q) \in Nat
         /\ ReadersAt(q) = 0 <=> wait_queue[rwaitPdq[q]] = <<>>
<1> DEFINE p == wait_queue[q]
           r == wait_queue[rwaitPdq[q]]
           a == pridata
<1>1. pdqcnt[q] \in Nat /\ pdqcb[q] \in Blocks(pdqcnt[q])
  BY PdqQueues DEF PdqInv
<1>2. /\ StoredIn(q) \in Seq(Pridata) /\ Len(StoredIn(q)) = count(pdqcb[q])
      /\ count(pdqcb[q]) \in 0 .. pdqcnt[q]
  BY <1>1, BlockFacts DEF StoredIn
<1>3. /\ p \in Seq(Task) /\ NoDuplicate(p) /\ r \in Seq(Task)
      /\ \A t \in Task : Member(p, t) => waiton[t] = q
  BY PdqQueues DEF IInv, TypeOK, WaitsOwned
<1>4. \A t \in Task : waiton[t] = q => a[t] \in Pridata
  BY DEF PdqInv
<1>5. WaitingAt(q) = Along(p, a) /\ ReadersAt(q) = Len(r)
  BY DEF WaitingAt, ReadersAt
<1> HIDE DEF p, r, a
<1>6. \A i \in 1 .. Len(p) : p[i] \in Task /\ Member(p, p[i])
  BY <1>3 DEF Member
<1>7. \A i \in 1 .. Len(p) : a[p[i]] \in Pridata /\ waiton[p[i]] = q
  BY <1>3, <1>4, <1>6
<1>8. Len(p) \in Nat /\ Len(r) \in Nat
  BY <1>3
<1>9. Along(p, a) \in Seq(Pridata) /\ Len(Along(p, a)) = Len(p)
  BY <1>7, <1>8 DEF Along
<1>10. Along(p, a) = <<>> <=> p = <<>>
  <2>1. Along(p, a) = <<>> <=> Len(Along(p, a)) = 0
    BY <1>9
  <2>2. p = <<>> <=> Len(p) = 0
    BY <1>3
  <2> QED BY <1>9, <2>1, <2>2
<1>11. Len(r) = 0 <=> r = <<>>
  BY <1>3
<1> QED BY <1>1, <1>2, <1>3, <1>5, <1>7, <1>8, <1>9, <1>10, <1>11 DEF p, r, a

(* A wait queue that stays keeps the data of its senders in order, or how  *)
(* many wait to receive.                                                   *)
LEMMA QueuesStay ==
  ASSUME IInv, PdqInv, PridataKeep, NEW q \in Pridataq
  PROVE  /\ Same(q) => WaitingKept(q)
         /\ Same(rwaitPdq[q]) => ReadersStay(q)
<1> DEFINE p == wait_queue[q]
<1>1. ASSUME Same(q) PROVE WaitingKept(q)
  <2>1. \A i \in 1 .. Len(p) : p[i] \in Task /\ waiton[p[i]] = q
    <3>1. p \in Seq(Task) /\ \A i \in 1 .. Len(p) : waiton[p[i]] = q
      BY PdqFacts
    <3> HIDE DEF p
    <3> QED BY <3>1
  <2>2. \A i \in 1 .. Len(p) : pridata'[p[i]] = pridata[p[i]]
    BY <2>1 DEF PridataKeep
  <2>3. wait_queue'[q] = p
    BY <1>1 DEF Same
  <2>4. WaitingAt(q)' = Along(p, pridata') /\ WaitingAt(q) = Along(p, pridata)
    BY <2>3 DEF WaitingAt, Along
  <2> HIDE DEF p
  <2>5. Along(p, pridata') = Along(p, pridata)
    BY <2>2 DEF Along
  <2> QED BY <2>4, <2>5 DEF WaitingKept
<1>2. Same(rwaitPdq[q]) => ReadersStay(q)
  BY DEF Same, ReadersStay, ReadersAt
<1> QED BY <1>1, <1>2

(* A step that leaves the other queues alone, and one wait queue of this.  *)
LEMMA PdqOthersStay ==
  ASSUME IInv, PdqInv, PridataKeep, NEW q \in Pridataq,
         \A o \in Pridataq \ {q} : pdqcb'[o] = pdqcb[o],
         NEW w \in {q, rwaitPdq[q]}, Only(w)
  PROVE  /\ OthersStay(q)
         /\ w = q => ReadersStay(q)
         /\ w = rwaitPdq[q] => WaitingKept(q)
         /\ pdqcb'[q] = pdqcb[q] => StoredKept(q)
<1>1. \A o \in Pridataq : /\ o \in Wobj \ Mutex /\ rwaitPdq[o] \in Wobj \ Mutex
                          /\ rwaitPdq[o] # q /\ rwaitPdq[q] # o
                          /\ (o # q => rwaitPdq[o] # rwaitPdq[q])
  BY PdqQueues
<1>2. \A o \in Pridataq \ {q} : Same(o) /\ Same(rwaitPdq[o])
  BY <1>1 DEF Only
<1>3. \A o \in Pridataq : pdqcb'[o] = pdqcb[o] => StoredKept(o)
  BY DEF StoredKept, StoredIn, Stored, Along
<1>4. OthersStay(q)
  BY <1>2, <1>3, QueuesStay DEF OthersStay
<1>5. w = q => Same(rwaitPdq[q])
  BY <1>1 DEF Only
<1>6. w = rwaitPdq[q] => Same(q)
  BY <1>1 DEF Only
<1> QED BY <1>3, <1>4, <1>5, <1>6, QueuesStay

(* A step that writes the control block of one queue.                      *)
LEMMA OnePdqcb ==
  ASSUME PdqInv, NEW q \in Pridataq, NEW e, pdqcb' = [pdqcb EXCEPT ![q] = e]
  PROVE  /\ pdqcb'[q] = e /\ StoredIn(q)' = Stored(e)
         /\ \A o \in Pridataq \ {q} : pdqcb'[o] = pdqcb[o]
<1>1. pdqcb'[q] = e /\ \A o \in Pridataq \ {q} : pdqcb'[o] = pdqcb[o]
  BY DEF PdqInv
<1> QED BY <1>1 DEF StoredIn, Stored, Along

(* A datum handed to a receiver is never stored.                           *)
LEMMA PdqHandsPromised ==
  ASSUME IInv, IInv', PdqInv, PridataKeep, NEW q \in Pridataq, NEW v \in Pridata, PdqHands(q, v)
  PROVE  PromisedPdq!Put(q, v)
<1> DEFINE r == rwaitPdq[q]
<1>1. r \in Wobj \ Mutex /\ wait_queue[r] # <<>>
  BY PdqQueues DEF PdqHands, QueueServe
<1>2. wait_queue' = [wait_queue EXCEPT ![r] = Tail(@)]
  BY <1>1, QueueChanges DEF PdqHands
<1>3. wait_queue'[r] = Tail(wait_queue[r]) /\ Only(r)
  BY <1>1, <1>2, OneQueue
<1>4. OthersStay(q) /\ StoredKept(q) /\ WaitingKept(q)
  <2>1. \A o \in Pridataq : pdqcb'[o] = pdqcb[o]
    BY DEF PdqHands
  <2> QED BY <1>3, <2>1, PdqOthersStay
<1>5. wait_queue[r] \in Seq(Task)
  BY PdqFacts
<1>6. ReadersAt(q) > 0 /\ ReadersAt(q)' = ReadersAt(q) - 1
  BY <1>1, <1>3, <1>5 DEF ReadersAt
<1>7. PromisedPdq!OneReaderLess(q)
  BY <1>4, <1>6, ReaderActions
<1> QED BY <1>7 DEF PromisedPdq!Put

(* A datum that is stored joins the others in the order of priorities.     *)
LEMMA PdqStoresPromised ==
  ASSUME IInv, IInv', PdqInv, PridataKeep, NEW q \in Pridataq, NEW v \in Pridata, PdqStores(q, v)
  PROVE  PromisedPdq!Put(q, v)
<1> DEFINE c == pdqcb[q]
           n == pdqcnt[q]
           e == enqueuePridata(c, v)
<1>1. /\ n \in Nat /\ c \in Blocks(n) /\ count(c) < n /\ pdqcb' = [pdqcb EXCEPT ![q] = e]
      /\ UNCHANGED wait_queue /\ ReadersAt(q) = 0
      /\ StoredIn(q) \in Seq(Pridata) /\ Len(StoredIn(q)) = count(c) /\ StoredIn(q) = Stored(c)
  BY PdqFacts DEF PdqStores, PdqHasRoom, vars, waitVars, StoredIn
<1>2. Only(q) /\ Same(q)
  BY <1>1 DEF Only, Same
<1>3. StoredIn(q)' = Stored(e) /\ \A o \in Pridataq \ {q} : pdqcb'[o] = pdqcb[o]
  BY <1>1, OnePdqcb
<1>4. OthersStay(q) /\ ReadersStay(q) /\ WaitingKept(q)
  BY <1>2, <1>3, PdqOthersStay, QueuesStay
<1>5. JoinsInOrder(Stored(c), v, Stored(e))
  <2>1. n \in Nat /\ c \in Blocks(n) /\ count(c) < n /\ v \in Pridata /\ e = enqueuePridata(c, v)
    BY <1>1
  <2> HIDE DEF c, n, e
  <2> QED BY ONLY <2>1, EnqueuesPdq
<1>6. PromisedPdq!HasJoined(StoredIn(q), v, StoredIn(q)')
  BY <1>1, <1>3, <1>5, HasJoinedInOrder
<1> QED BY <1>1, <1>4, <1>6, PutActions

(* A sender that waits joins with its datum at its place in the queue.     *)
LEMMA PdqSendWaitPromised ==
  ASSUME IInv, IInv', PdqInv, PridataKeep, NEW q \in Pridataq, NEW v \in Pridata,
         PdqSendWaits(q, v)
  PROVE  PromisedPdq!Put(q, v)
<1> DEFINE p == wait_queue[q]
           t == runtsk
           a == pridata
           b == pridata'
<1>1. /\ q \in Wobj \ Mutex /\ wait_queue[rwaitPdq[q]] = <<>> /\ QueueWait(q)
      /\ b = [a EXCEPT ![t] = v] /\ UNCHANGED pdqcb /\ ~ (count(pdqcb[q]) < pdqcnt[q])
  BY PdqQueues DEF PdqSendWaits, PdqHasRoom
<1>2. /\ p \in Seq(Task) /\ ReadersAt(q) = 0 /\ pdqcnt[q] \in Nat
      /\ count(pdqcb[q]) \in 0 .. pdqcnt[q] /\ Len(StoredIn(q)) = count(pdqcb[q])
      /\ \A i \in 1 .. Len(p) : a[p[i]] \in Pridata /\ waiton[p[i]] = q
      /\ WaitingAt(q) \in Seq(Pridata) /\ Len(WaitingAt(q)) = Len(p) /\ WaitingAt(q) = Along(p, a)
  BY <1>1, PdqFacts DEF WaitingAt
<1>3. /\ t \in Task
      /\ \E k \in 1 .. Len(p) + 1 : wait_queue' = [wait_queue EXCEPT ![q] = InsertBefore(@, k, t)]
  BY <1>1, QueueChanges
<1>4. PICK k \in 1 .. Len(p) + 1 : wait_queue' = [wait_queue EXCEPT ![q] = InsertBefore(@, k, t)]
  BY <1>3
<1>5. wait_queue'[q] = InsertBefore(p, k, t) /\ Only(q)
  BY <1>1, <1>4, OneQueue
<1>6. OthersStay(q) /\ ReadersStay(q) /\ StoredKept(q)
  <2>1. \A o \in Pridataq : pdqcb'[o] = pdqcb[o]
    BY <1>1
  <2> QED BY <1>5, <2>1, PdqOthersStay
<1>7. b[t] = v
  BY <1>1, <1>3 DEF PdqInv
<1>8. \A i \in 1 .. Len(p) : a[p[i]] \in Pridata /\ b[p[i]] = a[p[i]]
  <2>1. \A i \in 1 .. Len(p) : p[i] \in Task
    BY <1>2
  <2> QED BY <1>2, <2>1 DEF PridataKeep
<1>9. WaitingAt(q)' = Along(InsertBefore(p, k, t), b)
  BY <1>5 DEF WaitingAt, Along
<1> HIDE DEF p, t, a, b
<1>10. Along(InsertBefore(p, k, t), b) = InsertBefore(Along(p, a), k, b[t])
  <2> DEFINE T == Task
             S == Pridata
  <2>1. /\ p \in Seq(T) /\ t \in T /\ k \in 1 .. Len(p) + 1 /\ b[t] \in S
        /\ \A i \in 1 .. Len(p) : a[p[i]] \in S /\ b[p[i]] = a[p[i]]
    BY <1>2, <1>3, <1>7, <1>8, SMTT(60)
  <2> HIDE DEF T, S
  <2> QED BY ONLY <2>1, AlongInserted
<1>11. WaitingAt(q)' = PromisedPdq!InsertAt(WaitingAt(q), k, v)
  <2>1. WaitingAt(q) \in Seq(Pridata) /\ k \in 1 .. Len(WaitingAt(q)) + 1 /\ v \in Pridata
    BY <1>2
  <2>2. PromisedPdq!InsertAt(WaitingAt(q), k, v) = InsertBefore(WaitingAt(q), k, v)
    BY ONLY <2>1, InsertsAt
  <2> QED BY <1>2, <1>7, <1>9, <1>10, <2>2
<1>12. Len(StoredIn(q)) = pdqcnt[q] /\ k \in 1 .. Len(WaitingAt(q)) + 1
  BY <1>1, <1>2
<1> QED BY <1>2, <1>6, <1>11, <1>12, PutActions

(* The first sender in the queue is served.                                *)
LEMMA SendersAdvance ==
  ASSUME IInv, IInv', PdqInv, PridataKeep, NEW q \in Pridataq, QueueServe(q)
  PROVE  /\ wait_queue[q] # <<>> /\ Only(q)
         /\ WaitingAt(q) # <<>> /\ WaitingAt(q)' = Tail(WaitingAt(q))
         /\ Head(WaitingAt(q)) = pridata[PdqSender(q)]
<1> DEFINE p == wait_queue[q]
           a == pridata
           b == pridata'
<1>1. q \in Wobj \ Mutex /\ p # <<>>
  BY PdqQueues DEF QueueServe
<1>2. wait_queue' = [wait_queue EXCEPT ![q] = Tail(@)]
  BY <1>1, QueueChanges
<1>3. wait_queue'[q] = Tail(p) /\ Only(q)
  BY <1>1, <1>2, OneQueue
<1>4. p \in Seq(Task) /\ \A i \in 1 .. Len(p) : waiton[p[i]] = q
  BY PdqFacts
<1>5. WaitingAt(q) = Along(p, a) /\ WaitingAt(q)' = Along(Tail(p), b) /\ PdqSender(q) = Head(p)
  BY <1>3 DEF WaitingAt, Along, PdqSender
<1> HIDE DEF p
<1>6. \A i \in 1 .. Len(p) : b[p[i]] = a[p[i]]
  <2>1. \A i \in 1 .. Len(p) : p[i] \in Task
    BY <1>4
  <2> QED BY <1>4, <2>1 DEF PridataKeep
<1> DEFINE T == Task
<1>7. p \in Seq(T) /\ p # <<>> /\ \A i \in 1 .. Len(p) : b[p[i]] = a[p[i]]
  BY <1>1, <1>4, <1>6
<1> HIDE DEF a, b, T
<1>8. Along(p, a) # <<>> /\ Head(Along(p, a)) = a[Head(p)]
  BY ONLY <1>7, AlongTail
<1>9. Along(Tail(p), b) = Tail(Along(p, a))
  BY ONLY <1>7, AlongTail
<1>10. /\ WaitingAt(q) # <<>> /\ WaitingAt(q)' = Tail(WaitingAt(q))
       /\ Head(WaitingAt(q)) = a[PdqSender(q)]
  BY <1>5, <1>8, <1>9
<1> QED BY <1>1, <1>3, <1>10 DEF p, a

(* A datum taken from the blocks, which the first sender fills up again.   *)
LEMMA PdqTakesPromised ==
  ASSUME IInv, IInv', PdqInv, PridataKeep, NEW q \in Pridataq, PdqTakes(q)
  PROVE  PromisedPdq!Take(q)
<1> DEFINE s == Stored(pdqcb[q])
           e == RefilledPdq(q)
           v == pridata[PdqSender(q)]
<1>1. /\ s # <<>>
      /\ wait_queue[q] = <<>> => Stored(e) = Tail(s)
      /\ wait_queue[q] # <<>> => v \in Pridata /\ JoinsInOrder(Tail(s), v, Stored(e))
  BY RefillsPdq
<1>2. StoredIn(q)' = Stored(e) /\ \A o \in Pridataq \ {q} : pdqcb'[o] = pdqcb[o]
  BY OnePdqcb DEF PdqTakes
<1>3. StoredIn(q) = s /\ s \in Seq(Pridata) /\ (WaitingAt(q) = <<>> <=> wait_queue[q] = <<>>)
  BY PdqFacts DEF StoredIn
<1>4. CASE wait_queue[q] = <<>> /\ UNCHANGED vars
  <2>1. Only(q) /\ Same(q)
    BY <1>4 DEF vars, waitVars, Only, Same
  <2>2. OthersStay(q) /\ ReadersStay(q) /\ WaitingKept(q)
    BY <1>2, <2>1, PdqOthersStay, QueuesStay
  <2>3. StoredIn(q) # <<>> /\ WaitingAt(q) = <<>> /\ StoredIn(q)' = Tail(StoredIn(q))
    BY <1>1, <1>2, <1>3, <1>4
  <2> QED BY <2>2, <2>3, TakeActions
<1>5. CASE QueueServe(q)
  <2>1. /\ wait_queue[q] # <<>> /\ Only(q)
        /\ WaitingAt(q) # <<>> /\ WaitingAt(q)' = Tail(WaitingAt(q))
        /\ Head(WaitingAt(q)) = v
    BY <1>5, SendersAdvance
  <2>2. OthersStay(q) /\ ReadersStay(q)
    BY <1>2, <2>1, PdqOthersStay
  <2>3. PromisedPdq!HasJoined(Tail(s), v, Stored(e))
    <3> HIDE DEF s, e, v
    <3>1. Tail(s) \in Seq(Pridata) /\ v \in Pridata /\ JoinsInOrder(Tail(s), v, Stored(e))
      BY <1>1, <1>3, <2>1
    <3> QED BY ONLY <3>1, HasJoinedInOrder
  <2>4. /\ StoredIn(q) # <<>>
        /\ PromisedPdq!HasJoined(Tail(StoredIn(q)), Head(WaitingAt(q)), StoredIn(q)')
    <3> HIDE DEF s, e, v
    <3> QED BY <1>1, <1>2, <1>3, <2>1, <2>3
  <2> QED BY <2>1, <2>2, <2>4, TakeActions
<1> QED BY <1>4, <1>5 DEF PdqTakes

(* A datum taken from a sender of a queue without capacity.                *)
LEMMA PdqPassesPromised ==
  ASSUME IInv, IInv', PdqInv, PridataKeep, NEW q \in Pridataq, PdqPasses(q)
  PROVE  PromisedPdq!Take(q)
<1>1. /\ Only(q) /\ WaitingAt(q) # <<>> /\ WaitingAt(q)' = Tail(WaitingAt(q))
  BY SendersAdvance DEF PdqPasses
<1>2. OthersStay(q) /\ ReadersStay(q) /\ StoredKept(q)
  <2>1. \A o \in Pridataq : pdqcb'[o] = pdqcb[o]
    BY DEF PdqPasses
  <2> QED BY <1>1, <2>1, PdqOthersStay
<1>3. StoredIn(q) = <<>>
  BY PdqFacts DEF PdqPasses
<1> QED BY <1>1, <1>2, <1>3, TakeActions

(* A receiver waits while there is nothing to be had.                      *)
LEMMA PdqReceiveWaitPromised ==
  ASSUME IInv, IInv', PdqInv, PridataKeep, NEW q \in Pridataq, PdqReceiveWaits(q)
  PROVE  PromisedPdq!Await(q)
<1> DEFINE r == rwaitPdq[q]
           p == wait_queue[r]
           t == runtsk
<1>1. /\ r \in Wobj \ Mutex /\ QueueWait(r) /\ UNCHANGED pdqcb
      /\ count(pdqcb[q]) = 0 /\ wait_queue[q] = <<>>
  BY PdqQueues DEF PdqReceiveWaits, pdqOwn
<1>2. /\ t \in Task
      /\ \E k \in 1 .. Len(p) + 1 : wait_queue' = [wait_queue EXCEPT ![r] = InsertBefore(@, k, t)]
  BY <1>1, QueueChanges
<1>3. PICK k \in 1 .. Len(p) + 1 : wait_queue' = [wait_queue EXCEPT ![r] = InsertBefore(@, k, t)]
  BY <1>2
<1>4. wait_queue'[r] = InsertBefore(p, k, t) /\ Only(r)
  BY <1>1, <1>3, OneQueue
<1>5. OthersStay(q) /\ StoredKept(q) /\ WaitingKept(q)
  <2>1. \A o \in Pridataq : pdqcb'[o] = pdqcb[o]
    BY <1>1
  <2> QED BY <1>4, <2>1, PdqOthersStay
<1>6. p \in Seq(Task) /\ StoredIn(q) = <<>> /\ WaitingAt(q) = <<>>
  BY <1>1, PdqFacts
<1>7. ReadersAt(q)' = ReadersAt(q) + 1
  <2>1. ReadersAt(q)' = Len(InsertBefore(p, k, t)) /\ ReadersAt(q) = Len(p)
    BY <1>4 DEF ReadersAt
  <2> HIDE DEF p, t
  <2>2. p \in Seq(Task) /\ t \in Task /\ k \in 1 .. Len(p) + 1
    BY <1>2, <1>6
  <2>3. Len(InsertBefore(p, k, t)) = Len(p) + 1
    BY ONLY <2>2, InsertBeforeShape
  <2> QED BY <2>1, <2>3
<1> QED BY <1>5, <1>6, <1>7, ReaderActions

(* A priority data queue that is reinitialised loses data and tasks.       *)
LEMMA PdqResetsPromised ==
  ASSUME IInv, IInv', PdqInv, PridataKeep, NEW q \in Pridataq, PdqResets(q)
  PROVE  PromisedPdq!Clear(q)
<1> DEFINE r == rwaitPdq[q]
<1>1. /\ q \in Wobj \ Mutex /\ r \in Wobj \ Mutex
  BY PdqQueues
<1>2. /\ \A o \in Pridataq \ {q} : pdqcb'[o] = pdqcb[o]
      /\ pdqcb'[q].queue = <<>>
  <2>1. pdqcb' = [pdqcb EXCEPT ![q] = [@ EXCEPT !.queue = <<>>, !.free = <<>>, !.unused = 0]]
    BY DEF PdqResets, PdqInv
  <2>2. pdqcb[q] \in Blocks(pdqcnt[q])
    BY DEF PdqInv
  <2> DEFINE g == [pdqcb[q] EXCEPT !.queue = <<>>, !.free = <<>>, !.unused = 0]
  <2>3. g.queue = <<>>
    BY <2>2 DEF Blocks
  <2>4. pdqcb'[q] = g /\ \A o \in Pridataq \ {q} : pdqcb'[o] = pdqcb[o]
    <3>1. pdqcb' = [pdqcb EXCEPT ![q] = g]
      BY <2>1
    <3> HIDE DEF g
    <3> QED BY <3>1, OnePdqcb
  <2> QED BY <2>3, <2>4
<1>3. PICK w \in {q, r} :
        /\ QueueClear(w)
        /\ \A v \in {q, r} \ {w} : wait_queue[v] = <<>>
  BY DEF PdqResets
<1>4. wait_queue' = [wait_queue EXCEPT ![w] = <<>>]
  BY <1>1, <1>3, QueueChanges
<1>5. wait_queue'[w] = <<>> /\ Only(w)
  BY <1>1, <1>4, OneQueue
<1>6. wait_queue'[q] = <<>> /\ wait_queue'[r] = <<>>
  BY <1>1, <1>3, <1>5 DEF Only, Same
<1>7. OthersStay(q)
  BY <1>2, <1>5, PdqOthersStay
<1>8. StoredIn(q)' = <<>> /\ WaitingAt(q)' = <<>> /\ ReadersAt(q)' = 0
  BY <1>2, <1>6 DEF StoredIn, Stored, WaitingAt, ReadersAt, Along
<1> QED BY <1>7, <1>8, ReaderActions
-----------------------------------------------------------------------------
(* The kernel's own steps: a sender gives up.                              *)
LEMMA PdqLeavesPromised ==
  ASSUME IInv, PdqInv, PridataKeep, NEW q \in Pridataq, UNCHANGED pdqOwn, Only(q), Leaves(q)
  PROVE  PromisedPdq!GiveUp(q)
<1> DEFINE p == wait_queue[q]
           a == pridata
           T == Task
<1>1. pdqcb' = pdqcb /\ pridata' = pridata /\ q \in Wobj
  BY PdqQueues DEF pdqOwn
<1>2. PICK t \in Waiters(q) : wait_queue'[q] = Delete(p, t)
  BY DEF Leaves
<1>3. t \in T /\ Member(p, t)
  BY <1>1, <1>2 DEF IInv, WaitsOwned, Waiters
<1>4. /\ p \in Seq(T) /\ WaitingAt(q) \in Seq(Pridata) /\ Len(WaitingAt(q)) = Len(p)
      /\ WaitingAt(q) = Along(p, a)
  BY PdqFacts DEF WaitingAt
<1>5. WaitingAt(q)' = Along(Delete(p, t), a)
  BY <1>1, <1>2 DEF WaitingAt, Along
<1>6. OthersStay(q) /\ ReadersStay(q) /\ StoredKept(q)
  BY <1>1, PdqOthersStay
<1> HIDE DEF p, a, T
<1>7. PICK k \in 1 .. Len(p) : Along(Delete(p, t), a) = PromisedPdq!RemoveAt(Along(p, a), k)
  BY ONLY <1>3, <1>4, AlongLeft
<1>8. k \in 1 .. Len(WaitingAt(q)) /\ WaitingAt(q)' = PromisedPdq!RemoveAt(WaitingAt(q), k)
  BY <1>4, <1>5, <1>7
<1> QED BY <1>4, <1>6, <1>8, SenderActions

(* A sender that changes its place among the others.                       *)
LEMMA PdqPlacesPromised ==
  ASSUME IInv, PdqInv, PridataKeep, NEW q \in Pridataq, UNCHANGED pdqOwn, Only(q), Places(q)
  PROVE  PromisedPdq!Move(q)
<1> DEFINE p == wait_queue[q]
           a == pridata
           T == Task
           S == Pridata
<1>1. pdqcb' = pdqcb /\ pridata' = pridata /\ q \in Wobj
  BY PdqQueues DEF pdqOwn
<1>2. PICK t \in Waiters(q), k \in 1 .. Len(p) : wait_queue'[q] = InsertBefore(Delete(p, t), k, t)
  BY DEF Places
<1> DEFINE d == Delete(p, t)
<1>3. t \in T /\ Member(p, t)
  BY <1>1, <1>2 DEF IInv, WaitsOwned, Waiters
<1>4. /\ p \in Seq(T) /\ NoDuplicate(p) /\ WaitingAt(q) \in Seq(S) /\ Len(WaitingAt(q)) = Len(p)
      /\ WaitingAt(q) = Along(p, a) /\ Len(p) \in Nat
  <2>1. Len(wait_queue[q]) \in Nat
    BY PdqFacts
  <2> QED BY <2>1, PdqFacts DEF WaitingAt
<1>5. WaitingAt(q)' = Along(InsertBefore(d, k, t), a)
  BY <1>1, <1>2 DEF WaitingAt, Along
<1>6. OthersStay(q) /\ ReadersStay(q) /\ StoredKept(q)
  BY <1>1, PdqOthersStay
<1>7. \A i \in 1 .. Len(p) : a[p[i]] \in S
  BY PdqFacts
<1> HIDE DEF p, a, T, S
<1>8. PICK i \in 1 .. Len(p) : /\ Along(p, a)[i] = a[t]
                               /\ Along(d, a) = PromisedPdq!RemoveAt(Along(p, a), i)
  BY ONLY <1>3, <1>4, AlongLeft
<1>9. d \in Seq(T) /\ Len(d) = Len(p) - 1 /\ \A u : Member(d, u) <=> Member(p, u) /\ u # t
  BY ONLY <1>3, <1>4, DeleteProperties
<1>10. a[t] \in S
  BY <1>3, <1>7 DEF Member
<1>11. \A j \in 1 .. Len(d) : a[d[j]] \in S
  <2> SUFFICES ASSUME NEW j \in 1 .. Len(d) PROVE a[d[j]] \in S
    OBVIOUS
  <2>1. Member(d, d[j])
    BY DEF Member
  <2>2. Member(p, d[j])
    BY ONLY <1>9, <2>1
  <2> QED BY <1>7, <2>2 DEF Member
<1> HIDE DEF d
<1>12. k \in 1 .. Len(d) + 1
  BY ONLY <1>4, <1>9, k \in 1 .. Len(p)
<1>13. Along(InsertBefore(d, k, t), a) = InsertBefore(Along(d, a), k, a[t])
  <2>1. d \in Seq(T) /\ t \in T /\ k \in 1 .. Len(d) + 1 /\ a[t] \in S
    BY <1>3, <1>9, <1>10, <1>12
  <2>2. \A j \in 1 .. Len(d) : a[d[j]] \in S /\ a[d[j]] = a[d[j]]
    BY <1>11
  <2> QED BY ONLY <2>1, <2>2, AlongInserted
<1>14. Along(d, a) \in Seq(S) /\ Len(Along(d, a)) = Len(d)
  <2>1. Len(d) \in Nat
    BY <1>9
  <2> QED BY ONLY <1>11, <2>1 DEF Along
<1>15. PromisedPdq!InsertAt(Along(d, a), k, a[t]) = InsertBefore(Along(d, a), k, a[t])
  <2> DEFINE s == Along(d, a)
             v == a[t]
  <2>1. s \in Seq(S) /\ k \in 1 .. Len(s) + 1 /\ v \in S
    BY <1>10, <1>12, <1>14
  <2> HIDE DEF s, v
  <2>2. PromisedPdq!InsertAt(s, k, v) = InsertBefore(s, k, v)
    BY ONLY <2>1, InsertsAt
  <2> QED BY <2>2 DEF s, v
<1>16. /\ i \in 1 .. Len(WaitingAt(q)) /\ k \in 1 .. Len(WaitingAt(q))
       /\ WaitingAt(q)' = PromisedPdq!InsertAt(PromisedPdq!RemoveAt(WaitingAt(q), i), k,
                                               WaitingAt(q)[i])
  BY <1>4, <1>5, <1>8, <1>13, <1>15
<1>17. WaitingAt(q) \in Seq(Pridata)
  BY <1>4 DEF S
<1> QED BY <1>6, <1>16, <1>17, SenderActions

(* The kernel's own steps are stutters or end or move one wait.            *)
LEMMA PdqQuietPromised ==
  ASSUME IInv, IInv', PdqInv, PridataKeep, PdqQuiet
  PROVE  [PromisedPdq!Next]_(PromisedPdq!pdqChannelVars)
<1>1. KernelMove /\ UNCHANGED pdqOwn
  BY KernelMoves DEF PdqQuiet
<1>2. /\ \A o \in Pridataq : pdqcb'[o] = pdqcb[o]
      /\ \A o \in Pridataq : o \in Wobj \ Mutex /\ rwaitPdq[o] \in Wobj \ Mutex
      /\ \A o \in Pridataq : rwaitPdq[o] \notin TpriWobj
  BY <1>1, PdqQueues DEF pdqOwn
<1>3. ASSUME \A o \in Pridataq : Same(o) /\ Same(rwaitPdq[o])
      PROVE  UNCHANGED PromisedPdq!pdqChannelVars
  <2>1. \A o \in Pridataq : StoredKept(o)
    BY <1>2 DEF StoredKept, StoredIn, Stored, Along
  <2>2. \A o \in Pridataq : /\ StoredIn(o)' = StoredIn(o)
                            /\ WaitingAt(o)' = WaitingAt(o)
                            /\ ReadersAt(o)' = ReadersAt(o)
    BY <1>3, <2>1, QueuesStay DEF StoredKept, WaitingKept, ReadersStay
  <2>3. /\ StoredLines' = StoredLines /\ WaitingLines' = WaitingLines
        /\ ReaderCounts' = ReaderCounts
    BY <2>2 DEF StoredLines, WaitingLines, ReaderCounts, StoredIn, WaitingAt, ReadersAt
  <2> QED BY <2>3 DEF PromisedPdq!pdqChannelVars, StoredLines, WaitingLines, ReaderCounts
<1>4. CASE AllSame
  BY <1>2, <1>3, <1>4 DEF AllSame
<1>5. ASSUME NEW w \in Wobj \ Mutex, Only(w), Leaves(w) \/ (w \in TpriWobj /\ Places(w))
      PROVE  [PromisedPdq!Next]_(PromisedPdq!pdqChannelVars)
  <2>1. CASE w \in Pridataq
    BY <1>1, <1>5, <2>1, PdqLeavesPromised, PdqPlacesPromised DEF PromisedPdq!Next
  <2>2. ASSUME NEW q \in Pridataq, w = rwaitPdq[q] PROVE PromisedPdq!GiveUp(q)
    <3>1. Leaves(w)
      BY <1>2, <1>5, <2>2
    <3>2. OthersStay(q) /\ StoredKept(q) /\ WaitingKept(q)
      BY <1>2, <1>5, <2>2, PdqOthersStay
    <3>3. PICK t \in Waiters(w) : wait_queue'[w] = Delete(wait_queue[w], t)
      BY <3>1 DEF Leaves
    <3>4. wait_queue[w] \in Seq(Task) /\ t \in Task /\ Member(wait_queue[w], t)
          /\ NoDuplicate(wait_queue[w])
      BY <1>5 DEF IInv, TypeOK, WaitsOwned, Waiters
    <3>5. Len(Delete(wait_queue[w], t)) = Len(wait_queue[w]) - 1 /\ Len(wait_queue[w]) > 0
      BY <3>4, DeleteProperties DEF Member
    <3>6. ReadersAt(q) > 0 /\ ReadersAt(q)' = ReadersAt(q) - 1
      BY <2>2, <3>3, <3>5 DEF ReadersAt
    <3>7. PromisedPdq!OneReaderLess(q)
      BY <3>2, <3>6, ReaderActions
    <3> QED BY <3>7 DEF PromisedPdq!GiveUp
  <2>3. CASE w \notin Pridataq /\ \A o \in Pridataq : w # rwaitPdq[o]
    BY <1>2, <1>3, <1>5, <2>3 DEF Only
  <2> QED BY <2>1, <2>2, <2>3 DEF PromisedPdq!Next
<1> QED BY <1>1, <1>4, <1>5 DEF KernelMove

(* Every step of the priority data queues is one of their channels, or a   *)
(* stutter.                                                                *)
LEMMA PriorityChannelSteps ==
  ASSUME IInv, IInv', PdqInv, [PdqNext]_pdqVars
  PROVE  [PromisedPdq!Next]_(PromisedPdq!pdqChannelVars)
<1>1. PdqQuiet \/ \E q \in Pridataq : PdqStep(q)
  BY PridataqSteps
<1>2. PridataKeep
  BY <1>1, PridataKept
<1>3. CASE PdqQuiet
  BY <1>2, <1>3, PdqQuietPromised
<1>4. ASSUME NEW q \in Pridataq, PdqStep(q) PROVE PromisedPdq!Next
  <2>1. ASSUME NEW v \in Pridata, PdqHands(q, v) \/ PdqStores(q, v) \/ PdqSendWaits(q, v)
        PROVE  PromisedPdq!Put(q, v)
    BY <1>2, <2>1, PdqHandsPromised, PdqStoresPromised, PdqSendWaitPromised
  <2>2. PdqTakes(q) \/ PdqPasses(q) => PromisedPdq!Take(q)
    BY <1>2, PdqTakesPromised, PdqPassesPromised
  <2>3. PdqReceiveWaits(q) => PromisedPdq!Await(q)
    BY <1>2, PdqReceiveWaitPromised
  <2>4. PdqResets(q) => PromisedPdq!Clear(q)
    BY <1>2, PdqResetsPromised
  <2> QED BY <1>4, <2>1, <2>2, <2>3, <2>4 DEF PdqStep, PromisedPdq!Next
<1> QED BY <1>1, <1>3, <1>4

(* Priority data queues implement the channels of PriorityChannel: linked  *)
(* management blocks, waiting senders and their data give each datum away  *)
(* in its turn, whatever the capacities, the reuse of the blocks, the      *)
(* order of the senders and the waits that end early.                      *)
THEOREM PriorityChannelImplemented == PdqSpec => PriorityPromised
<1> DEFINE I == IInv /\ SInv /\ ResultPending /\ PdqInv
           A == \A q \in Pridataq :
                  /\ FirstServed(q) /\ FirstServed(rwaitPdq[q])
                  /\ \A t \in Task : Served(rwaitPdq[q], t) => pridata'[t] \in Pridata
<1>1. PdqInit => PromisedPdq!Init
  <2> SUFFICES ASSUME PdqInit PROVE PromisedPdq!Init
    OBVIOUS
  <2>1. \A q \in Pridataq : /\ wait_queue[q] = <<>> /\ wait_queue[rwaitPdq[q]] = <<>>
                            /\ pdqcb[q].queue = <<>>
    BY PdqQueues DEF PdqInit, Init, InitialPdq
  <2>2. \A q \in Pridataq : /\ Stored(pdqcb[q]) = <<>>
                            /\ Along(wait_queue[q], pridata) = <<>>
                            /\ Len(wait_queue[rwaitPdq[q]]) = 0
    BY <2>1 DEF Stored, Along
  <2> QED BY <2>2 DEF PromisedPdq!Init
<1>2. ASSUME I, I', [PdqNext]_pdqVars PROVE [PromisedPdq!Next]_(PromisedPdq!pdqChannelVars)
  BY <1>2, PriorityChannelSteps
<1>3. ASSUME I, I', [PdqNext]_pdqVars PROVE A
  <2>1. ASSUME NEW q \in Pridataq, NEW t \in Task, Served(rwaitPdq[q], t)
        PROVE  pridata'[t] \in Pridata
    <3>1. PICK v \in Pridata : PdqHands(q, v) /\ t = Head(wait_queue[rwaitPdq[q]])
      BY <1>3, <2>1, PridataqQueues
    <3>2. pridata' = [pridata EXCEPT ![t] = v]
      BY <3>1 DEF PdqHands, PdqReceiver
    <3> QED BY <1>3, <3>2 DEF PdqInv
  <2> QED BY <1>3, <2>1, PridataqQueues
<1>4. PdqSpec => []I
  BY PridataqInvariant
<1> QED BY <1>1, <1>2, <1>3, <1>4, PTL DEF PdqSpec, PriorityPromised, PromisedPdq!Spec
=============================================================================
