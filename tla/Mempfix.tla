------------------------------- MODULE Mempfix -------------------------------
(***************************************************************************)
(* Fixed-size memory pools: kernel/mempfix.zig on top of TaskKernel.       *)
(* Blocks are their indices.  rel_mpf checks its argument before it locks  *)
(* the CPU, and get_mpf goes on after a wait: these two calls can be       *)
(* preempted half-way, so each has a second action, and a task that is in  *)
(* the middle of one does nothing else.                                    *)
(***************************************************************************)
EXTENDS TaskKernel, FiniteSets

CONSTANTS Mpf,        (* the memory pools                                  *)
          blkcnt,     (* their numbers of blocks                           *)
          NoBlk       (* a block pointer that was never written            *)

ASSUME MempfixAssumption ==
  /\ Mpf \subseteq Wobj \ Mutex
  /\ blkcnt \in [Mpf -> Nat \ {0}]
  /\ NoBlk \notin Nat

INDEX_NULL  == -1
INDEX_ALLOC == -2

VARIABLES
  mpfcb,      (* fblkcnt, unused and freelist of MPFCB, and the next       *)
              (* fields of p_mpfmb                                         *)
  blk,        (* WINFO_MPF.blk of a task in get_mpf                        *)
  p_blk,      (* the variable in which a task gets its block from get_mpf  *)
  getting,    (* the tasks that wait, or have waited, inside get_mpf       *)
  releasing   (* <<task, pool, block>>: rel_mpf between its checks and     *)
              (* its CPU lock                                              *)

mpfOwn  == <<mpfcb, blk, p_blk, getting, releasing>>
mpfVars == <<vars, mpfOwn>>

Index(m) == 0 .. blkcnt[m] - 1

(* The next fields are undefined memory until the block is used first.     *)
Initial(m) ==
  [fblkcnt |-> blkcnt[m], unused |-> 0, freelist |-> INDEX_NULL,
   next |-> [b \in Index(m) |-> INDEX_NULL]]

MpfInit ==
  /\ Init
  /\ mpfcb = [m \in Mpf |-> Initial(m)]
  /\ blk = [t \in Task |-> NoBlk] /\ p_blk = [t \in Task |-> NoBlk]
  /\ getting = {} /\ releasing = {}

NextBlock(c) == IF c.freelist # INDEX_NULL THEN c.freelist ELSE c.unused

getMpfBlock(c) ==
  LET b == NextBlock(c)
      d == IF c.freelist # INDEX_NULL THEN [c EXCEPT !.freelist = c.next[b]]
                                      ELSE [c EXCEPT !.unused = @ + 1]
  IN  [d EXCEPT !.fblkcnt = @ - 1, !.next[b] = INDEX_ALLOC]

putMpfBlock(c, b) ==
  [c EXCEPT !.fblkcnt = @ + 1, !.next[b] = c.freelist, !.freelist = b]

Busy(t) == t \in getting \/ \E r \in releasing : r[1] = t

TaskCall == checkContextTaskUnlock /\ ~ Busy(runtsk)

acquire(m) ==
  /\ mpfcb[m].fblkcnt > 0
  /\ mpfcb' = [mpfcb EXCEPT ![m] = getMpfBlock(@)]
  /\ p_blk' = [p_blk EXCEPT ![runtsk] = NextBlock(mpfcb[m])]
  /\ UNCHANGED <<vars, blk, getting, releasing>>

(* get_mpf (not timed), tget_mpf with TMO_FEVR (not timed) or a time.      *)
get_mpf(m, timed) ==
  /\ TaskCall /\ checkDispatch /\ ~ raster[runtsk]
  /\ \/ acquire(m)
     \/ /\ mpfcb[m].fblkcnt = 0
        /\ wobj_wait(m, timed)
        /\ getting' = getting \cup {runtsk}
        /\ UNCHANGED <<mpfcb, blk, p_blk, releasing>>

(* Behind the dispatch: the result of the wait is returned, the block is   *)
(* left where rel_mpf has put it, in winfo_mpf, which ends with the call.  *)
get_mpf_return ==
  /\ TaskContext /\ runtsk \in getting
  /\ getting' = getting \ {runtsk}
  /\ blk' = [blk EXCEPT ![runtsk] = NoBlk]
  /\ UNCHANGED <<vars, mpfcb, p_blk, releasing>>

pget_mpf(m) == TaskCall /\ acquire(m)

(* The application lets only one task release a block at a time.           *)
rel_mpf_check(m, b) ==
  /\ TaskCall
  /\ b < mpfcb[m].unused /\ mpfcb[m].next[b] = INDEX_ALLOC
  /\ \A r \in releasing : <<r[2], r[3]>> # <<m, b>>
  /\ releasing' = releasing \cup {<<runtsk, m, b>>}
  /\ UNCHANGED <<vars, mpfcb, blk, p_blk, getting>>

rel_mpf_Count(m, b) ==                                          (* mutant *)
  /\ TaskContext /\ <<runtsk, m, b>> \in releasing
  /\ mpfcb' = [mpfcb EXCEPT ![m] = putMpfBlock(@, b)]
  /\ IF wait_queue[m] = <<>> THEN UNCHANGED <<vars, blk>>
     ELSE /\ blk' = [blk EXCEPT ![Head(wait_queue[m])] = b]
          /\ wobj_release_first(m)
  /\ releasing' = releasing \ {<<runtsk, m, b>>}
  /\ UNCHANGED <<p_blk, getting>>

rel_mpf(m, b) ==
  /\ TaskContext /\ <<runtsk, m, b>> \in releasing
  /\ \/ /\ wait_queue[m] # <<>>
        /\ blk' = [blk EXCEPT ![Head(wait_queue[m])] = b]
        /\ wobj_release_first(m)
        /\ UNCHANGED mpfcb
     \/ /\ wait_queue[m] = <<>>
        /\ mpfcb' = [mpfcb EXCEPT ![m] = putMpfBlock(@, b)]
        /\ UNCHANGED <<vars, blk>>
  /\ releasing' = releasing \ {<<runtsk, m, b>>}
  /\ UNCHANGED <<p_blk, getting>>

Reinitialised_KeepList(c, m) ==                                 (* mutant *)
  [c EXCEPT !.fblkcnt = blkcnt[m], !.unused = 0]

Reinitialised(c, m) ==
  [c EXCEPT !.fblkcnt = blkcnt[m], !.unused = 0, !.freelist = INDEX_NULL]

(* No pool is reinitialised between the check and the lock of a release,   *)
(* which would return a block that is free already.                        *)
ini_mpf(m) ==
  /\ TaskCall
  /\ \A r \in releasing : r[2] # m
  /\ wobj_release(m, Waiters(m), "error")
  /\ mpfcb' = [mpfcb EXCEPT ![m] = Reinitialised(@, m)]
  /\ UNCHANGED <<blk, p_blk, getting, releasing>>

MempfixCall ==
  \/ get_mpf_return
  \/ \E m \in Mpf :
       \/ pget_mpf(m) \/ ini_mpf(m)
       \/ \E timed \in BOOLEAN : get_mpf(m, timed)
       \/ \E b \in Index(m) : rel_mpf_check(m, b) \/ rel_mpf(m, b)

(* A task that is terminated leaves the call it was in.                    *)
Terminated(t) == tstat'[t] = "DORMANT" \/ (actque'[t] < actque[t] /\ ~ can_act(t))

AbandonCalls ==
  /\ getting' = {t \in getting : ~ Terminated(t)}
  /\ releasing' = {r \in releasing : ~ Terminated(r[1])}
  /\ blk' = [t \in Task |-> IF Terminated(t) THEN NoBlk ELSE blk[t]]
  /\ UNCHANGED <<mpfcb, p_blk>>

MayCall == nest = 0 /\ runtsk # NoTask => ~ Busy(runtsk)

MpfNext ==
  \/ (Boot \/ Interrupt \/ (MayCall /\ KernelCall)) /\ AbandonCalls
  \/ MempfixCall

MpfSpec == MpfInit /\ [][MpfNext]_mpfVars
-----------------------------------------------------------------------------
(* The list of free blocks from its head, INDEX_NULL behind its end.       *)
FreeChain(m) ==
  LET c == mpfcb[m]
      chain[n \in 0 .. blkcnt[m]] ==
        IF n = 0 THEN c.freelist
        ELSE IF chain[n - 1] \in Index(m) THEN c.next[chain[n - 1]] ELSE INDEX_NULL
  IN  chain

Returned(m) == {b \in Index(m) : b < mpfcb[m].unused /\ mpfcb[m].next[b] # INDEX_ALLOC}

(* Every block is in one place: the free list holds the blocks that were   *)
(* used and returned, each once, and fblkcnt counts them and those never   *)
(* used.                                                                   *)
BlocksAccounted ==
  \A m \in Mpf :
    LET chain == FreeChain(m)
    IN  /\ chain[blkcnt[m]] = INDEX_NULL
        /\ {chain[n] : n \in DOMAIN chain} \ {INDEX_NULL} = Returned(m)
        /\ mpfcb[m].fblkcnt = Cardinality(Returned(m)) + blkcnt[m] - mpfcb[m].unused

(* No block lies idle while a task waits for one.                          *)
NoBlockIdle == \A m \in Mpf : wait_queue[m] # <<>> => mpfcb[m].fblkcnt = 0

(* Waiting tasks are served in queue order, each with the block released.  *)
MpfFirstServed ==
  [][\A m \in Mpf : /\ FirstServed(m)
                    /\ \A t \in Task : Served(m, t) => blk'[t] \notin Returned(m)']_mpfVars

(* blk is the block acquired (the comment on WINFO_MPF): a get_mpf that    *)
(* had to wait and returns without an error hands it to its caller.        *)
BlockHandedOver ==
  [][get_mpf_return /\ winfo[runtsk] = "ok" => p_blk'[runtsk] = blk[runtsk]]_mpfVars
=============================================================================
