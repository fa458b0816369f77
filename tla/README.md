# A verification project for ASP3 in Zig

TOPPERS/ASP3 is a real-time kernel for one processor after the µITRON
specification; this repository is its implementation in Zig, with the drivers,
system services and tests that belong to it.  The modules here model the
kernel's own logic and the stateful system services as TLA+, check them with
TLC on small instances and prove with TLAPS what matters most about
scheduling, task states, mutexes, synchronisation objects, time, the serial port
and the log, for every number of tasks, priorities and objects and all sizes.

Contents: [the system](#the-system) · [the models](#the-models) ·
[the runs](#the-runs) · [the proofs](#the-proofs) ·
[disagreements found](#disagreements-found) · [what is not modelled](#what-is-not-modelled) ·
[the plan](#the-plan)

## The system

### Components

| component | source | state | operations |
|---|---|---|---|
| Ready queue and scheduling decision | `kernel/task.zig`, `library/queue.zig`, `library/prio_bitmap.zig` | `ready_queue`, `ready_primap`, `p_schedtsk`, `dspflg` | `make_runnable`, `make_non_runnable`, `change_priority`, `rotate_ready_queue`, `set_dspflg`, `searchSchedtsk` |
| Task states, start, termination | `kernel/task.zig`, `task_manage.zig`, `task_term.zig` | the TCB: state, base and current priority, request counts, termination flags | `act_tsk`, `can_act`, `chg_pri`, `ext_tsk`, `ras_ter`, `dis_ter`, `ena_ter`, `ter_tsk` |
| Task-dependent synchronisation | `kernel/task_sync.zig` | wake-up counts, suspension | `slp_tsk`, `tslp_tsk`, `wup_tsk`, `can_wup`, `rel_wai`, `sus_tsk`, `rsm_tsk`, `dly_tsk` |
| Waiting | `kernel/wait.zig` | `WINFO` (a union), the time event of a wait, the wait queues | `make_wait` … `init_wait_queue`, `wait_tmout` |
| System state, priority mask | `kernel/sys_manage.zig`, `interrupt.zig`, `check.zig` | `enadsp`, the mask, the CPU lock | `rot_rdq`, `loc_cpu`, `unl_cpu`, `dis_dsp`, `ena_dsp`, `chg_ipm`, the context checks |
| Dispatcher, interrupt entry | `arch/arm_gcc/common/core_kernel_impl.zig` | `p_runtsk`, nesting count | `dispatch`, `startDispatch`, `irq_handler` |
| Mutexes | `kernel/mutex.zig` | owner of each mutex, list of mutexes of each task | `loc_mtx`, `ploc_mtx`, `tloc_mtx`, `unl_mtx`, `ini_mtx` and the hooks of task management |
| Semaphores | `kernel/semaphore.zig` | `semcnt` | `sig_sem`, `wai_sem`, `pol_sem`, `twai_sem`, `ini_sem` |
| Event flags | `kernel/eventflag.zig` | `flgptn`, pattern and mode of each wait | `set_flg`, `clr_flg`, `wai_flg`, `pol_flg`, `twai_flg`, `ini_flg` |
| Data queues | `kernel/dataqueue.zig` | ring buffer, two wait queues | `snd_dtq`, `psnd_dtq`, `tsnd_dtq`, `fsnd_dtq`, `rcv_dtq`, `prcv_dtq`, `trcv_dtq`, `ini_dtq` |
| Priority data queues | `kernel/pridataq.zig` | sorted list over a pool of cells, two wait queues | as data queues, with a priority |
| Fixed-size memory pools | `kernel/mempfix.zig` | free list, `unused`, `fblkcnt` | `get_mpf`, `pget_mpf`, `tget_mpf`, `rel_mpf`, `ini_mpf` |
| Time events, system time | `kernel/time_event.zig`, `time_manage.zig` | heap, current event time, boundary of the 32-bit counter, the high resolution timer | `tmevtb_enqueue`, `tmevtb_dequeue`, `signal_time`, `set_hrt_event`, `set_tim`, `get_tim`, `adj_tim` |
| Cyclic and alarm notifications | `kernel/cyclic.zig`, `alarm.zig`, `notify.zig` | started or not, next event | `sta_cyc`, `stp_cyc`, `sta_alm`, `stp_alm`, the notification |
| Overrun handler | `kernel/overrun.zig` | remaining time of a task, the timer | `sta_ovr`, `stp_ovr`, `ovrtimer_start`, `ovrtimer_stop` |
| Serial port | `syssvc/tSerialPortMain.c`, `arch/arm_gcc/common/tUartPL011.c` | two buffers and their semaphores, flow control both ways, the UART and its interrupt mask | `eSerialPort_open`, `_close`, `_read`, `_write`, `_control`, the callbacks `readySend`, `readyReceive` |
| System log and log task | `syssvc/tSysLog.c`, `tLogTaskMain.c` | log buffer, count of lost entries, masks | `eSysLog_write`, `_read`, `_mask`, `_flush`; the log task's loop, `eLogTask_flush`, its termination routine |

Further parts without a logic of their own (static API, C interface, reference
calls, interrupt controller, trace log, TECS glue, targets and tests) are
listed in `PROJECT.json` with the reason why there is no model of them.

### How they interact

All kernel state is shared memory.  A service call checks its context and its
arguments, takes the CPU lock, changes the state and leaves, with a dispatch
(`taskDispatch`, from a task) or without one (from an interrupt handler:
`requestTaskDispatch` leaves it to the end of the outermost handler).  On one
processor the lock makes a call atomic.  What is left of concurrency is

* the order of the calls, from tasks and from handlers that nest,
* what lies outside the lock: checks made before it (`rel_mpf`), the windows
  `signal_time` opens between callbacks, and the code of a call behind the
  dispatch in which it waited, and
* the way a wait ends, for which a time-out, a release, a hand-over, a
  termination and a reinitialisation compete.

Waiting ties the parts together: each object puts the running task into its
queue through `wobj_make_wait`, and takes it out through `wait_complete`,
`init_wait_queue`, or, from outside, `wait_dequeue_wobj`.  Terminating a task
releases its mutexes, which may end the waits of other tasks and raise their
priorities; a priority change moves a task in the ready queue or in the
priority-ordered queue it waits in.

Time comes in from one interrupt.  `signal_time` takes due events off the heap
and calls them back; the callbacks (a time-out, a cyclic or an alarm
notification) register events and, with the CPU unlocked, let anything else
happen.  Whoever changes the first event sets the timer, unless `signal_time`
is at work, which sets it at its end.  The overrun timer is started and stopped
by the dispatcher and at interrupt entry and exit.  The log task reads the log,
which handlers write to at any time, and prints through the serial port, whose
buffers are shared with the UART's interrupt handler; two semaphores with one
unit each say who may touch them.

### What is hard

* *Incremental scheduling.*  `p_schedtsk` caches the choice of the scheduler;
  five functions keep it up to date with a case analysis of their own, and
  while `dspflg` is clear none of them may touch it.
* *Dispatching.*  Each call decides whether it ends in a dispatch.
* *The wait union.*  `WINFO` holds the pointer to a time event that lives on
  the waiting task's stack, and then, in the same word, the result.
* *Termination.*  A task may be terminated in any state, may defer it, and may
  have been asked for it while waiting, suspended or with dispatching off.
* *Priority ceilings.*  The current priority is raised and dropped in steps.
* *Serving several waits in one call*, in queue order, with data that change
  hands on the way: event flags, data queues, memory pools.
* *Time.*  Event times wrap around, so that order exists only relative to a
  boundary that moves; the time can be adjusted either way; callbacks register
  events themselves; the interrupt comes late and must be set again.
* *Processor time.*  The budget of a task moves between its TCB and a timer
  that counts on, whose interrupt may be taken when its task is gone.
* *Rights passed on.*  In the serial port, a unit of a semaphore that is not
  given back on exactly the right step stops a direction for good.

The list of hazards with their lines, and the property that covers each, is in
`PROJECT.json`.

### What makes each component correct

* Scheduling: the queues, the bitmap, the cached choice, the task states and
  the priorities agree; the processor is with the first task of the highest
  priority unless that is held back; order within a priority is kept.
* Waiting: a task is in the queue it waits in and in no other; its time event
  is registered exactly while it needs it; queues stay ordered.
* Termination: nothing of a task's former life survives it, except a queued
  start request, which starts it again; a request is neither lost nor early.
* Mutexes: one owner, who is handed it in order; ceilings are respected, the
  priority is always the one the mutexes held call for.
* Objects: nobody waits for what is there; the first in the queue is served
  first; what is handed over arrives, once.
* Time: an event is registered exactly while it should be; none is called
  early, the earliest first, each at some time; periods do not drift; the
  system time does not run backwards.
* Overrun: a task pays for its own time only, and an overrun is noticed.
* Serial port: the rights are conserved, characters keep their order, none is
  forgotten in a buffer.  Log: nothing is lost without being counted.

## The models

```
TaskQueue ── ReadyQueue ── TaskKernel ─┬─ Mutex ─────┐
    │                        │         ├─ Semaphore ─┼─ MCResources
    └── Scheduling ──────────┘         ├─ Mempfix ───┘
        (refined by)                   ├─ Eventflag ─┐
                                       ├─ Dataqueue ─┼─ MCMessages
     (FifoChannel, PriorityChannel     ├─ Pridataq ──┘
      refined by Dataqueue, Pridataq)  └─ Overrun
TimeHeap ─┬─ TimeEvent ── Notification ── CheckedBuild
          │                    └ TimerService    (refined by)
          └─ EventHeap
                └ PriorityQueue   (refined by)
SerialPort ── SerialPeer        PacedLine ── LogService
    └ PacedLine (refined by)

TaskKernelProofs ─┬─ SchedulingProofs     TimeHeapProofs ── NotificationProofs
                  ├─ ResourceProofs       SerialPortProofs
                  └─ MessageProofs        LogServiceProofs
```

The proof modules also extend the modules they are about: `SchedulingProofs`
`Overrun`, `ResourceProofs` the mutexes, semaphores and pools, `MessageProofs`
the flags and queues.

### The kernel

**TaskQueue** has the operations of `queue.zig` on a sequence of tasks, and
`queue_insert_tpri`.  A ring list seen from its header is a sequence; that a
TCB has one link is what makes `WaitQueuesMatch` and `ReadyQueueConsistent`
necessary.

**ReadyQueue** translates the functions of `task.zig` that work on the four
scheduling globals, as operators on a record of them, branch by branch.
`ready_primap` is a set of priorities, its search the minimum.

**TaskKernel** is the state machine.  Its variables are the fields of the TCB,
of the wait information and of the mutexes, and the dispatcher's state:

| variable | code |
|---|---|
| `rdy` | `ready_queue`, `ready_primap`, `p_schedtsk`, `dspflg` |
| `runtsk`, `nest`, `cpulock` | `p_runtsk`, `excpt_nest_count`, the CPU lock of the running context |
| `tstat`, `waiton` | `TCB.tstat`: the state, and the cause of the wait with the object |
| `bprio`, `prio`, `actque`, `wupque`, `raster`, `enater` | the TCB fields of these names |
| `winfo`, `tmevt` | which member of the `WINFO` union was stored last; the tasks whose time event is registered |
| `wait_queue` | `WOBJCB.wait_queue` |
| `loctsk`, `lastmtx` | `MTXCB.p_loctsk`; the list `TCB.p_lastmtx`, `MTXCB.p_prevmtx` |
| `enadsp`, `ipmall` | the flags `dspflg` is computed from |
| `torder`, `kerflg` | what `initialize_task` has still to do; the kernel is in operation |

One service call is one action, the helpers it calls are operators in it.  The
actor is the running task when `nest = 0`, the innermost handler otherwise.  A
call that returns an error has changed nothing and is no action (the calls
that change something *and* return an error are: a queued termination request,
for instance).  `tslp_tsk` and `slp_tsk` are one action with a parameter,
`timed`.  An interrupt handler is `enter_int`, any calls, `leave_int`; a
time-out is a handler's `wait_tmout`, which may come as soon as the event is
registered (`Notification` has the times).  The mutexes' state and what
terminating a task and changing its priority do with them are in this module
because `task.zig` calls them; the calls on mutexes are in `Mutex`.

`ObjectCall` stands for all synchronisation objects: a task waits in a queue,
or some tasks of a queue are served or released in queue order, with or
without an error.  What is checked and proved about `Spec` covers the way
semaphores, event flags, data queues and pools use the kernel.

**Scheduling** is the abstract specification: ready tasks queue up by
priority, the first of the highest queue runs, unless it is held back; in one
step tasks become ready, or one leaves or moves, or a queue is rotated.  It has
no bitmap, no cached choice, no flags.  `TaskKernel` implements it by the
mapping `Promise`, when no mutex is involved (`queue <- rdy.ready_queue`,
`running <- runtsk`, `held <- ~ dspflg`, `busy <- ~ kerflg \/ nest > 0`).

**Mutex**, **Semaphore**, **Eventflag**, **Dataqueue**, **Pridataq** and
**Mempfix** extend `TaskKernel` with their object's state and one action per
call (the timed and the untimed form share one).  Their steps beside their own
calls are `KernelCall`, all other steps of the kernel.

* In `Eventflag` a `FLGPTN` is the set of its bits; the walk of `set_flg` over
  the queue is described by the set of tasks it serves, `Released`.  `waiptn`
  keeps its double use.
* `Dataqueue` keeps the ring buffer with `count`, `head` and `tail` as the
  code has it, and two queues for each object.  **FifoChannel** is the
  abstract specification of all data queues: a line of data for each, in which
  no one can tell whether a datum is in the buffer or with a waiting sender;
  no step touches more than one of them.
* `Pridataq` keeps the list sorted by priority over blocks that are taken from
  `unused` and a free list and used again.  **PriorityChannel** is its
  abstract specification: the most urgent of the data stored is received, of
  equally urgent ones the oldest; the data of waiting senders follow one by one
  as room appears, in the order of the senders, and then find their place.
* `Mempfix` keeps the free list threaded through the `next` fields.  `rel_mpf`
  checks before it locks the CPU, so it is two actions (`rel_mpf_check`,
  `rel_mpf`), and `get_mpf` behind a wait is one (`get_mpf_return`).

**Overrun** adds the overrun handler: `ovr` has `staovr` and `leftotm` of the
TCBs and the watchdog used as overrun timer (`enable`, `count`, `int`), and
each step of the kernel says what it does to the timer (`Dispatched`,
`ovr_enter_int`, `ovr_leave_int`, `Ended`).  `owed` is history: the time each
task is still to be given, counted by `Tick` with no regard to the code.

### Time

**TimeHeap** has the heap: `tmevt_up`, `tmevt_down`, insertion and both
deletions, as operators on a record with `heap`, `index` and `evttim`.  A path
is found by a recursive function; moving the events along it is one `EXCEPT`.
**EventHeap** drives it with any order of insertions and deletions, its boundary
anywhere; **PriorityQueue** is its abstract specification: a set of events with
times.

**TimeEvent** has the rest of `time_event.zig` and `time_manage.zig`:
`update_current_evttim`, `set_hrt_event`, registering and deleting with the
timer set anew if necessary, the adjustment and the system time, with counters
modulo `W`, `HRTCNT_MOD`, `TCYC_HRTCNT` and `SYSTIM_MOD`.  The timer is the
comparator of the global timer: `hrt`, `hrt_left`, `hrt_request`.

**Notification** is the state machine on top: cyclic and alarm notifications,
waits with a time-out, the calls on the time, and `signal_time` step by step.
`sig.at` says where it is: at work with the CPU locked, or in a `"window"`, in
which a callback has unlocked the CPU and any call may come.  `Tick` counts on
at any time; `late` counts the ticks since the interrupt is due.
**TimerService** is the abstract specification: each started event has a time
left, is called when none is left and the earliest first, a periodic one goes
on with exactly its period; the system time runs backwards in `set_tim` only.
**CheckedBuild** is the same with the arithmetic checks of the build mode the
makefiles choose.

### Services

**SerialPort** is the serial driver on its UART: `p` is the port (buffers,
flow control flags, semaphores) with the registers `rx`, `tx` and the mask
`txim`; `call` is where each task is in `read` or `write`.  Everything under the
CPU lock is one step (`put`, `get`), as is the interrupt handler.
**PacedLine** is its abstract specification: the characters accepted go out in
order and not while the peer holds the line; only START and STOP overtake.
**SerialPeer** adds what the peer was told last.

**LogService** is the system log and the log task, on a line of which it needs
no more than `PacedLine` promises: it EXTENDS that module, so the two are
composed through the abstract specification that `SerialPort` implements.

## The runs

| run | instance | checks | distinct states | shows |
|---|---|---|---|---|
| `kernel_two` | 2 tasks of 2 priorities, a priority-ordered object, all of `Next` | `TypeOK`, `ReadyQueueConsistent`, `DispatchDone`, `DspflgCoherent`, `TimeEventsOwned`, `TerminationPending`, `WaitQueuesMatch`, `StartRequestKept` | 711,763 | every call in every state of two tasks: the mask, the CPU lock, waits, time-outs, termination, which leaves nothing behind |
| `kernel_overrun` | 3 tasks on 2 priorities, two of them with budgets of 1 or 2, the scheduling calls, 2 nested handlers; or 7 time events, 4 times of a counter that wraps, every boundary | `BudgetKept`, `OverrunNoticed`, `ReadyOrderKept`, `SchedulingPromised`, `QueuePromised` | 234,558 | a task pays for its own time only; precedence within a priority, which needs three tasks: two queued and one elsewhere; the heap of time events implements the priority queue in any order of insertions and deletions, on three levels |
| `resources_contend` | 3 tasks on 3 priorities; a ceiling and a plain mutex; semaphores of 1 of 2 and 0 of 1 units; a pool of 2 blocks | `ReadyQueueConsistent`, `DispatchDone`, `OwnersMatch`, `HandedOver`, `PriorityInherited`, `CeilingRespected`, `NoUnitIdle`, `BlocksAccounted`, `NoBlockIdle`, `GrantedInOrder` | 1,078,786 | scheduling and dispatching also where mutexes change priorities; hand-over, priority changes of owners and waiting tasks, termination of owners, reinitialisation, preemption in the middle of calls; nothing idle while a task waits |
| `messages_pass` | 3 tasks on 2 priorities; two flags of 2 bits; data queues with 0 and 2 cells; a priority data queue with 2 cells and 2 priorities | `NoMissedFlag`, `NobodyWaitsInVain`, `PatternTold`, `ServedOnceInOrder`, `ChannelPromised`, `DataDelivered`, `PriorityPromised` | 244,441 | no wait is missed, one call serves several tasks; data pass directly, the ring fills, wraps around and refills from waiting senders; priorities decide, arrival within one |
| `time_events` | a cyclic notification, an alarm and a time-out, counters modulo 6, timer period 6, bound 3 | `RegisteredWhileActive`, `InterruptArmed`, `TimerPromised`, `EventuallyCalled` | 365,328 | the windows of `signal_time`, wrap-around, adjustment, late interrupts |
| `serial_serve` | a task that writes, opens, closes and sets the controls, one that reads two characters with echo, buffers of 2 and 3 | `RightsConserved`, `SendingGoesOn`, `LinePromised`, `PortServes` | 478,618 | two tasks and the interrupt handler share buffers and UART, the peer stops and restarts them, either task is released from any of its waits |
| `log_flush` | a log of 2 entries, up to 4 recorded | `EntriesAccounted`, `FlushEnds` | 32,824 | overwriting, both ways of printing, both flushes, termination |
| `kernel_bit`, `mempfix_blk`, `cyclic_wrap`, `serial_flow`, `serial_echo` | | one property each, which fails | | see [below](#disagreements-found) |

`CHECK_DEADLOCK FALSE` is set because the system may really stop: every task
may exit, or wait for ever, with no interrupt to come; the log and the heap of
the small instances may be exhausted.

Bounds, and why they are enough:

* *Tasks.*  Two tasks reach every pair of task states with every flag; three
  are needed where order in a queue matters, and used there.
* *Priorities.*  Two give higher, equal and lower; the resources have three so
  that a ceiling lies between or above two base priorities.
* *`MaxNest`*, the depth of nested handlers, bounds `enter_int`.  Two levels
  are the first where an inner handler returns to an outer one, in
  `kernel_overrun`; where nesting is not the question it is 1.
* *One kind in use.*  `MCResources` and `MCMessages` choose in the initial
  state which kind of object a behaviour uses (`inUse`); kinds have no state in
  common but the tasks', and `TaskKernel`'s `ObjectCall` stands for the others.
  `MCOverrun` chooses likewise between the kernel with budgets and the heap, which
  share no state at all.
  Within a kind the data queues (and the flags) are used one after the other.
* *Attributes.*  The flags all have `TA_WMUL`: the guard that turns a second
  waiter away needs no run.
* *Counts.*  `TMAX_ACTCNT` and `TMAX_WUPCNT` are 1 in the code as well.  A
  maximum of 2 units, a capacity of 2 cells, 2 blocks, 2 log entries: the first
  number at which the middle differs from both ends, with more tasks than units.
* *Calls.*  The MC modules leave out calls that have nothing to do with the
  question of a run, and say which (`MutexesNext`, `SchedCall`, …).  In
  `kernel_overrun` only `t1` disables termination.  Between them the runs take
  every action.
* *Counters.*  Event times wrap at 6, counts at 6 (`HRTCNT_MOD` 7 so that the
  two wrap-arounds of the code differ), periods and phases are 1 and 2: each
  counter wraps several times in a behaviour, and an event lies on either side
  of the boundary.  `BOUNDARY_MARGIN` 2 exceeds the lateness `MaxLate` 1, as
  the 200 s of the code exceed any time interrupts are masked.  The alarm and
  the time-out take turns (`TakeTurns`) and `set_tim` moves the time by half
  its range (`HalfRange`); these bound the run only.
* *Heap* (in `kernel_overrun`).  Seven events fill three levels: deletion in the middle moves the
  last event up in one case and down in another.
* *Serial port.*  3 characters put STOP at 2 and START at 1, so that each is
  told from full and empty.  The characters that arrive are LF, which is echoed
  as two and so takes the right to send twice.
* *`MaxEntries`* bounds `write`: twice the size of the log, so that all of it is
  overwritten.
* *Symmetry* is used for data, which are copied and never compared; not where
  liveness is checked.  Tasks differ by priority and creation order.  A *VIEW*
  leaves out what no guard reads and no property of the run speaks of, such as
  which event of the heap is at which node; the comment at each says why.

### Fairness

The kernel's own runs assume none: which task calls what, and when interrupts
come, is up to the application, and every call ends.  Where something must
happen in the end:

* `TimeFairness`: the timer counts and its interrupt is served, weak fairness
  of `Tick \/ signal_time`.  `MaxLate` is the assumption about masking that
  the code's `BOUNDARY_MARGIN` makes.  An event need not come if the time is
  set back again and again, which `EventuallyCalled` says.
* `SerialPort!Fairness`: interrupts are taken, the UART sends, a task in a call
  gets the processor (weak), and a task waiting for a semaphore that is given
  again and again gets it (strong): the wait queues are first come, first
  served, which `semaphore.zig` guarantees and `SemaphoreOrder` proves.
  `PortServes` claims progress of a writer only while the peer is quiet and
  does not hold the line: START and STOP go first, and a peer that sends for
  ever can keep a writer waiting for ever.  Of a reader beside a buffer with
  characters it claims progress unless a released reader has lost the right to
  receive (`receiveLost`); without that exception it is `ReadersServed`, which
  [fails](#disagreements-found).
* `LogFairSpec`: the log task and the flushing task get the processor (weak);
  putting a character and sending it are strong, as the peer may hold the line
  and let it go again for ever.  `FlushEnds` is claimed while it does not hold
  it for ever; that writing stops is the bound `MaxEntries`.

### What the models assume of the application

* Two tasks do not release the same block at the same time, and a pool is not
  reinitialised between the check of a `rel_mpf` and its effect (`Mempfix`).
* No task closes a serial port that another one is using (`Unused` in
  `SerialPort`): the others are not in the port, or wait in it while no interrupt
  is pending that could hand one of them a right.  `eSerialPort_close` does not
  check this, nor does the action `close`; only `Begin` assumes it, and the
  theorems about the port rest on it.  Closed otherwise, a port gets a second
  unit of a right that a task still has, which is listed as a hazard.
* The overrun interrupt has the lowest priority, as the driver sets it, and the
  watchdog, started with nothing left, requests its interrupt at once
  (`Overrun`).

## The proofs

The theorems hold for every set of tasks, every number of priorities, every set
of wait objects, mutexes, semaphores, flags, data queues of both kinds and pools with any
attributes, ceilings and capacities, and any `MaxNest`; those about time for any
events, periods and phases and any width of the counters; those of the serial
port for any tasks, texts, controls and buffer sizes; that of the log for any
size of its buffer, any priorities and masks.

| module | theorem | states |
|---|---|---|
| `TaskKernelProofs` | `TypeCorrect` | `Spec => []TypeOK` |
| | `SchedulingDataConsistent` | `Spec => []ReadyQueueConsistent` |
| | `NoDispatchForgotten` | `Spec => []DispatchDone` |
| | `DispatchFlagCoherent` | `Spec => []DspflgCoherent` |
| | `NoDanglingTimeEvent` | `Spec => []TimeEventsOwned` |
| | `WaitQueuesCorrect` | `Spec => []WaitQueuesMatch` |
| | `TerminationCorrect` | `Spec => []TerminationPending` |
| | `StartRequests` | `Spec => StartRequestKept` |
| `SchedulingProofs` | `SchedulingImplemented` | `Spec => SchedulingPromised`, the refinement of `Scheduling` |
| | `ReadyOrder` | `Spec => ReadyOrderKept` |
| | `BudgetsKept`, `OverrunsNoticed` | `OvrSpec => []BudgetKept`, `[]OverrunNoticed` |
| `ResourceProofs` | `OwnersCorrect`, `HandOverKept` | `MutexSpec => []OwnersMatch`, `[]HandedOver` |
| | `PriorityCorrect`, `CeilingsRespected` | `MutexSpec => []PriorityInherited`, `[]CeilingRespected` |
| | `GrantOrder` | `MutexSpec => GrantedInOrder` |
| | `MutexScheduling` | `MutexSpec => [](ReadyQueueConsistent /\ DispatchDone)` |
| | `NoUnitLost`, `SemaphoreOrder` | `SemSpec => []NoUnitIdle`, `SemFirstServed` |
| | `NoBlockLost`, `BlocksKept`, `PoolOrder` | `MpfSpec => []NoBlockIdle`, `[]BlocksAccounted`, `MpfFirstServed` |
| `MessageProofs` | `FlagsSeen`, `PatternsTold`, `FlagOrder` | `FlgSpec => []NoMissedFlag`, `PatternTold`, `ServedOnceInOrder` |
| | `NobodyInVain`, `DeliveryInOrder` | `DtqSpec => []NobodyWaitsInVain`, `DataDelivered` |
| | `ChannelImplemented` | `DtqSpec => ChannelPromised`, the refinement of `FifoChannel` |
| | `PriorityChannelImplemented` | `PdqSpec => PriorityPromised`, the refinement of `PriorityChannel` |
| `TimeHeapProofs` | `QueueImplemented` | `HeapSpec => QueuePromised`: the heap is well formed and refines `PriorityQueue` |
| `NotificationProofs` | `EventsRegistered`, `TimerArmed` | `NoteSpec => []RegisteredWhileActive`, `[]InterruptArmed` |
| | `TimerImplemented` | `NoteSpec => TimerPromised`, the refinement of `TimerService`, if `BoundKept` |
| `SerialPortProofs` | `RightsCorrect`, `SendingKept` | `Spec => []RightsConserved`, `[]SendingGoesOn` |
| | `LineImplemented` | `Spec => LinePromised`, the refinement of `PacedLine` |
| `LogServiceProofs` | `EntriesKept` | `LogSpec => []EntriesAccounted` |

### Assumptions

Those of the modules, which TLC evaluates in every run: `TaskAssumption`,
`PrioAssumption` (the null pointer is no task, there is a priority);
`ConfigAssumption` (what the configurator guarantees: start priorities and
ceilings are in range, only ceiling and priority-ordered objects are what they
are called, `Torder` lists no task twice); and for each object
`SemaphoreAssumption`, `MempfixAssumption`, `EventflagAssumption`,
`DataqueueAssumption`, `PridataqAssumption` (they are wait objects and no
mutexes, two data queues share no wait queue, initial counts and patterns are in
range, priorities of data are positive);
`OverrunAssumption` (the watched tasks are tasks, a budget is positive).  For
the serial port, `SizesAssumption` (there is room for a character, START and STOP are no
data) and `CallsAssumption` (a call asks for at least one character; the loops
of `eSerialPort_write` and `eSerialPort_read` do nothing otherwise).  For the
log, `LogAssumption` (it has room for an entry, masks are sets of priorities).

For the time, `TimeHeapAssumption` and `TimeEventAssumption` (the moduli are
positive and fit together, the null pointer is no event), `NotificationAssumption`
(an event belongs to one notification or one wait; periods are positive), and
`LatenessAssumption`, which says how the numbers of the code relate:

* Relative times and periods, at most `TMAX_RELTIM` = 4 000 s, leave
  `BOUNDARY_MARGIN` = 200 s and two adjustments (`TMAX_ADJTIM` = 1 s) of the
  4 295 s that event times go round in.
* Interrupts are held off (`MaxLate`) for no more than half the margin, 100 s.
  The code cannot enforce this; it is what its margin is for.
* `HRTCNT_BOUND` leaves twice that of the period of the timer, for which the
  check at compile time (`time_event.zig:67–83`) demands 50 ms; without a bound
  the timer has at least the range of event times.  That check lets
  `HRTCNT_BOUND` be absent only for a 64-bit counter or one of full period.

`TimerImplemented` assumes besides that there is a bound, and that with the
lateness it stays below the range of event times (`BoundKept`), as for every
32-bit counter that has one.  Without it a state need not show how much time has
passed: the timer may have counted through that range since it was last read.
This is the hazard at `time_event.zig:378` once more.

### Tasks: `IInv` and `SInv`

None of the invariants is inductive by itself.  `KernelInvariant` establishes
`TypeOK`, `ReadyQueueConsistent`, `DispatchDone`, `DspflgCoherent` and
`TimeEventsOwned` together with three parts more (`IInv`):

* `WaitsOwned`: a task in a wait queue waits, for the object of that queue, and
  is there once.  Without it, ending the first wait of a queue could make a
  task runnable that is in the ready queue already.
* `MutexOwned`: the owner of a mutex has it in its list and the reverse, and a
  list has no mutex twice.  Termination releases the mutexes of that list one
  after the other; that their heirs are distinct, and none is the terminated
  task, comes from here.
* `Booting`: before `kerflg` is set no task waits, dispatching is enabled, and
  the tasks still in `torder` are dormant, so starting them is a first start.

`StateInvariant` adds `SInv`, about the fields that scheduling does not look at:

* `QueuesOrdered`: queues with `TA_TPRI` are in the order of the current
  priorities, also when a task in them, or the owner of a mutex, changes its.
* `WaitsMarked`: a task that delays itself has a time event, one that sleeps
  has no wake-up pending.
* `RasterPending`: a termination request is never stuck.  It is pending only at
  a runnable task that has disabled termination, or at the running task while
  dispatching is disabled.
* `DormantReset`: what `task_terminate` must reset, it has: priorities, counts,
  flags and the list of mutexes.

Each half has one lemma per kind of action (`ActTsk`, `SlpTsk`, `WobjWait`,
`EndingCalls`, `TerminatingCalls`, `ResumeDispatch`, …).  They rest on lemmas
about the ready queue: what deleting, inserting and filtering do to a queue
(`DeleteProperties`, `InsertTpriProperties`, `WithoutProperties`), the two
inductions everything else uses (`SetInduction`, `LeastElement`, from which the
search of the bitmap gets its result), and that each operation on the ready
queue takes a consistent state to a consistent state for the new set of
runnable tasks and priorities (`MakeRunnable`, `MakeNonRunnable`,
`ChangeReadyPriority`, `RotateReadyQueue`, `SetDspflg`, `WakeAllTasks`).

### Order and refinement: `SchedulingProofs`

The proof says once what any step does to the ready queues (`QueueStep`): tasks
arrive at their ends, one task leaves or moves, or one queue is rotated.
`ReadyOrder` follows because these keep the order of any two tasks not
involved; `SchedulingImplemented` because, with the consistency of the cached
choice, they are the steps of `Scheduling`.  `Spec` has no calls on mutexes, so
that no task owns one (`Unlocked`, part of the invariant here).

The overrun handler stands here too, because what it depends on is who has the
processor.  A call either leaves it where it is or hands it over (`Hands`), and
stops and starts the timer with it; `DispatchedKept` says that this keeps the
time that is left, in the timer for the running task and in `leftotm` for the
others.  `OvrInv` adds that before `kerflg` is set no task has any time.

### Mutexes: `PInv`

`MutexSystemInvariant` carries `IInv` and `SInv` over to the system with
mutexes.  `PInv` says that a priority is right (`IsCalcPriority`: it is the base
priority or a ceiling held, and none of these is better) and that ceilings are
respected by who holds and who waits.  The code does not compute a priority
afresh but raises it at a lock and drops it only when the mutex may have
mattered; `RaisedPriority` and `DroppedPriority` show that to be enough.  For
the order of grants there is `ResultPending`: a wait that has ended has left a
result.

### Objects

What the kernel's steps do to any object is proved once.  They send nobody to
wait for it and serve nobody (`KernelQueues`), and a call on an object changes
one wait queue: the running task joins it, its first task is served, or all are
sent away (`QueueCalls`).  Every step of an object is shown to be a kernel step,
a step of its own data with the queues left alone, or one of these calls
together with what it does to the data (`SemaphoreQueues`, `EventflagSteps`,
`DataqueueSteps`, `PridataqSteps`, `MempfixSteps`).  It is thereby a step of `Next`, so that
`IInv`, `SInv` and `ResultPending` carry over.  What is left is the object's own
invariant:

* `SemInv`: the count is in range, and zero while a task waits.
* `PoolInv`: the free list, followed from its head, visits `fblkcnt` cells less
  the unused ones, never one twice (`PoolsWellFormed`), and the blocks being
  released by calls that have passed their check are apart from it and from
  each other (`ReleasesApart`).  This is what makes `rel_mpf`, checked before
  the CPU is locked, safe; it needs the assumption that no block is released
  twice.
* `FlgInv`: who waits does so for a non-empty pattern that is not there.
  `set_flg` serves the first task or all whose pattern is; with `TA_CLR`, the
  flag is empty after that, so the rest wait rightly.
* `DtqInv`: head, tail and count belong to one ring (`Ring`), also with no cells
  at all; a sender waits only for a full ring, with its datum; a receiver only
  for an empty one, and then no sender waits.  So `ini_dtq`, which clears two
  queues, releases the tasks of one.

`ChannelImplemented` looks at a data queue as one line, the ring from its head
and then the data of the senders (`LineOf`).  Storing, forcing, taking and
refilling are insertions and removals in it wherever in the ring they happen
(`LineStored`, `LineForced`, `LineTaken`, `LineRefilled`, `LinePassed`), and a
sender that joins, leaves or changes its place does so behind the ring, which
is then full (`LineJoined`, `LineLeft`, `LineMoved`).  The kernel's own calls
let one task leave one wait queue or move in it (`KernelMoves`), and no step
changes the datum of a sender that waits (`SendersKept`).

`PdqInv` is about the blocks of a priority data queue (`Blocks`): each that was
used once is in exactly one of the two lists, none is twice in a list, so that
the block taken for a datum holds none; the data along `p_head`'s list are in the
order of their priorities; who waits to send has a datum, and senders and
receivers never wait together.  That the list is in order is what makes the first
less urgent block the right place: everything behind it is less urgent too
(`JoinsOrdered`).  `PriorityChannelImplemented` maps the list to the data along
it (`Along`), and the queue of senders to the data along that, so that linking
or unlinking a block, and a sender that joins, leaves or changes its place, are
insertions and removals at the same place in what the channel sees
(`AlongInserted`, `AlongTail`, `AlongLeft`); a datum taken and refilled from a
sender is one step (`RefillsPdq`).

### Time: `HeapGood`, `NoteInv`

*The heap.*  The functions that find a place in the heap are recursive, over
the nodes; that there is exactly one function satisfying such a recursion, and
what it returns, is shown by induction with a set in the place of a predicate
(`UpFrom`, `DownFrom`: a path towards the root, or down along the earlier
children, above which nothing is later and below which nothing earlier).  Moving
the events along the path permutes them and their indices alike (`Moves`), and
keeps the order of each node and its parent (`Keyed`).  `HeapGood` is therefore
kept by `tmevtb_insert`, `tmevtb_delete` and `tmevtb_delete_top`
(`InsertGood`, `DeleteGood`, `DeleteTopGood`), and the top is an earliest event.

*The counters.*  `RegisteredWhileActive` and `InterruptArmed` hold only as long
as wrapping times compare rightly, which takes a bound on everything that is
counted.  `NoteInv` has it in `Sound`, about the time management whenever the
CPU is not locked:

* `TmGood`: the heap is good with respect to the boundary, which lies
  `BOUNDARY_MARGIN` before the current event time.
* `Base`: no event is so far ahead that it wraps around the boundary, and none
  is left behind by more than `LateBy` and the ticks its interrupt has been
  held off; the current event time is behind the monotonic one by less than two
  adjustments.
* `Timer`: the timer has not gone once around since it was read, and when no
  interrupt is requested it is set for no later than the first event and no
  later than its bound.

Time that passes moves the boundary under the heap: `update_current_evttim`
keeps the order because nothing in the heap lies between the old boundary and
the new one (`TimeMoves`, `Shifted`).  Each helper of the code has one lemma
for what it does to `Sound` (`Updated`, `Set`, `Rest`, `Adjusted`), so that a
call or a step of `signal_time` is a chain of these.

*The refinement.*  `TimerService` sees of a state the time each event has left
(`LeftOf`), and the system time with its lag as a reading would show them
(`TimeOf`, `LagOf`).  `update_current_evttim` and `set_hrt_event` change none
of these (`Seen`); an adjustment changes them as `TimerService` says, a tick
takes one from each; a call of `signal_time` takes out an event with nothing
left and, if it is cyclic, puts it back with what it had left and its period.

### The log: `LogInv`

The text printed is taken as a whole: what has gone out, the character on the
line, those in the port and those the log task holds.  A character that moves
along leaves it as it was (`MovesOn`), so only what reads, flushes or records
needs an argument about numbers (`ReadKeeps`, `FlushKeeps`, `RecordedKeeps`).
`Accounted` says more than `EntriesAccounted`: every entry told of is older
than those in the log, hence a new one is told of for the first time; and since
the text is increasing, no entry is in two parts of it, hence termination, which
takes the port's characters out of its middle, tells nothing twice
(`MovedKeeps`).  `LostIn` sums over a text by recursion; `LostUnique` shows that
only one function satisfies the recursion and `LostConcat` that the sum of two
texts is the sum of their sums.

### The serial port: `PortInv`

The interrupt handler is taken apart into `readyReceive` and `readySend`, each
of which does one of three things to the rights (`HandlerStep`) and one of three
to the line, so that their sequence does no more (`Handler`).  `PortInv` says

* `Phases`: the port is open; or one task is closing it and the others wait in
  it with no unit to come, or are not in it (`Parked`); or it is closed, nobody
  is in it and no interrupt is pending.  Therefore a call never meets a port that
  was reopened around it.
* `Rights`: each right is in the semaphore, or with one task, or nowhere while
  the send buffer is full, or the receive buffer empty (`Placed`), or the right
  to receive is lost, and then the buffer has characters and keeps them until
  the port is closed.
* `Sound`: which local variables of a call go with which place in it; a read
  carries the right to receive through its echo exactly while it has seen the
  receive buffer non-empty.
* `Going`: the transmit interrupt is enabled while something is to be sent.

`receiveLost` is history: it is set where a reader leaves its echo without giving
the right back, and no guard reads it.  The theorem therefore says where the right
to receive is in every behaviour of the port, and that no other step loses it.
`RightsConserved` counts what `Rights` places.  `LineSteps` maps each step to one
of `PacedLine`: a full buffer excludes a holder of the right to send, so that
`put` always finds room.

### Only model-checked, and why

* Liveness (`EventuallyCalled`, `PortServes`, `FlushEnds`) and `ENABLED` are out
  of the prover's reach.
* `TimerPromised` without `BoundKept`: see [above](#assumptions).

## Disagreements found

* **The kernel's own check is too strict** (`kernel_bit`).  `bitTCB` rejects a
  state that `ena_ter` produces, rightly, while dispatching is disabled.
* **A block got by waiting is lost** (`mempfix_blk`).  `rel_mpf` hands a block to
  the first waiting task in `winfo_mpf.blk`; `get_mpf` and `tget_mpf` return
  without copying it to their caller's variable.
* **A cyclic notification stops the kernel when time wraps** (`cyclic_wrap`).
  Everything else advances event times with `+%`; `callCyclic` uses `+=`, which
  the default build mode, ReleaseSafe, traps: with a microsecond counter of 32
  bits, after some 71 minutes.
* **START overtakes STOP** (`serial_flow`).  A START left in
  `receiveFlowControl` because the UART was busy is not taken back when
  `readyReceive` sends a STOP directly, and goes out behind it: the peer sends
  on while the port believes it has stopped it.
* **A released reader takes the right to receive along** (`serial_echo`).
  `eSerialPort_read` gives the unit of the receive semaphore back at its end if
  characters are left (`tSerialPortMain.c:445`).  Released (`rel_wai`, a
  termination request) while it waits for the send semaphore to echo one, it
  returns at line 438 without doing so, and returns the number of characters read,
  as if all were well.  The port is not marked as broken, but its semaphore is 0
  beside a buffer that is not empty; the handler signals only when an empty buffer
  receives a character.  Every later read waits until the port is closed.

## What is not modelled

* Registers, stacks, the FPU and CPU exceptions; argument checks that only
  reject identifiers; the state reference calls except `ref_ovr`; `dis_int` and
  the other calls that only drive the interrupt controller; values of the
  interrupt priority mask other than "all enabled or not".
* Timer drivers other than the ARM MPCore's (global timer, watchdog).  The
  simulator is for the tests; its `start(0)` leaves a stale expiry time, which its
  `stop` then takes for the time left (`sim_timer.zig:217`).
* What a notification does (`notify.zig` sets a variable or makes a call): in
  `Notification` it is any call that a handler may make.
* Low-level output of a log entry as it is written, the wording of the output,
  the serial adapters, the histogram and the test services.
* The static API and its generator (Ruby), TECS glue, startup code, targets,
  samples and tests: straight-line code, generated code or users of the kernel.

The kernel proper is written in Zig.  A measure that counts lines of C files
and headers alone sees, of the code modelled here, only the serial driver, the
UART and the log; the C that remains is mostly generated board initialisation,
register definitions, samples and headers, in which there is no behaviour to
model.

Hazards that no property covers are listed in `PROJECT.json` with the reason:
the narrowing of the counts passed in a 64-bit timer (`time_event.zig:378`), a
block released by two tasks at once or a pool reinitialised under a release
(`mempfix.zig:319`), and a serial port closed while it is in use
(`tSerialPortMain.c:205`).

## The plan

Done: 1. `TaskQueue`, `ReadyQueue`, `TaskKernel`, `Scheduling`.  2. `Mutex`.
3. `Semaphore`, `Eventflag`, `Dataqueue`, `Mempfix`.  4. `TimeHeap`,
`TimeEvent`, `Notification` with `PriorityQueue` and `TimerService`.
5. `Pridataq`, `PriorityChannel`.  6. `Overrun`.  7. `SerialPort`, `PacedLine`,
`LogService`.  8. Proofs of the kernel's invariants, of the order and the
refinement of the scheduler, of mutexes, semaphores, pools, event flags, data
queues and priority data queues with their refinements of `FifoChannel` and
`PriorityChannel`, of the overrun handler, of the serial port, of the heap, of
the notifications with their refinement of `TimerService`, and of the log.

Every safety property that a passing run checks is a theorem, `TimerPromised`
within `BoundKept`.
