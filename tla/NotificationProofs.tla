------------------------- MODULE NotificationProofs -------------------------
(***************************************************************************)
(* The notifications and the time they run in, for any events and periods  *)
(* and any width of the clocks: the events stay registered, in the window  *)
(* of time the heap can order, and the timer interrupt is never forgotten. *)
(***************************************************************************)
EXTENDS TimeHeapProofs, Notification

(* Remainders of differences.                                              *)
LEMMA RemainderDifference ==
  ASSUME NEW w \in Nat \ {0}, NEW x \in Int, NEW y \in Int
  PROVE  (x - (y % w)) % w = (x - y) % w
<1> DEFINE k == y \div w
           r == y % w
<1>1. k \in Int /\ r \in 0 .. w - 1 /\ y = k * w + r /\ w \in Int
  BY Remainder
<1>2. k * w \in Int
  BY <1>1, Distributes
<1> HIDE DEF k, r
<1>3. x - r = (x - y) + k * w /\ x - y \in Int
  BY <1>1, <1>2
<1>4. (x - r) % w = (x - y) % w
  <2> DEFINE z == x - y
  <2>1. z \in Int /\ k \in Int /\ w \in Nat \ {0} /\ x - r = z + k * w
    BY <1>1, <1>3
  <2> HIDE DEF z
  <2>2. (z + k * w) % w = z % w
    BY ONLY <2>1, RemainderShift, Zenon
  <2> QED BY ONLY <2>1, <2>2, Zenon DEF z
<1> QED BY <1>4 DEF r

(* The current time is BOUNDARY_MARGIN after the boundary.                 *)
LEMMA BoundaryType == ASSUME NEW t \in EVTTIM PROVE boundary(t) \in EVTTIM /\ (t - boundary(t)) % W = BOUNDARY_MARGIN
<1>1. t \in Int /\ BOUNDARY_MARGIN \in 0 .. W - 1 /\ BOUNDARY_MARGIN \in Int /\ W \in Nat \ {0} /\ t - BOUNDARY_MARGIN \in Int
  BY TimeHeapAssumption, TimeEventAssumption DEF EVTTIM
<1>2. (t - BOUNDARY_MARGIN) % W \in 0 .. W - 1
  BY <1>1, Remainder
<1>3. (t - ((t - BOUNDARY_MARGIN) % W)) % W = (t - (t - BOUNDARY_MARGIN)) % W
  BY <1>1, RemainderDifference
<1>4. t - (t - BOUNDARY_MARGIN) = BOUNDARY_MARGIN
  BY <1>1
<1>5. BOUNDARY_MARGIN % W = BOUNDARY_MARGIN
  BY <1>1, RemainderNear
<1> QED BY <1>2, <1>3, <1>4, <1>5 DEF boundary, EVTTIM

(* The distance of t from the boundary that belongs to c.                  *)
LEMMA AdvanceFrom ==
  ASSUME NEW m, NEW c \in Int, m.boundary_evttim = boundary(c), NEW t \in Int
  PROVE  EVTTIM_ADVANCE(m, t) = (t - c + BOUNDARY_MARGIN) % W
<1>1. BOUNDARY_MARGIN \in Int /\ W \in Nat \ {0} /\ c - BOUNDARY_MARGIN \in Int
  BY TimeHeapAssumption, TimeEventAssumption
<1>2. (t - ((c - BOUNDARY_MARGIN) % W)) % W = (t - (c - BOUNDARY_MARGIN)) % W
  BY <1>1, RemainderDifference
<1>3. t - (c - BOUNDARY_MARGIN) = t - c + BOUNDARY_MARGIN
  BY <1>1
<1> QED BY <1>2, <1>3 DEF EVTTIM_ADVANCE, boundary

(* As the current time moves by d, all events come nearer by d; they keep  *)
(* their order as long as none crosses the boundary.                       *)
TimeMoves(m, u, d) ==
  /\ HeapGood(m) /\ m.current_evttim \in EVTTIM /\ m.boundary_evttim = boundary(m.current_evttim)
  /\ d \in Int /\ \A e \in Registered(m) : Adv(m, e) - d \in 0 .. W - 1
  /\ HasHeap(u) /\ u.heap = m.heap /\ u.index = m.index /\ u.evttim = m.evttim
  /\ u.current_evttim = (m.current_evttim + d) % W /\ u.boundary_evttim = boundary(u.current_evttim)

(* What a move of the current time does to the times of the events.        *)
LEMMA TimeShifts ==
  ASSUME NEW m, NEW u, NEW d, TimeMoves(m, u, d)
  PROVE  /\ HeapGood(u) /\ Registered(u) = Registered(m) /\ u.current_evttim \in EVTTIM
         /\ \A e \in Registered(m) : Adv(u, e) = Adv(m, e) - d
<1> USE DEF TimeMoves
<1>1. W \in Nat \ {0} /\ BOUNDARY_MARGIN \in Int
  BY TimeHeapAssumption, TimeEventAssumption
<1> DEFINE c == m.current_evttim
<1>2. c \in Int /\ c + d \in Int
  BY DEF EVTTIM
<1>3. u.current_evttim \in EVTTIM /\ u.current_evttim \in Int
  BY <1>1, <1>2, Remainder DEF EVTTIM
<1>4. Registered(u) = Registered(m)
  BY DEF Registered
<1>5. ASSUME NEW e \in Registered(m) PROVE Adv(u, e) = Adv(m, e) - d
  <2> DEFINE t == m.evttim[e]
  <2>1. t \in Int
    BY DEF HeapGood, Filled, EVTTIM
  <2>2. Adv(m, e) = (t - c + BOUNDARY_MARGIN) % W
    BY <2>1, <1>2, AdvanceFrom DEF Adv
  <2>3. Adv(u, e) = (t - ((c + d) % W) + BOUNDARY_MARGIN) % W
    BY <2>1, <1>3, AdvanceFrom DEF Adv
  <2>4. t - ((c + d) % W) + BOUNDARY_MARGIN = (t + BOUNDARY_MARGIN) - ((c + d) % W)
    BY <2>1, <1>1, <1>2, <1>3
  <2>5. t + BOUNDARY_MARGIN \in Int
    BY <2>1, <1>1
  <2>6. Adv(u, e) = ((t + BOUNDARY_MARGIN) - (c + d)) % W
    BY <2>3, <2>4, <2>5, <1>1, <1>2, RemainderDifference
  <2>7. (t + BOUNDARY_MARGIN) - (c + d) = (t - c + BOUNDARY_MARGIN) + (- d) /\ t - c + BOUNDARY_MARGIN \in Int /\ - d \in Int
    BY <2>1, <1>1, <1>2
  <2>8. Adv(u, e) = (Adv(m, e) + (- d)) % W
    BY <2>2, <2>6, <2>7, <1>1, RemainderSum
  <2>9. Adv(m, e) \in Int /\ Adv(m, e) + (- d) = Adv(m, e) - d
    BY <1>1, AdvType
  <2> QED BY <2>8, <2>9, <1>1, RemainderNear
<1>6. Filled(u)
  BY <1>3, <1>4, BoundaryType DEF HeapGood, Filled
<1>7. Ordered(u)
  <2> SUFFICES ASSUME NEW i \in DOMAIN u.heap \ {0}
               PROVE  KeyAt(u, PARENT(i)) <= KeyAt(u, i)
    BY DEF Ordered
  <2>1. i \in DOMAIN m.heap /\ PARENT(i) \in DOMAIN m.heap
    <3>1. i \in 0 .. Cardinality(Registered(m)) - 1 /\ i # 0 /\ Cardinality(Registered(m)) \in Nat
      BY AdvType, NumNodesType DEF HeapGood, Filled
    <3>2. PARENT(i) \in 0 .. i - 1
      BY <3>1, ParentBelow
    <3> QED BY <3>1, <3>2, AdvType
  <2>2. KeyAt(m, PARENT(i)) <= KeyAt(m, i)
    BY <2>1 DEF HeapGood, Ordered
  <2>3. ASSUME NEW j \in DOMAIN m.heap
        PROVE  KeyAt(m, j) \in Int /\ KeyAt(u, j) = KeyAt(m, j) - d
    <3>1. m.heap[j] \in Registered(m) /\ KeyAt(m, j) = Adv(m, m.heap[j]) /\ KeyAt(m, j) \in Int
      BY AdvType
    <3>2. KeyAt(u, j) = Adv(u, m.heap[j])
      BY DEF KeyAt, time, Adv
    <3> QED BY <3>1, <3>2, <1>5
  <2> QED BY <2>1, <2>2, <2>3
<1>8. HeapGood(u)
  BY <1>6, <1>7 DEF HeapGood
<1> QED BY <1>3, <1>4, <1>5, <1>8

-----------------------------------------------------------------------------
(* BOUNDARY_MARGIN, for short.                                             *)
Margin == BOUNDARY_MARGIN

(* The fields of the time management.                                      *)
TmFields ==
  {"heap", "index", "evttim", "boundary_evttim", "current_evttim", "monotonic_evttim", "systim_offset",
   "in_signal_time", "current_hrtcnt", "hrt", "hrt_left", "hrt_request"}

(* Their types.                                                            *)
TmType(m) ==
  /\ m = [x \in TmFields |-> m[x]]
  /\ m.current_evttim \in EVTTIM /\ m.monotonic_evttim \in EVTTIM /\ m.systim_offset \in SYSTIM
  /\ m.in_signal_time \in BOOLEAN /\ m.hrt_request \in BOOLEAN
  /\ m.current_hrtcnt \in HRTCNT /\ m.hrt \in HRTCNT /\ m.hrt_left \in Nat

(* What a heap that is ordered around the boundary of its current time is. *)
TmGood(m) == TmType(m) /\ HeapGood(m) /\ m.boundary_evttim = boundary(m.current_evttim)

(* How far events can be late when the interrupt has been due for n ticks: *)
(* an adjustment can make an event due at once.                            *)
LateBy == IF MaxLate >= 2 * TMAX_ADJTIM - 1 THEN MaxLate ELSE 2 * TMAX_ADJTIM - 1

(* Bounds on the events: none is registered so far ahead that it wraps     *)
(* around the boundary, none is left behind by more than LateBy and the    *)
(* ticks the interrupt has been held off, and the time is not put back by  *)
(* more than two adjustments.                                              *)
Base(m, n) ==
  /\ n \in 0 .. MaxLate /\ (~ m.in_signal_time /\ ~ m.hrt_request => n = 0)
  /\ lag(m) < 2 * TMAX_ADJTIM
  /\ \A e \in Registered(m) : /\ Adv(m, e) <= W - 2 * TMAX_ADJTIM + lag(m)
                              /\ Margin + hrtcnt_advance(m) <= Adv(m, e) + n + LateBy

(* Bounds on the timer: what it has counted since it was read last cannot  *)
(* go once around, and it interrupts before the first event is too late.   *)
Timer(m, n) ==
  /\ m.in_signal_time => hrtcnt_advance(m) <= n
  /\ ~ m.in_signal_time /\ m.hrt_request /\ HRTCNT_BOUND # Null =>
       hrtcnt_advance(m) <= HRTCNT_BOUND + MaxLate + n
  /\ ~ m.in_signal_time /\ ~ m.hrt_request =>
       /\ HRTCNT_BOUND # Null => /\ m.hrt_left \in 1 .. HRTCNT_BOUND
                                 /\ hrtcnt_advance(m) + m.hrt_left <= HRTCNT_BOUND + MaxLate
       /\ \A e \in Registered(m) : /\ m.hrt_left > 0
            /\ Margin + hrtcnt_advance(m) + m.hrt_left <= Adv(m, e) + MaxLate

(* What holds of the time management whenever the CPU is not locked.       *)
Sound(m, n) == TmGood(m) /\ Base(m, n) /\ Timer(m, n)

(* What the assumptions say of the constants.                              *)
LEMMA Constants ==
  /\ W \in Nat \ {0} /\ W \in Int /\ Margin \in 1 .. W - 1 /\ Margin \in Int
  /\ TMAX_ADJTIM \in Nat \ {0} /\ MaxLate \in Nat /\ LateBy \in Nat
  /\ MaxLate <= LateBy /\ 2 * TMAX_ADJTIM - 1 <= LateBy /\ LateBy + MaxLate <= Margin
  /\ TCYC_HRTCNT \in Nat \ {0} /\ HRTCNT_MOD \in Nat /\ TCYC_HRTCNT <= HRTCNT_MOD
  /\ HRTCNT_BOUND # Null => HRTCNT_BOUND \in Nat \ {0} /\ HRTCNT_BOUND + 2 * MaxLate < TCYC_HRTCNT
  /\ HRTCNT_BOUND = Null => W <= TCYC_HRTCNT
BY TimeHeapAssumption, TimeEventAssumption, LatenessAssumption DEF Margin, LateBy

(* The counts since the last reading, without the detour around the period.*)
LEMMA ElapsedType ==
  ASSUME NEW m, TmType(m)
  PROVE  /\ hrtcnt_advance(m) \in 0 .. TCYC_HRTCNT - 1
         /\ m.hrt = m.current_hrtcnt => hrtcnt_advance(m) = 0
         /\ m.hrt < m.current_hrtcnt => hrtcnt_advance(m) = m.hrt - m.current_hrtcnt + TCYC_HRTCNT
         /\ m.hrt >= m.current_hrtcnt => hrtcnt_advance(m) = m.hrt - m.current_hrtcnt
<1>1. m.hrt \in 0 .. TCYC_HRTCNT - 1 /\ m.current_hrtcnt \in 0 .. TCYC_HRTCNT - 1 /\ TCYC_HRTCNT <= HRTCNT_MOD
      /\ TCYC_HRTCNT \in Nat \ {0} /\ HRTCNT_MOD \in Nat \ {0}
  BY Constants DEF TmType, HRTCNT
<1>2. CASE m.hrt < m.current_hrtcnt
  <2>1. m.hrt - m.current_hrtcnt + TCYC_HRTCNT \in 0 .. HRTCNT_MOD - 1
    BY <1>1, <1>2
  <2>2. (m.hrt - m.current_hrtcnt + TCYC_HRTCNT) % HRTCNT_MOD = m.hrt - m.current_hrtcnt + TCYC_HRTCNT
    <3> DEFINE x == m.hrt - m.current_hrtcnt + TCYC_HRTCNT
    <3>1. x \in Int
      BY <2>1
    <3> HIDE DEF x
    <3>2. x % HRTCNT_MOD = x
      BY <2>1, <3>1, <1>1, RemainderNear DEF x
    <3> QED BY <3>2 DEF x
  <2> QED BY <1>1, <1>2, <2>2 DEF hrtcnt_advance
<1>3. CASE ~ (m.hrt < m.current_hrtcnt)
  BY <1>1, <1>3 DEF hrtcnt_advance
<1> QED BY <1>2, <1>3

(* The lag of the current time is a number of counts.                      *)
LEMMA LagType ==
  ASSUME NEW m, TmType(m) PROVE lag(m) \in 0 .. W - 1
<1>1. m.monotonic_evttim - m.current_evttim \in Int
  BY Constants DEF TmType, EVTTIM
<1> QED BY <1>1, Constants, Remainder DEF lag

(* The operators that set the timer.                                       *)
Timed(s, m) ==
  /\ TmType(s) /\ SameBut(s, m, {"hrt_left", "hrt_request"})
  /\ m.hrt_request => s.hrt_request
  /\ Registered(m) = {} => s.hrt_left = IF HRTCNT_BOUND = Null THEN 0 ELSE HRTCNT_BOUND
  /\ Registered(m) # {} =>
       \/ s.hrt_request
       \/ /\ Adv(m, m.heap[0]) > Margin
          /\ s.hrt_left = Bounded(Adv(m, m.heap[0]) - Margin)

(* set_hrt_event raises the interrupt or sets the timer for the first      *)
(* event.                                                                  *)
LEMMA SetEventTimed ==
  ASSUME NEW m, TmGood(m)
  PROVE  Timed(set_hrt_event(m), m)
<1> DEFINE top == m.heap[0]
           c == m.current_evttim
<1>1. num_tmevt(m) = Cardinality(Registered(m)) /\ (num_tmevt(m) = 0 <=> Registered(m) = {})
  <2>1. IsFiniteSet(Registered(m))
    BY TimeHeapAssumption, FS_Subset DEF HeapGood, Filled, TmGood
  <2> QED BY <2>1, FS_EmptySet, GoodWellFormed DEF TmGood
<1>2. EVTTIM_ADVANCE(m, c) = Margin
  BY BoundaryType DEF TmGood, TmType, EVTTIM_ADVANCE, Margin
<1>3. top_evttim(m) = m.evttim[top] /\ EVTTIM_ADVANCE(m, top_evttim(m)) = Adv(m, top)
  BY DEF top_evttim, time, Adv
<1>4. CASE Registered(m) = {} /\ HRTCNT_BOUND = Null
  <2>1. set_hrt_event(m) = [m EXCEPT !.hrt_left = 0]
    BY <1>1, <1>4 DEF set_hrt_event, clear_event
  <2> QED BY <2>1, <1>4 DEF Timed, TmType, TmFields, SameBut, TmGood
<1>5. CASE Registered(m) = {} /\ HRTCNT_BOUND # Null
  <2>1. set_hrt_event(m) = [m EXCEPT !.hrt_left = HRTCNT_BOUND]
    BY <1>1, <1>5 DEF set_hrt_event, set_event
  <2> QED BY <2>1, <1>5, Constants DEF Timed, TmType, TmFields, SameBut, TmGood
<1>6. CASE Registered(m) # {} /\ Adv(m, top) <= Margin
  <2>1. set_hrt_event(m) = [m EXCEPT !.hrt_request = TRUE]
    BY <1>1, <1>2, <1>3, <1>6 DEF set_hrt_event, raise_event, EVTTIM_LE
  <2> QED BY <2>1, <1>6, Constants DEF Timed, TmType, TmFields, SameBut, TmGood
<1>7. CASE Registered(m) # {} /\ ~ (Adv(m, top) <= Margin)
  <2>1. set_hrt_event(m) = [m EXCEPT !.hrt_left = Bounded((top_evttim(m) - c) % W)]
    BY <1>1, <1>2, <1>3, <1>7 DEF set_hrt_event, set_event, EVTTIM_LE
  <2>2. top \in Registered(m) /\ Adv(m, top) \in 0 .. W - 1 /\ m.evttim[top] \in Int /\ c \in Int
    <3>1. HeapGood(m) /\ c \in 0 .. W - 1
      BY DEF TmGood, TmType, EVTTIM
    <3>2. top \in Registered(m)
      BY <3>1, <1>7, TopNode
    <3>3. Adv(m, top) \in 0 .. W - 1
      BY <3>1, <3>2, AdvType
    <3>4. m.evttim[top] \in 0 .. W - 1
      BY <3>1, <3>2 DEF HeapGood, Filled, EVTTIM
    <3> QED BY <3>1, <3>2, <3>3, <3>4
  <2> DEFINE t == m.evttim[top]
  <2>3. Adv(m, top) = (t - c + Margin) % W
    BY <2>2, AdvanceFrom DEF Adv, TmGood, Margin
  <2>4. (((t - c + Margin) % W) - Margin) % W = (t - c) % W
    <3>1. t - c + Margin \in Int /\ - Margin \in Int /\ W \in Nat \ {0} /\ (t - c + Margin) + (- Margin) = t - c
      BY <2>2, Constants
    <3>2. (((t - c + Margin) % W) + (- Margin)) % W = ((t - c + Margin) + (- Margin)) % W
      BY <3>1, RemainderSum
    <3>3. (t - c + Margin) % W \in Int
      BY <2>2, <2>3
    <3> QED BY <3>1, <3>2, <3>3, Constants
  <2>5. (t - c) % W = Adv(m, top) - Margin /\ Adv(m, top) - Margin \in 1 .. W - 1
    <3>1. Adv(m, top) - Margin \in 0 .. W - 1 /\ Adv(m, top) - Margin \in 1 .. W - 1
      BY <2>2, <1>7, Constants
    <3>2. (Adv(m, top) - Margin) % W = Adv(m, top) - Margin
      BY <3>1, Constants, RemainderNear
    <3> QED BY <3>1, <3>2, <2>3, <2>4
  <2>6. Bounded(Adv(m, top) - Margin) \in Nat
    BY <2>5, Constants DEF Bounded
  <2>7. set_hrt_event(m) = [m EXCEPT !.hrt_left = Bounded(Adv(m, top) - Margin)]
    BY <2>1, <2>5, <1>3
  <2>8. Adv(m, top) > Margin
    BY <2>5, <2>2, Constants
  <2> HIDE DEF top
  <2> QED BY <2>7, <2>6, <2>8, <1>7, Constants DEF Timed, TmType, TmFields, SameBut, TmGood, top
<1> QED BY <1>4, <1>5, <1>6, <1>7

-----------------------------------------------------------------------------
(* Fields that are not about events change no event.                       *)
LEMMA GoodSame ==
  ASSUME NEW m, TmGood(m), NEW u, TmType(u),
         SameBut(u, m, {"in_signal_time", "current_hrtcnt", "hrt", "hrt_left", "hrt_request",
                        "systim_offset", "monotonic_evttim"})
  PROVE  /\ TmGood(u) /\ Registered(u) = Registered(m) /\ \A e : Adv(u, e) = Adv(m, e)
<1>1. u.heap = m.heap /\ u.index = m.index /\ u.evttim = m.evttim /\ u.boundary_evttim = m.boundary_evttim
      /\ u.current_evttim = m.current_evttim
  BY DEF SameBut, TmGood, TmType, TmFields
<1>2. HasHeap(u)
  BY DEF TmType, TmFields, HasHeap
<1>3. Filled(u)
  BY <1>1 DEF TmGood, HeapGood, Filled, Registered
<1>4. Ordered(u)
  BY <1>1 DEF TmGood, HeapGood, Ordered, KeyAt, EVTTIM_ADVANCE, time
<1> QED BY <1>1, <1>2, <1>3, <1>4 DEF TmGood, HeapGood, Registered, Adv, EVTTIM_ADVANCE

(* The fields in which the time passes.                                    *)
Calendar == {"current_evttim", "boundary_evttim", "monotonic_evttim", "systim_offset"}

(* The current time moves by d.                                            *)
Shifted(u, m, d) ==
  /\ TmGood(u) /\ Registered(u) = Registered(m)
  /\ \A e \in Registered(m) : Adv(u, e) = Adv(m, e) - d

(* When the current time moves, every event comes nearer by as much, and   *)
(* the heap stays ordered although its boundary moves.                     *)
LEMMA MovedGood ==
  ASSUME NEW m, TmGood(m), NEW d \in Nat, \A e \in Registered(m) : Adv(m, e) - d \in 0 .. W - 1,
         NEW u, u = moved(m, (m.current_evttim + d) % W, d)
  PROVE  /\ Shifted(u, m, d) /\ SameBut(u, m, Calendar)
         /\ lag(u) = IF lag(m) < d THEN 0 ELSE lag(m) - d
<1> DEFINE c == m.current_evttim
           t == (c + d) % W
           passes == lag(m) < d
<1>1. c \in Int /\ m.monotonic_evttim \in Int /\ c + d \in Int /\ m.systim_offset + W \in Int
      /\ SYSTIM_MOD \in Nat \ {0}
  BY Constants, TimeEventAssumption DEF TmGood, TmType, EVTTIM, SYSTIM
<1>2. t \in EVTTIM /\ t \in Int /\ (m.systim_offset + W) % SYSTIM_MOD \in SYSTIM
  <2>1. t \in 0 .. W - 1
    BY <1>1, Constants, Remainder
  <2>2. (m.systim_offset + W) % SYSTIM_MOD \in 0 .. SYSTIM_MOD - 1
    BY <1>1, Remainder
  <2> HIDE DEF t
  <2> QED BY <2>1, <2>2, Constants DEF EVTTIM, SYSTIM
<1>3. boundary(t) \in EVTTIM
  BY <1>2, BoundaryType
<1>4. u = [m EXCEPT !.current_evttim = t, !.boundary_evttim = boundary(t),
               !.monotonic_evttim = IF passes THEN t ELSE m.monotonic_evttim,
               !.systim_offset = IF passes /\ t < m.monotonic_evttim THEN (m.systim_offset + W) % SYSTIM_MOD
                                 ELSE m.systim_offset]
  BY DEF moved, lag, TmGood, TmType, TmFields
<1> HIDE DEF t
<1>5. SameBut(u, m, Calendar)
  BY <1>4 DEF SameBut, Calendar
<1>6. TmType(u) /\ u.current_evttim = t /\ u.boundary_evttim = boundary(t)
      /\ u.monotonic_evttim = IF passes THEN t ELSE m.monotonic_evttim
  <2> HIDE DEF passes
  <2> QED BY <1>2, <1>3, <1>4 DEF TmGood, TmType, TmFields
<1>7. u.heap = m.heap /\ u.index = m.index /\ u.evttim = m.evttim
  BY <1>5 DEF SameBut, Calendar, TmGood, TmType, TmFields
<1>8. Shifted(u, m, d)
  <2>1. HasHeap(u)
    BY <1>6 DEF TmType, TmFields, HasHeap
  <2>2. HeapGood(m) /\ m.current_evttim \in EVTTIM /\ m.boundary_evttim = boundary(m.current_evttim)
    BY DEF TmGood, TmType
  <2>3. u.current_evttim = (m.current_evttim + d) % W /\ u.boundary_evttim = boundary(u.current_evttim)
    BY <1>6 DEF t
  <2>4. d \in Int
    OBVIOUS
  <2>5. /\ HeapGood(u) /\ Registered(u) = Registered(m) /\ u.current_evttim \in EVTTIM
        /\ \A e \in Registered(m) : Adv(u, e) = Adv(m, e) - d
    <3>1. TimeMoves(m, u, d)
      BY <2>1, <2>2, <2>3, <2>4, <1>7 DEF TimeMoves
    <3> QED BY <3>1, TimeShifts
  <2> QED BY <2>3, <2>5, <1>6 DEF Shifted, TmGood
<1>9. CASE passes
  <2>1. u.monotonic_evttim - u.current_evttim = 0
    BY <1>6, <1>9, <1>2
  <2>2. 0 % W = 0
    BY Constants, RemainderNear
  <2>3. lag(u) = 0
    BY <2>1, <2>2, Zenon DEF lag
  <2> HIDE DEF t
  <2> QED BY <2>3, <1>5, <1>8, <1>9
<1>10. CASE ~ passes
  <2> DEFINE x == m.monotonic_evttim
  <2>1. lag(u) = (x - ((c + d) % W)) % W
    BY <1>6, <1>10 DEF t, lag
  <2>2. lag(u) = (x - (c + d)) % W
    BY <2>1, <1>1, Constants, RemainderDifference
  <2>3. x - (c + d) = (x - c) + (- d) /\ x - c \in Int /\ - d \in Int
    BY <1>1
  <2>4. lag(u) = (lag(m) + (- d)) % W
    BY <2>2, <2>3, Constants, RemainderSum DEF lag
  <2>5. lag(m) \in 0 .. W - 1
    BY LagType DEF TmGood
  <2>6. lag(m) + (- d) = lag(m) - d /\ lag(m) - d \in 0 .. W - 1 /\ lag(m) - d \in Int
    BY <2>5, <1>10, Constants
  <2>7. (lag(m) - d) % W = lag(m) - d
    BY <2>6, Constants, RemainderNear
  <2>8. lag(u) = lag(m) - d
    BY <2>4, <2>6, <2>7, Zenon
  <2> HIDE DEF x
  <2> QED BY <2>8, <1>5, <1>8, <1>10
<1> QED BY <1>5, <1>8, <1>9, <1>10

(* The state after the timer is read.                                      *)
Updated(u, m, n) ==
  /\ Shifted(u, m, hrtcnt_advance(m)) /\ Base(u, n) /\ SameBut(u, m, Calendar \cup {"current_hrtcnt"})
  /\ hrtcnt_advance(u) = 0

(* Reading the timer moves the current time by what has elapsed; no more   *)
(* than the range of event times has, if an event is registered.           *)
LEMMA UpdateGood ==
  ASSUME NEW m, NEW n, TmGood(m), Base(m, n)
  PROVE  LET u == update_current_evttim(m) IN
         /\ Updated(u, m, n)
         /\ lag(u) = IF lag(m) < hrtcnt_advance(m) % W THEN 0 ELSE lag(m) - (hrtcnt_advance(m) % W)
         /\ \A e \in Registered(m) : hrtcnt_advance(m) < W
<1> DEFINE u == update_current_evttim(m)
           el == hrtcnt_advance(m)
           d == el % W
           k == [m EXCEPT !.current_hrtcnt = m.hrt]
<1>1. el \in Nat
  BY ElapsedType, Constants DEF TmGood
<1>2. d \in Nat /\ d <= el
  <2>0. el < W => el \in 0 .. W - 1
    BY <1>1, Constants
  <2>1. d \in 0 .. W - 1 /\ (el < W => d = el)
    <3> HIDE DEF el
    <3>1. el % W \in 0 .. W - 1
      BY <1>1, Constants, Remainder
    <3>2. el < W => el % W = el
      <4> SUFFICES ASSUME el < W PROVE el % W = el
        OBVIOUS
      <4>1. el \in Int /\ el \in 0 .. W - 1
        BY <2>0, <1>1
      <4> QED BY <4>1, Constants, RemainderNear
    <3> QED BY <3>1, <3>2
  <2> HIDE DEF d
  <2> QED BY <2>1, <1>1, Constants
<1>3. ASSUME NEW e \in Registered(m) PROVE el < W /\ d = el /\ Adv(m, e) - el \in 0 .. W - 1 /\ Adv(m, e) \in Int
  <2>1. Adv(m, e) \in 0 .. W - 1
    BY AdvType DEF TmGood
  <2>2. Margin + el <= Adv(m, e) + n + LateBy /\ n \in 0 .. MaxLate
    BY DEF Base
  <2>3. el <= Adv(m, e)
    <3> HIDE DEF el
    <3> QED BY <2>1, <2>2, <1>1, Constants
  <2>4. el \in 0 .. W - 1
    <3> HIDE DEF el
    <3> QED BY <2>1, <2>3, <1>1, Constants
  <2>5. el % W = el
    BY <2>4, Constants, RemainderNear
  <2>6. el < W /\ Adv(m, e) - el \in 0 .. W - 1 /\ Adv(m, e) \in Int
    <3> HIDE DEF el
    <3> QED BY <2>1, <2>3, <2>4, Constants
  <2> QED BY <2>5, <2>6
<1>4. TmType(k) /\ SameBut(k, m, {"current_hrtcnt"}) /\ k.current_evttim = m.current_evttim
      /\ k.hrt = k.current_hrtcnt /\ lag(k) = lag(m)
  BY DEF TmGood, TmType, TmFields, SameBut, lag
<1>5. TmGood(k) /\ Registered(k) = Registered(m) /\ \A e : Adv(k, e) = Adv(m, e)
  <2>1. SameBut(k, m, {"in_signal_time", "current_hrtcnt", "hrt", "hrt_left", "hrt_request",
                        "systim_offset", "monotonic_evttim"})
    BY <1>4 DEF SameBut
  <2> HIDE DEF k
  <2> QED BY <1>4, <2>1, GoodSame
<1>6. u = moved(k, (k.current_evttim + d) % W, d)
  BY <1>4 DEF update_current_evttim
<1> HIDE DEF k, u, d, el
<1>7. /\ Shifted(u, k, d) /\ SameBut(u, k, Calendar)
      /\ lag(u) = IF lag(k) < d THEN 0 ELSE lag(k) - d
  <2>1. \A e \in Registered(k) : Adv(k, e) - d \in 0 .. W - 1
    BY <1>3, <1>5
  <2> QED BY <2>1, <1>2, <1>5, <1>6, MovedGood
<1>8. Shifted(u, m, el)
  BY <1>7, <1>5, <1>3 DEF Shifted
<1>9. SameBut(u, m, Calendar \cup {"current_hrtcnt"})
  BY <1>7, <1>4 DEF SameBut, Calendar
<1>10. hrtcnt_advance(u) = 0
  <2>1. u.hrt = u.current_hrtcnt
    BY <1>7, <1>4 DEF SameBut, Calendar, TmType, TmFields
  <2> QED BY <2>1, <1>8, ElapsedType DEF Shifted, TmGood
<1>11. Base(u, n)
  <2>1. u.in_signal_time = m.in_signal_time /\ u.hrt_request = m.hrt_request
    BY <1>9 DEF SameBut, Calendar, TmGood, TmType, TmFields
  <2>2. lag(m) \in 0 .. W - 1 /\ lag(m) < 2 * TMAX_ADJTIM /\ lag(k) = lag(m)
    BY <1>4, LagType DEF TmGood, Base
  <2>3. lag(u) \in Int /\ lag(u) >= lag(m) - d /\ lag(u) < 2 * TMAX_ADJTIM
    BY <2>2, <1>7, <1>2, Constants
  <2>4. ASSUME NEW e \in Registered(u)
        PROVE  Adv(u, e) <= W - 2 * TMAX_ADJTIM + lag(u) /\ Margin + hrtcnt_advance(u) <= Adv(u, e) + n + LateBy
    <3>1. e \in Registered(m) /\ Adv(u, e) = Adv(m, e) - el /\ d = el /\ Adv(m, e) \in Int
      BY <1>8, <1>3 DEF Shifted
    <3>2. Adv(m, e) <= W - 2 * TMAX_ADJTIM + lag(m) /\ Margin + el <= Adv(m, e) + n + LateBy /\ n \in 0 .. MaxLate
      BY <3>1 DEF Base, el
    <3> QED BY <3>1, <3>2, <2>3, <2>2, <1>10, <1>1, Constants
  <2>5. n \in 0 .. MaxLate /\ (~ u.in_signal_time /\ ~ u.hrt_request => n = 0)
    BY <2>1 DEF Base
  <2> QED BY <2>3, <2>4, <2>5 DEF Base
<1> QED BY <1>3, <1>4, <1>7, <1>8, <1>9, <1>10, <1>11 DEF Updated, u, el, d

-----------------------------------------------------------------------------
(* Reading the timer keeps the bounds.                                     *)
LEMMA UpdateSound ==
  ASSUME NEW m, NEW n, Sound(m, n), NEW u, u = update_current_evttim(m)
  PROVE  Sound(u, n) /\ Updated(u, m, n)
<1>1. Updated(u, m, n)
  BY UpdateGood DEF Sound
<1>2. u.in_signal_time = m.in_signal_time /\ u.hrt_request = m.hrt_request /\ u.hrt_left = m.hrt_left
  BY <1>1 DEF Updated, SameBut, Calendar, Sound, TmGood, TmType, TmFields
<1>3. Timer(u, n)
  <2>1. hrtcnt_advance(u) = 0 /\ n \in 0 .. MaxLate /\ hrtcnt_advance(m) \in Nat /\ m.hrt_left \in Nat
    BY <1>1, ElapsedType, Constants DEF Updated, Base, Sound, TmGood, TmType
  <2>2. ASSUME ~ u.in_signal_time, ~ u.hrt_request
        PROVE  /\ HRTCNT_BOUND # Null => /\ u.hrt_left \in 1 .. HRTCNT_BOUND
                                         /\ hrtcnt_advance(u) + u.hrt_left <= HRTCNT_BOUND + MaxLate
               /\ \A e \in Registered(u) : /\ u.hrt_left > 0
                     /\ Margin + hrtcnt_advance(u) + u.hrt_left <= Adv(u, e) + MaxLate
    <3>1. HRTCNT_BOUND # Null => m.hrt_left \in 1 .. HRTCNT_BOUND
      BY <1>2, <2>2 DEF Sound, Timer
    <3>2. ASSUME NEW e \in Registered(u)
          PROVE u.hrt_left > 0 /\ Margin + hrtcnt_advance(u) + u.hrt_left <= Adv(u, e) + MaxLate
      <4>1. e \in Registered(m) /\ Adv(u, e) = Adv(m, e) - hrtcnt_advance(m)
        BY <1>1 DEF Updated, Shifted
      <4>2. Adv(m, e) \in Int
        BY <4>1, AdvType DEF Sound, TmGood
      <4>3. m.hrt_left > 0 /\ Margin + hrtcnt_advance(m) + m.hrt_left <= Adv(m, e) + MaxLate
        BY <4>1, <1>2, <2>2 DEF Sound, Timer
      <4> QED BY <4>1, <4>2, <4>3, <2>1, <1>2, Constants
    <3> QED BY <3>1, <3>2, <2>1, <1>2, Constants
  <2> QED BY <2>1, <2>2, Constants DEF Timer
<1> QED BY <1>1, <1>3 DEF Sound, Updated, Shifted

(* The timer is set anew for the events there are.                         *)
Set(s, m, n) ==
  /\ Sound(s, n) /\ SameBut(s, m, {"hrt_left", "hrt_request"})
  /\ Registered(s) = Registered(m) /\ \A e : Adv(s, e) = Adv(m, e)

(* Setting the timer soon after a reading establishes its bounds.          *)
LEMMA SetSound ==
  ASSUME NEW m, NEW n, TmGood(m), Base(m, n), ~ m.in_signal_time, hrtcnt_advance(m) <= MaxLate
  PROVE  Set(set_hrt_event(m), m, n)
<1> DEFINE s == set_hrt_event(m)
           el == hrtcnt_advance(m)
           top == m.heap[0]
<1>1. Timed(s, m)
  BY SetEventTimed
<1> HIDE DEF s
<1>2. SameBut(s, m, {"hrt_left", "hrt_request"}) /\ TmType(s)
  BY <1>1 DEF Timed
<1>3. TmGood(s) /\ Registered(s) = Registered(m) /\ \A e : Adv(s, e) = Adv(m, e)
  <2>1. SameBut(s, m, {"in_signal_time", "current_hrtcnt", "hrt", "hrt_left", "hrt_request",
                        "systim_offset", "monotonic_evttim"})
    BY <1>2 DEF SameBut
  <2> QED BY <1>2, <2>1, GoodSame
<1>4. hrtcnt_advance(s) = el /\ lag(s) = lag(m) /\ s.in_signal_time = m.in_signal_time
  BY <1>2 DEF SameBut, TmGood, TmType, TmFields, hrtcnt_advance, lag
<1>5. el \in Nat /\ n \in 0 .. MaxLate /\ el <= MaxLate
  BY ElapsedType, Constants DEF TmGood, Base
<1>6. Base(s, n)
  <2>1. m.hrt_request => s.hrt_request
    BY <1>1 DEF Timed
  <2> QED BY <2>1, <1>3, <1>4 DEF Base
<1>7. Timer(s, n)
  <2>1. HRTCNT_BOUND # Null => el <= HRTCNT_BOUND + MaxLate + n
    BY <1>5, Constants
  <2>2. ASSUME ~ s.hrt_request, HRTCNT_BOUND # Null
        PROVE  s.hrt_left \in 1 .. HRTCNT_BOUND /\ el + s.hrt_left <= HRTCNT_BOUND + MaxLate
    <3>1. s.hrt_left \in 1 .. HRTCNT_BOUND
      <4>1. CASE Registered(m) = {}
        BY <4>1, <2>2, <1>1, Constants DEF Timed
      <4>2. CASE Registered(m) # {}
        <5>1. Adv(m, top) > Margin /\ s.hrt_left = Bounded(Adv(m, top) - Margin)
          BY <4>2, <2>2, <1>1 DEF Timed
        <5>2. Adv(m, top) \in Int
          BY <4>2, TopNode, AdvType DEF TmGood
        <5>3. Adv(m, top) - Margin \in Nat \ {0}
          BY <5>1, <5>2, Constants
        <5> QED BY <5>1, <5>3, <2>2, Constants DEF Bounded
      <4> QED BY <4>1, <4>2
    <3> HIDE DEF el
    <3> QED BY <3>1, <1>5, Constants, <2>2
  <2>3. ASSUME ~ s.hrt_request, NEW e \in Registered(m)
        PROVE  s.hrt_left > 0 /\ Margin + el + s.hrt_left <= Adv(m, e) + MaxLate
    <3>1. Adv(m, top) > Margin /\ s.hrt_left = Bounded(Adv(m, top) - Margin)
      BY <2>3, <1>1 DEF Timed
    <3>2. Adv(m, top) \in Int /\ Adv(m, e) \in Int /\ Adv(m, top) <= Adv(m, e)
      <4>1. HeapGood(m) /\ Registered(m) # {}
        BY DEF TmGood
      <4>2. top \in Registered(m)
        BY <4>1, TopNode
      <4>3. Adv(m, top) \in 0 .. W - 1 /\ Adv(m, e) \in 0 .. W - 1
        BY <4>1, <4>2, AdvType
      <4> QED BY <4>1, <4>3, TopEarliest, Constants
    <3>3. Adv(m, top) - Margin \in Nat \ {0}
      BY <3>1, <3>2, Constants
    <3>4. s.hrt_left \in Nat \ {0} /\ s.hrt_left <= Adv(m, top) - Margin
      <4> DEFINE x == Adv(m, top) - Margin
      <4> HIDE DEF x
      <4>1. x \in Nat \ {0} /\ s.hrt_left = Bounded(x)
        BY <3>1, <3>3 DEF x
      <4>2. Bounded(x) \in Nat \ {0} /\ Bounded(x) <= x
        BY <4>1, Constants DEF Bounded
      <4> QED BY <4>1, <4>2 DEF x
    <3> HIDE DEF el, top
    <3> QED BY <3>2, <3>4, <1>5, Constants
  <2> QED BY <2>1, <2>2, <2>3, <1>3, <1>4 DEF Timer
<1> QED BY <1>2, <1>3, <1>6, <1>7 DEF Set, Sound, s

(* The fields of the heap.                                                 *)
Heap == {"heap", "index", "evttim"}

(* Registration changes the heap only.                                     *)
LEMMA InsertTm ==
  ASSUME NEW m, TmGood(m), NEW e \in TMEVTB \ Registered(m), NEW t \in EVTTIM,
         NEW q, q = tmevtb_insert(m, e, t)
  PROVE  /\ TmGood(q) /\ SameBut(q, m, Heap) /\ Registered(q) = Registered(m) \cup {e}
         /\ Adv(q, e) = EVTTIM_ADVANCE(m, t) /\ \A f \in Registered(m) : Adv(q, f) = Adv(m, f)
<1>1. Inserted(q, m, e, t)
  BY InsertGood DEF TmGood
<1>2. SameBut(q, m, Heap)
  BY <1>1 DEF Inserted, Heap
<1>3. TmType(q) /\ q.boundary_evttim = m.boundary_evttim /\ q.current_evttim = m.current_evttim
  BY <1>2 DEF SameBut, Heap, TmGood, TmType, TmFields
<1>4. TmGood(q)
  BY <1>1, <1>3 DEF Inserted, TmGood
<1>5. q.evttim[e] = t /\ \A f \in Registered(m) : q.evttim[f] = m.evttim[f]
  BY <1>1 DEF Inserted
<1> QED BY <1>1, <1>2, <1>3, <1>4, <1>5 DEF Inserted, Adv, EVTTIM_ADVANCE

(* The state after an event has left the heap.                             *)
Removed(q, m, e) ==
  /\ TmGood(q) /\ SameBut(q, m, Heap) /\ Registered(q) = Registered(m) \ {e}
  /\ \A f \in Registered(q) : Adv(q, f) = Adv(m, f)

(* Cancellation changes the heap only.                                     *)
LEMMA RemoveTm ==
  ASSUME NEW m, TmGood(m), NEW e, NEW q, Deleted(q, m, e)
  PROVE  Removed(q, m, e)
<1>2. SameBut(q, m, Heap)
  BY DEF Deleted, Heap
<1>3. TmType(q) /\ q.boundary_evttim = m.boundary_evttim /\ q.current_evttim = m.current_evttim
  BY <1>2 DEF SameBut, Heap, TmGood, TmType, TmFields
<1>4. TmGood(q)
  BY <1>3 DEF Deleted, TmGood
<1>5. \A f \in Registered(q) : q.evttim[f] = m.evttim[f]
  BY DEF Deleted
<1> QED BY <1>2, <1>3, <1>4, <1>5 DEF Deleted, Adv, EVTTIM_ADVANCE, Removed

(* Fewer events are no harder.                                             *)
LEMMA RemoveSound ==
  ASSUME NEW m, NEW n, Sound(m, n), NEW e, NEW q, Deleted(q, m, e)
  PROVE  Removed(q, m, e) /\ Sound(q, n)
<1>1. Removed(q, m, e)
  BY RemoveTm DEF Sound
<1>2. /\ hrtcnt_advance(q) = hrtcnt_advance(m) /\ lag(q) = lag(m) /\ q.in_signal_time = m.in_signal_time
      /\ q.hrt_left = m.hrt_left /\ q.hrt_request = m.hrt_request
  BY <1>1 DEF Removed, SameBut, Heap, Sound, TmGood, TmType, TmFields, hrtcnt_advance, lag
<1>3. \A f \in Registered(q) : f \in Registered(m) /\ Adv(q, f) = Adv(m, f)
  BY <1>1 DEF Removed
<1>4. Base(q, n)
  BY <1>2, <1>3 DEF Base, Sound
<1>5. Timer(q, n)
  BY <1>2, <1>3 DEF Timer, Sound
<1> QED BY <1>1, <1>4, <1>5 DEF Sound, Removed

-----------------------------------------------------------------------------
(* The fields of the timer.                                                *)
TimerFields == {"hrt_left", "hrt_request"}

(* The state of the heap and timer after a change of the events that leaves*)
(* the time alone.                                                         *)
Rest(r, u, n) == Sound(r, n) /\ SameBut(r, u, Heap \cup TimerFields)

(* tmevtb_enqueue_reltim keeps the bounds, and registers the event for the *)
(* time asked for after the current time.                                  *)
LEMMA EnqueueSound ==
  ASSUME NEW m, NEW n, Sound(m, n), NEW e \in TMEVTB \ Registered(m),
         NEW t \in Nat, t + TSTEP_HRTCNT + BOUNDARY_MARGIN + 2 * TMAX_ADJTIM <= W,
         NEW u, u = update_current_evttim(m), NEW r, r = tmevtb_enqueue_reltim(m, e, t)
  PROVE  /\ Updated(u, m, n) /\ Rest(r, u, n) /\ Registered(r) = Registered(m) \cup {e}
         /\ Adv(r, e) = Margin + TSTEP_HRTCNT + t /\ \A f \in Registered(m) : Adv(r, f) = Adv(u, f)
<1> DEFINE T == (calc_current_evttim_ub(u) + t) % W
           q == tmevtb_insert(u, e, T)
           c == u.current_evttim
           far == TSTEP_HRTCNT + t
<1>1. Sound(u, n) /\ Updated(u, m, n) /\ TmGood(u)
  BY UpdateSound DEF Sound
<1>2. Registered(u) = Registered(m)
  BY <1>1 DEF Updated, Shifted
<1>3. c \in Int /\ c \in EVTTIM /\ TSTEP_HRTCNT \in Nat /\ far \in Nat /\ c + far \in Int /\ c + TSTEP_HRTCNT \in Int
  BY <1>1, TimeEventAssumption, Constants DEF TmGood, TmType, EVTTIM
<1>4. T = (c + far) % W
  <2>1. T = (((c + TSTEP_HRTCNT) % W) + t) % W
    BY DEF calc_current_evttim_ub
  <2>2. T = ((c + TSTEP_HRTCNT) + t) % W
    <3> HIDE DEF c, T
    <3>1. t \in Int /\ c + TSTEP_HRTCNT \in Int /\ W \in Nat \ {0}
      BY <1>3, Constants
    <3>2. (((c + TSTEP_HRTCNT) % W) + t) % W = ((c + TSTEP_HRTCNT) + t) % W
      BY <3>1, RemainderSum
    <3> QED BY <3>2, <2>1
  <2>3. (c + TSTEP_HRTCNT) + t = c + far
    BY <1>3
  <2> QED BY <2>2, <2>3
<1> HIDE DEF T, far
<1>5. T \in EVTTIM /\ T \in Int
  <2>1. T \in 0 .. W - 1
    BY <1>3, <1>4, Constants, Remainder
  <2> QED BY <2>1, Constants DEF EVTTIM
<1>6. EVTTIM_ADVANCE(u, T) = Margin + far
  <2>1. EVTTIM_ADVANCE(u, T) = (T - c + Margin) % W
    BY <1>1, <1>3, <1>5, AdvanceFrom DEF TmGood, Margin
  <2>2. T - c + Margin = ((c + far) % W) + (Margin - c) /\ Margin - c \in Int
    BY <1>3, <1>4, <1>5, Constants
  <2>3. EVTTIM_ADVANCE(u, T) = ((c + far) + (Margin - c)) % W
    BY <2>1, <2>2, <1>3, Constants, RemainderSum
  <2>4. (c + far) + (Margin - c) = Margin + far
    BY <1>3, Constants
  <2>5. Margin + far \in 0 .. W - 1 /\ Margin + far \in Int
    BY <1>3, Constants DEF far, Margin
  <2> QED BY <2>3, <2>4, <2>5, Constants, RemainderNear
<1>7. /\ TmGood(q) /\ SameBut(q, u, Heap) /\ Registered(q) = Registered(m) \cup {e}
      /\ Adv(q, e) = Margin + far /\ \A f \in Registered(m) : Adv(q, f) = Adv(u, f)
  BY <1>1, <1>2, <1>5, <1>6, InsertTm
<1> HIDE DEF q
<1>8. /\ hrtcnt_advance(q) = 0 /\ lag(q) = lag(u) /\ q.in_signal_time = u.in_signal_time
      /\ q.hrt_left = u.hrt_left /\ q.hrt_request = u.hrt_request
  <2>1. hrtcnt_advance(u) = 0
    BY <1>1 DEF Updated
  <2> QED BY <2>1, <1>1, <1>7 DEF SameBut, Heap, TmGood, TmType, TmFields, hrtcnt_advance, lag
<1>9. Base(q, n)
  <2>1. lag(u) \in Nat /\ n \in Nat
    <3>1. lag(u) \in 0 .. W - 1
      BY <1>1, LagType DEF TmGood
    <3> QED BY <3>1, <1>1, Constants DEF Sound, Base
  <2>2. Adv(q, e) <= W - 2 * TMAX_ADJTIM + lag(q) /\ Margin + hrtcnt_advance(q) <= Adv(q, e) + n + LateBy
    BY <2>1, <1>7, <1>8, <1>3, Constants DEF far, Margin
  <2>3. \A f \in Registered(m) : /\ Adv(q, f) <= W - 2 * TMAX_ADJTIM + lag(q)
                                 /\ Margin + hrtcnt_advance(q) <= Adv(q, f) + n + LateBy
    <3>1. hrtcnt_advance(q) = hrtcnt_advance(u)
      BY <1>8, <1>1 DEF Updated
    <3> QED BY <3>1, <1>1, <1>2, <1>7, <1>8 DEF Sound, Base
  <2> QED BY <2>2, <2>3, <1>1, <1>7, <1>8 DEF Sound, Base
<1>10. r = IF ~ q.in_signal_time /\ q.index[e] = 0 THEN set_hrt_event(q) ELSE q
  BY DEF tmevtb_enqueue_reltim, enqueued, q, T
<1>11. CASE ~ q.in_signal_time /\ q.index[e] = 0
  <2>1. Set(r, q, n)
    BY <1>7, <1>8, <1>9, <1>10, <1>11, SetSound, Constants
  <2>2. Sound(r, n) /\ SameBut(r, q, TimerFields) /\ Registered(r) = Registered(q) /\ \A x : Adv(r, x) = Adv(q, x)
    BY <2>1 DEF Set, TimerFields
  <2>3. SameBut(r, u, Heap \cup TimerFields)
    BY <2>2, <1>7 DEF SameBut
  <2> QED BY <2>2, <2>3, <1>1, <1>3, <1>7, Constants DEF Rest, far
<1>12. CASE ~ (~ q.in_signal_time /\ q.index[e] = 0)
  <2>1. Timer(q, n)
    <3>1. q.in_signal_time => hrtcnt_advance(q) <= n
      BY <1>8, <1>9, Constants DEF Base
    <3>2. ASSUME ~ q.in_signal_time
          PROVE  \E f \in Registered(m) : \A x \in Registered(q) : Adv(u, f) <= Adv(q, x)
      <4>1. q.heap[0] \in Registered(q) /\ q.index[q.heap[0]] = 0
        BY <1>7, TopNode DEF TmGood
      <4>2. q.heap[0] \in Registered(m)
        BY <4>1, <3>2, <1>12, <1>7
      <4> QED BY <4>2, <1>7, TopEarliest DEF TmGood
    <3>3. hrtcnt_advance(u) = 0
      BY <1>1 DEF Updated
    <3>4. ASSUME ~ q.in_signal_time, ~ q.hrt_request, NEW x \in Registered(q)
          PROVE  q.hrt_left > 0 /\ Margin + hrtcnt_advance(q) + q.hrt_left <= Adv(q, x) + MaxLate
      <4>1. PICK f \in Registered(m) : Adv(u, f) <= Adv(q, x)
        BY <3>2, <3>4
      <4>2. u.hrt_left > 0 /\ Margin + hrtcnt_advance(u) + u.hrt_left <= Adv(u, f) + MaxLate
        BY <4>1, <3>4, <1>1, <1>2, <1>8 DEF Sound, Timer
      <4>3. Adv(u, f) \in Int /\ Adv(q, x) \in Int /\ u.hrt_left \in Int
        BY <4>1, <1>1, <1>2, <1>7, AdvType DEF TmGood, TmType
      <4> QED BY <4>1, <4>2, <4>3, <3>3, <1>8, Constants
    <3> QED BY <3>1, <3>3, <3>4, <1>1, <1>8 DEF Sound, Timer
  <2>2. Sound(q, n) /\ r = q
    BY <2>1, <1>7, <1>9, <1>10, <1>12 DEF Sound
  <2>3. SameBut(r, u, Heap \cup TimerFields)
    BY <2>2, <1>7 DEF SameBut
  <2> QED BY <2>2, <2>3, <1>1, <1>3, <1>7, Constants DEF Rest, far
<1> QED BY <1>11, <1>12

(* tmevtb_dequeue keeps the bounds; it may read the timer after the event  *)
(* has left.                                                               *)
LEMMA DequeueSound ==
  ASSUME NEW m, NEW n, Sound(m, n), NEW e \in Registered(m), NEW r, r = tmevtb_dequeue(m, e)
  PROVE  \E q, u : /\ Removed(q, m, e) /\ Sound(q, n) /\ (u = q \/ (Updated(u, q, n) /\ u = update_current_evttim(q)))
                   /\ Rest(r, u, n) /\ Registered(r) = Registered(q) /\ \A f \in Registered(q) : Adv(r, f) = Adv(u, f)
<1> DEFINE q == tmevtb_delete(m, e)
           u == update_current_evttim(q)
           now == ~ m.in_signal_time /\ m.index[e] = 0
<1>1. Removed(q, m, e) /\ Sound(q, n)
  BY DeleteGood, RemoveSound DEF Sound, TmGood
<1>2. r = IF now THEN set_hrt_event(u) ELSE q
  BY DEF tmevtb_dequeue
<1> HIDE DEF q, u
<1>3. q = [x \in DOMAIN q |-> q[x]] /\ q.in_signal_time = m.in_signal_time
  BY <1>1 DEF Removed, SameBut, Heap, Sound, TmGood, TmType, TmFields
<1>4. CASE ~ now
  <2>1. r = q /\ SameBut(q, q, Heap \cup TimerFields)
    BY <1>2, <1>3, <1>4 DEF SameBut
  <2> QED BY <2>1, <1>1 DEF Rest
<1>5. CASE now
  <2>1. Sound(u, n) /\ Updated(u, q, n)
    BY <1>1, UpdateSound DEF u
  <2>2. u.in_signal_time = q.in_signal_time /\ hrtcnt_advance(u) = 0
    BY <2>1, <1>1 DEF Updated, SameBut, Calendar, Sound, TmGood, TmType, TmFields
  <2>3. Set(r, u, n)
    BY <2>1, <2>2, <1>2, <1>3, <1>5, SetSound, Constants DEF Sound
  <2>4. SameBut(r, u, Heap \cup TimerFields)
    BY <2>3 DEF Set, SameBut, TimerFields
  <2> QED BY <2>1, <2>3, <2>4, <1>1 DEF Set, Rest, Updated, Shifted, u
<1> QED BY <1>4, <1>5

-----------------------------------------------------------------------------
(* A timer that is set within reach of its reading: what the idle kernel   *)
(* and signal_time both have to show.                                      *)
LEMMA AtOnce ==
  ASSUME NEW m, NEW n, TmGood(m), Base(m, n), hrtcnt_advance(m) = 0,
         NEW r, r = IF m.in_signal_time THEN m ELSE set_hrt_event(m)
  PROVE  /\ Sound(r, n) /\ SameBut(r, m, TimerFields) /\ Registered(r) = Registered(m)
         /\ \A e : Adv(r, e) = Adv(m, e)
<1>1. CASE ~ m.in_signal_time
  BY <1>1, SetSound, Constants DEF Set, TimerFields
<1>2. CASE m.in_signal_time
  <2>1. Timer(m, n)
    BY <1>2, Constants DEF Timer, Base
  <2>2. SameBut(m, m, TimerFields)
    BY DEF SameBut, TmGood, TmType, TmFields
  <2> QED BY <2>1, <2>2, <1>2 DEF Sound
<1> QED BY <1>1, <1>2

(* The state after an adjustment.                                          *)
Adjusted(r, u, d) ==
  /\ SameBut(r, u, Calendar \cup TimerFields) /\ Registered(r) = Registered(u)
  /\ \A e \in Registered(u) : Adv(r, e) = Adv(u, e) - d

(* An adjustment forward that check_adjtim lets pass leaves no event too   *)
(* late.                                                                   *)
LEMMA ForwardSound ==
  ASSUME NEW u, NEW n, Sound(u, n), hrtcnt_advance(u) = 0,
         NEW d \in 1 .. TMAX_ADJTIM, ~ check_adjtim(u, d), NEW a, a = moved(u, (u.current_evttim + d) % W, d)
  PROVE  /\ Shifted(a, u, d) /\ Base(a, n) /\ SameBut(a, u, Calendar)
         /\ lag(a) = IF lag(u) < d THEN 0 ELSE lag(u) - d
         /\ \A e \in Registered(u) : Adv(u, e) > Margin - TMAX_ADJTIM
<1>1. TmGood(u) /\ HeapGood(u) /\ Base(u, n) /\ d \in Nat \ {0} /\ d <= TMAX_ADJTIM
  BY Constants DEF Sound, TmGood
<1>2. ASSUME NEW e \in Registered(u)
      PROVE  Adv(u, e) > Margin - TMAX_ADJTIM /\ Adv(u, e) \in 0 .. W - 1
  <2> DEFINE top == u.heap[0]
             c == u.current_evttim
             t == u.evttim[top]
             tt == (t + TMAX_ADJTIM) % W
  <2>1. num_tmevt(u) > 0 /\ top \in Registered(u)
    <3>1. IsFiniteSet(Registered(u)) /\ Registered(u) # {}
      BY <1>1, TimeHeapAssumption, FS_Subset DEF HeapGood, Filled
    <3>2. Cardinality(Registered(u)) \in Nat /\ Cardinality(Registered(u)) # 0
      BY <3>1, FS_CardinalityType, FS_EmptySet
    <3> QED BY <3>1, <3>2, <1>1, GoodWellFormed, TopNode
  <2>2. ~ EVTTIM_LE(u, tt, c)
    BY <2>1, <1>1 DEF check_adjtim, top_evttim, time
  <2>3. EVTTIM_ADVANCE(u, c) = Margin
    BY <1>1, BoundaryType DEF TmGood, TmType, EVTTIM_ADVANCE, Margin
  <2>4. t \in Int /\ c \in Int /\ u.boundary_evttim \in Int /\ t + TMAX_ADJTIM \in Int
    <3>1. t \in 0 .. W - 1 /\ u.boundary_evttim \in 0 .. W - 1
      BY <1>1, <2>1 DEF HeapGood, Filled, EVTTIM
    <3>2. c \in 0 .. W - 1
      BY <1>1 DEF TmGood, TmType, EVTTIM
    <3> HIDE DEF t, c
    <3> QED BY <3>1, <3>2, Constants
  <2>5. EVTTIM_ADVANCE(u, tt) = (Adv(u, top) + TMAX_ADJTIM) % W
    <3> DEFINE b == u.boundary_evttim
    <3>1. (((t + TMAX_ADJTIM) % W) + (- b)) % W = ((t + TMAX_ADJTIM) + (- b)) % W
      <4>1. - b \in Int
        BY <2>4
      <4> HIDE DEF t, b
      <4> QED BY <2>4, <4>1, Constants, RemainderSum
    <3>2. (((t + (- b)) % W) + TMAX_ADJTIM) % W = ((t + (- b)) + TMAX_ADJTIM) % W
      <4>1. t + (- b) \in Int /\ TMAX_ADJTIM \in Int
        BY <2>4, Constants
      <4> HIDE DEF t, b
      <4> QED BY <4>1, Constants, RemainderSum
    <3>3. (t + TMAX_ADJTIM) + (- b) = (t + (- b)) + TMAX_ADJTIM /\ t + (- b) = t - b
      BY <2>4, Constants
    <3>4. tt \in Int /\ tt + (- b) = tt - b
      <4>1. tt \in 0 .. W - 1
        BY <2>4, Constants, Remainder
      <4> HIDE DEF tt
      <4> QED BY <4>1, <2>4, Constants
    <3>5. EVTTIM_ADVANCE(u, tt) = (tt + (- b)) % W /\ Adv(u, top) = (t + (- b)) % W
      BY <3>3, <3>4 DEF EVTTIM_ADVANCE, Adv
    <3> HIDE DEF b, t
    <3> QED BY <3>1, <3>2, <3>3, <3>5
  <2>6. Adv(u, top) \in 0 .. W - 1 /\ Adv(u, e) \in 0 .. W - 1 /\ Adv(u, top) <= Adv(u, e)
    BY <1>1, <2>1, AdvType, TopEarliest
  <2>7. ~ ((Adv(u, top) + TMAX_ADJTIM) % W <= Margin)
    BY <2>2, <2>3, <2>5 DEF EVTTIM_LE
  <2> DEFINE x == Adv(u, top)
             y == Adv(u, e)
  <2> HIDE DEF x, y, t, c, tt, top
  <2>8. x > Margin - TMAX_ADJTIM
    <3>1. CASE x + TMAX_ADJTIM \in 0 .. W - 1
      <4>1. x + TMAX_ADJTIM \in Int /\ x \in Int
        BY <3>1, <2>6, Constants DEF x
      <4>2. (x + TMAX_ADJTIM) % W = x + TMAX_ADJTIM
        BY <3>1, <4>1, Constants, RemainderNear
      <4>3. ~ (x + TMAX_ADJTIM <= Margin)
        BY <4>2, <2>7 DEF x
      <4> QED BY <4>1, <4>3, Constants
    <3>2. CASE ~ (x + TMAX_ADJTIM \in 0 .. W - 1)
      BY <3>2, <2>6, Constants DEF x
    <3> QED BY <3>1, <3>2
  <2> QED BY <2>6, <2>8, Constants DEF x, y
<1>3. \A e \in Registered(u) : Adv(u, e) - d \in 0 .. W - 1
  BY <1>1, <1>2, Constants
<1>4. Shifted(a, u, d) /\ SameBut(a, u, Calendar) /\ lag(a) = IF lag(u) < d THEN 0 ELSE lag(u) - d
  BY <1>1, <1>3, MovedGood
<1>5. Base(a, n)
  <2>1. a.in_signal_time = u.in_signal_time /\ a.hrt_request = u.hrt_request
        /\ hrtcnt_advance(a) = 0
    BY <1>4, <1>1 DEF SameBut, Calendar, TmGood, TmType, TmFields, hrtcnt_advance
  <2>2. lag(u) \in 0 .. W - 1 /\ lag(u) < 2 * TMAX_ADJTIM /\ n \in 0 .. MaxLate
    BY <1>1, LagType DEF Base, TmGood
  <2>3. lag(a) \in Int /\ lag(a) < 2 * TMAX_ADJTIM /\ lag(a) >= lag(u) - d
    BY <2>2, <1>4, <1>1, Constants
  <2>4. ASSUME NEW e \in Registered(a)
        PROVE  Adv(a, e) <= W - 2 * TMAX_ADJTIM + lag(a) /\ Margin + hrtcnt_advance(a) <= Adv(a, e) + n + LateBy
    <3>1. e \in Registered(u) /\ Adv(a, e) = Adv(u, e) - d
      BY <1>4 DEF Shifted
    <3>2. Adv(u, e) <= W - 2 * TMAX_ADJTIM + lag(u)
      BY <3>1, <1>1 DEF Base
    <3> QED BY <3>1, <3>2, <2>1, <2>2, <2>3, <1>1, <1>2, Constants
  <2> QED BY <2>1, <2>2, <2>3, <2>4, <1>1 DEF Base
<1> QED BY <1>2, <1>4, <1>5

(* An adjustment back that check_adjtim lets pass puts no event too far    *)
(* ahead.                                                                  *)
LEMMA BackwardSound ==
  ASSUME NEW u, NEW n, Sound(u, n), hrtcnt_advance(u) = 0,
         NEW d \in - TMAX_ADJTIM .. -1, ~ check_adjtim(u, d), NEW t, t = (u.current_evttim + d) % W,
         NEW a, a = [u EXCEPT !.current_evttim = t, !.boundary_evttim = boundary(t)]
  PROVE  /\ Shifted(a, u, d) /\ Base(a, n) /\ SameBut(a, u, {"current_evttim", "boundary_evttim"})
         /\ lag(a) = lag(u) - d /\ lag(u) < TMAX_ADJTIM
<1> DEFINE c == u.current_evttim
<1>1. TmGood(u) /\ HeapGood(u) /\ Base(u, n) /\ d \in Int /\ d < 0 /\ d >= - TMAX_ADJTIM
  BY Constants DEF Sound, TmGood
<1>2. lag(u) \in 0 .. W - 1 /\ lag(u) < TMAX_ADJTIM
  <2>1. lag(u) \in 0 .. W - 1
    BY <1>1, LagType DEF TmGood
  <2>2. ~ (lag(u) >= TMAX_ADJTIM)
    BY <1>1 DEF check_adjtim, lag
  <2> QED BY <2>1, <2>2, Constants
<1>3. \A e \in Registered(u) : Adv(u, e) - d \in 0 .. W - 1 /\ Adv(u, e) - d <= W - 2 * TMAX_ADJTIM + (lag(u) - d)
  <2> TAKE e \in Registered(u)
  <2>1. Adv(u, e) \in 0 .. W - 1 /\ Adv(u, e) <= W - 2 * TMAX_ADJTIM + lag(u)
    BY <1>1, AdvType DEF Base
  <2> QED BY <2>1, <1>1, <1>2, Constants
<1>4. c \in Int /\ u.monotonic_evttim \in Int /\ c + d \in Int /\ c \in EVTTIM
  BY <1>1, Constants DEF TmGood, TmType, EVTTIM
<1>5. t \in EVTTIM /\ t \in Int
  BY <1>4, Constants, Remainder DEF EVTTIM
<1>6. boundary(t) \in EVTTIM
  BY <1>5, BoundaryType
<1>7. SameBut(a, u, {"current_evttim", "boundary_evttim"})
  BY DEF SameBut
<1>8. TmType(a) /\ a.current_evttim = t /\ a.boundary_evttim = boundary(t) /\ a.monotonic_evttim = u.monotonic_evttim
  BY <1>1, <1>5, <1>6 DEF TmGood, TmType, TmFields
<1>9. Shifted(a, u, d)
  <2>1. HasHeap(a)
    BY <1>8 DEF TmType, TmFields, HasHeap
  <2>2. a.heap = u.heap /\ a.index = u.index /\ a.evttim = u.evttim
    BY <1>7, <1>1 DEF SameBut, TmGood, TmType, TmFields
  <2>3. u.current_evttim \in EVTTIM /\ u.boundary_evttim = boundary(u.current_evttim)
    BY <1>1, <1>4 DEF TmGood
  <2>4. a.current_evttim = (u.current_evttim + d) % W /\ a.boundary_evttim = boundary(a.current_evttim)
    BY <1>8
  <2>5. \A e \in Registered(u) : Adv(u, e) - d \in 0 .. W - 1
    BY <1>3
  <2>6. /\ HeapGood(a) /\ Registered(a) = Registered(u) /\ a.current_evttim \in EVTTIM
        /\ \A e \in Registered(u) : Adv(a, e) = Adv(u, e) - d
    <3>1. TimeMoves(u, a, d)
      BY <2>1, <2>2, <2>3, <2>4, <2>5, <1>1 DEF TimeMoves
    <3>2. HeapGood(a) /\ Registered(a) = Registered(u) /\ a.current_evttim \in EVTTIM
          /\ \A e \in Registered(u) : Adv(a, e) = Adv(u, e) - d
      BY ONLY <3>1, TimeShifts, Zenon
    <3> QED BY ONLY <3>2
  <2> QED BY <2>4, <2>6, <1>8 DEF Shifted, TmGood
<1>10. lag(a) = lag(u) - d
  <2> DEFINE x == u.monotonic_evttim
  <2>1. lag(a) = (x - ((c + d) % W)) % W
    BY <1>8 DEF lag
  <2>2. lag(a) = (x - (c + d)) % W
    BY <2>1, <1>4, Constants, RemainderDifference
  <2>3. x - (c + d) = (x - c) + (- d) /\ x - c \in Int /\ - d \in Int
    BY <1>1, <1>4
  <2>4. lag(a) = (lag(u) + (- d)) % W
    BY <2>2, <2>3, Constants, RemainderSum DEF lag
  <2>5. lag(u) + (- d) = lag(u) - d /\ lag(u) - d \in 0 .. W - 1 /\ lag(u) - d \in Int
    BY <1>1, <1>2, Constants, LatenessAssumption, TimeEventAssumption
  <2>6. (lag(u) - d) % W = lag(u) - d
    BY <2>5, Constants, RemainderNear
  <2> QED BY <2>4, <2>5, <2>6, Zenon
<1>11. Base(a, n)
  <2>1. a.in_signal_time = u.in_signal_time /\ a.hrt_request = u.hrt_request
        /\ hrtcnt_advance(a) = 0
    BY <1>7, <1>1 DEF SameBut, TmGood, TmType, TmFields, hrtcnt_advance
  <2>2. lag(a) \in Int /\ lag(a) < 2 * TMAX_ADJTIM
    BY <1>1, <1>2, <1>10, Constants
  <2>3. ASSUME NEW e \in Registered(a)
        PROVE  Adv(a, e) <= W - 2 * TMAX_ADJTIM + lag(a) /\ Margin + hrtcnt_advance(a) <= Adv(a, e) + n + LateBy
    <3>1. e \in Registered(u) /\ Adv(a, e) = Adv(u, e) - d
      BY <1>9 DEF Shifted
    <3>2. Margin + hrtcnt_advance(u) <= Adv(u, e) + n + LateBy /\ n \in 0 .. MaxLate
      BY <3>1, <1>1 DEF Base
    <3>3. Adv(u, e) \in Int
      BY <3>1, <1>1, AdvType
    <3> QED BY <3>1, <3>2, <3>3, <2>1, <1>1, <1>3, <1>10, Constants
  <2> QED BY <2>1, <2>2, <2>3, <1>1 DEF Base
<1> QED BY <1>2, <1>7, <1>9, <1>10, <1>11

-----------------------------------------------------------------------------
(* adj_tim keeps the bounds.                                               *)
LEMMA AdjustSound ==
  ASSUME NEW m, NEW n, Sound(m, n), NEW d \in - TMAX_ADJTIM .. TMAX_ADJTIM, d # 0,
         NEW u, u = update_current_evttim(m), NEW r, r = adj_tim(m, d)
  PROVE  /\ Updated(u, m, n) /\ Sound(r, n)
         /\ (r = u \/ (Adjusted(r, u, d) /\ ~ check_adjtim(u, d)))
<1>1. Sound(u, n) /\ Updated(u, m, n) /\ hrtcnt_advance(u) = 0 /\ TmGood(u)
  BY UpdateSound DEF Updated, Sound
<1>2. CASE check_adjtim(u, d)
  BY <1>1, <1>2 DEF adj_tim
<1> DEFINE t == (u.current_evttim + d) % W
           a == IF d > 0 THEN moved(u, t, d)
                ELSE [u EXCEPT !.current_evttim = t, !.boundary_evttim = boundary(t)]
<1>3. CASE ~ check_adjtim(u, d)
  <2>1. r = IF a.in_signal_time THEN a ELSE set_hrt_event(a)
    <3>1. u.in_signal_time = a.in_signal_time
      BY <1>1 DEF TmGood, TmType, TmFields, moved
    <3> QED BY <1>3, <3>1 DEF adj_tim, adjusted
  <2>2. Shifted(a, u, d) /\ Base(a, n) /\ SameBut(a, u, Calendar)
    <3>1. CASE d > 0
      <4>1. d \in 1 .. TMAX_ADJTIM /\ a = moved(u, t, d)
        BY <3>1, Constants
      <4> HIDE DEF a
      <4> QED BY <4>1, <1>1, <1>3, ForwardSound
    <3>2. CASE ~ (d > 0)
      <4>1. d \in - TMAX_ADJTIM .. -1 /\ a = [u EXCEPT !.current_evttim = t, !.boundary_evttim = boundary(t)]
        BY <3>2, Constants
      <4> HIDE DEF a
      <4>2. Shifted(a, u, d) /\ Base(a, n) /\ SameBut(a, u, {"current_evttim", "boundary_evttim"})
        BY <4>1, <1>1, <1>3, BackwardSound, ZenonT(60)
      <4> QED BY <4>2 DEF SameBut, Calendar
    <3> QED BY <3>1, <3>2
  <2> HIDE DEF a
  <2>3. hrtcnt_advance(a) = 0
    BY <2>2, <1>1 DEF SameBut, Calendar, TmGood, TmType, TmFields, hrtcnt_advance
  <2>4. /\ Sound(r, n) /\ SameBut(r, a, TimerFields) /\ Registered(r) = Registered(a)
        /\ \A e : Adv(r, e) = Adv(a, e)
    BY <2>1, <2>2, <2>3, AtOnce DEF Shifted
  <2>5. Adjusted(r, u, d)
    BY <2>2, <2>4 DEF Adjusted, Shifted, SameBut
  <2> QED BY <2>4, <2>5, <1>1, <1>3
<1> QED BY <1>2, <1>3

(* Only the system time changes, and that no event depends on.             *)
LEMMA SetTimeSound ==
  ASSUME NEW m, NEW n, Sound(m, n), NEW s \in SYSTIM,
         NEW u, u = update_current_evttim(m), NEW r, r = set_tim(m, s)
  PROVE  /\ Updated(u, m, n) /\ Sound(r, n) /\ SameBut(r, u, {"systim_offset"})
         /\ r.systim_offset = (s - u.monotonic_evttim) % SYSTIM_MOD
         /\ Registered(r) = Registered(u) /\ \A e : Adv(r, e) = Adv(u, e)
<1>1. Sound(u, n) /\ Updated(u, m, n) /\ TmGood(u)
  BY UpdateSound DEF Sound
<1>2. (s - u.monotonic_evttim) % SYSTIM_MOD \in SYSTIM
  <2>1. s - u.monotonic_evttim \in Int /\ SYSTIM_MOD \in Nat \ {0}
    BY <1>1, Constants, TimeEventAssumption DEF TmGood, TmType, EVTTIM, SYSTIM
  <2> QED BY <2>1, Remainder DEF SYSTIM
<1>3. r = [u EXCEPT !.systim_offset = (s - u.monotonic_evttim) % SYSTIM_MOD]
  BY DEF set_tim
<1>4. TmType(r) /\ SameBut(r, u, {"systim_offset"})
      /\ r.systim_offset = (s - u.monotonic_evttim) % SYSTIM_MOD
  BY <1>1, <1>2, <1>3 DEF TmGood, TmType, TmFields, SameBut
<1>5. TmGood(r) /\ Registered(r) = Registered(u) /\ \A e : Adv(r, e) = Adv(u, e)
  <2>1. SameBut(r, u, {"in_signal_time", "current_hrtcnt", "hrt", "hrt_left", "hrt_request",
                        "systim_offset", "monotonic_evttim"})
    BY <1>4 DEF SameBut
  <2> QED BY <1>1, <1>4, <2>1, GoodSame
<1>6. /\ hrtcnt_advance(r) = hrtcnt_advance(u) /\ lag(r) = lag(u) /\ r.in_signal_time = u.in_signal_time
      /\ r.hrt_left = u.hrt_left /\ r.hrt_request = u.hrt_request
  BY <1>1, <1>4 DEF SameBut, TmGood, TmType, TmFields, hrtcnt_advance, lag
<1>7. Base(r, n) /\ Timer(r, n)
  BY <1>1, <1>5, <1>6 DEF Sound, Base, Timer
<1> QED BY <1>1, <1>4, <1>5, <1>7 DEF Sound

(* A tick: while the interrupt is due it is not held off for ever.         *)
LEMMA TickSound ==
  ASSUME NEW m, NEW n, Sound(m, n), m.hrt_request \/ m.in_signal_time => n < MaxLate,
         NEW r, r = hrt_tick(m)
  PROVE  /\ Sound(r, IF m.hrt_request \/ m.in_signal_time THEN n + 1 ELSE 0)
         /\ SameBut(r, m, {"hrt", "hrt_left", "hrt_request"}) /\ Registered(r) = Registered(m)
         /\ \A e : Adv(r, e) = Adv(m, e)
         /\ Registered(m) # {} \/ HRTCNT_BOUND # Null => hrtcnt_advance(r) = hrtcnt_advance(m) + 1
<1> DEFINE due == m.hrt_request \/ m.in_signal_time
           late2 == IF due THEN n + 1 ELSE 0
           el == hrtcnt_advance(m)
<1>1. TmGood(m) /\ TmType(m) /\ m.hrt \in 0 .. TCYC_HRTCNT - 1 /\ TCYC_HRTCNT \in Nat \ {0}
  BY Constants DEF Sound, TmGood, TmType, HRTCNT
<1>2. (m.hrt + 1) % TCYC_HRTCNT = IF m.hrt = TCYC_HRTCNT - 1 THEN 0 ELSE m.hrt + 1
  <2>1. CASE m.hrt = TCYC_HRTCNT - 1
    <3>1. m.hrt + 1 = TCYC_HRTCNT /\ TCYC_HRTCNT \in TCYC_HRTCNT .. 2 * TCYC_HRTCNT - 1 /\ TCYC_HRTCNT \in Int
      BY <1>1, <2>1
    <3>2. TCYC_HRTCNT % TCYC_HRTCNT = TCYC_HRTCNT - TCYC_HRTCNT
      BY <3>1, <1>1, RemainderNear
    <3> QED BY <3>1, <3>2, <2>1
  <2>2. CASE m.hrt # TCYC_HRTCNT - 1
    <3>1. m.hrt + 1 \in 0 .. TCYC_HRTCNT - 1 /\ m.hrt + 1 \in Int
      BY <1>1, <2>2
    <3> QED BY <3>1, <1>1, <2>2, RemainderNear
  <2> QED BY <2>1, <2>2
<1> DEFINE hrt2 == (m.hrt + 1) % TCYC_HRTCNT
           left2 == IF m.hrt_left = 0 THEN 0 ELSE m.hrt_left - 1
           req2 == m.hrt_request \/ m.hrt_left = 1
<1>3. r = [m EXCEPT !.hrt = hrt2, !.hrt_left = left2, !.hrt_request = req2]
  BY <1>1 DEF hrt_tick, TmType, TmFields
<1>4. hrt2 \in HRTCNT /\ left2 \in Nat /\ req2 \in BOOLEAN
  BY <1>1, <1>2 DEF HRTCNT, TmType
<1> HIDE DEF left2, req2, hrt2
<1>5. TmType(r) /\ SameBut(r, m, {"hrt", "hrt_left", "hrt_request"})
      /\ r.hrt = hrt2 /\ r.hrt_left = left2 /\ r.hrt_request = req2
      /\ r.current_hrtcnt = m.current_hrtcnt /\ r.in_signal_time = m.in_signal_time /\ lag(r) = lag(m)
  BY <1>1, <1>3, <1>4 DEF TmType, TmFields, SameBut, lag
<1>6. TmGood(r) /\ Registered(r) = Registered(m) /\ \A e : Adv(r, e) = Adv(m, e)
  <2>1. SameBut(r, m, {"in_signal_time", "current_hrtcnt", "hrt", "hrt_left", "hrt_request",
                        "systim_offset", "monotonic_evttim"})
    BY <1>5 DEF SameBut
  <2> QED BY <1>1, <1>5, <2>1, GoodSame
<1>7. el + 1 < TCYC_HRTCNT => hrtcnt_advance(r) = el + 1
  <2> SUFFICES ASSUME el + 1 < TCYC_HRTCNT PROVE hrtcnt_advance(r) = el + 1
    OBVIOUS
  <2>1. m.current_hrtcnt \in 0 .. TCYC_HRTCNT - 1
    BY <1>1 DEF TmType, HRTCNT
  <2>2. /\ m.hrt < m.current_hrtcnt => el = m.hrt - m.current_hrtcnt + TCYC_HRTCNT
        /\ m.hrt >= m.current_hrtcnt => el = m.hrt - m.current_hrtcnt
    BY <1>1, ElapsedType
  <2>3. /\ r.hrt < r.current_hrtcnt => hrtcnt_advance(r) = r.hrt - r.current_hrtcnt + TCYC_HRTCNT
        /\ r.hrt >= r.current_hrtcnt => hrtcnt_advance(r) = r.hrt - r.current_hrtcnt
    BY <1>5, ElapsedType
  <2>4. r.hrt = IF m.hrt = TCYC_HRTCNT - 1 THEN 0 ELSE m.hrt + 1
    BY <1>5, <1>2 DEF hrt2
  <2> HIDE DEF el
  <2> QED BY <2>1, <2>2, <2>3, <2>4, <1>1, <1>5 DEF el
<1>8. el \in Nat /\ n \in 0 .. MaxLate /\ m.hrt_left \in Nat /\ late2 \in 0 .. MaxLate
      /\ m.hrt_request \in BOOLEAN /\ m.in_signal_time \in BOOLEAN /\ (~ due => n = 0)
  BY <1>1, ElapsedType, Constants DEF Sound, Base, TmType
<1>9. \A e \in Registered(m) : /\ Adv(m, e) \in 0 .. W - 1 /\ Adv(m, e) <= W - 2 * TMAX_ADJTIM + lag(m)
                               /\ Margin + el <= Adv(m, e) + n + LateBy
  BY <1>1, AdvType DEF TmGood, Sound, Base
<1>10. ~ due => \A e \in Registered(m) : m.hrt_left > 0 /\ Margin + el + m.hrt_left <= Adv(m, e) + MaxLate
  BY DEF Sound, Timer
<1>11. ~ due /\ HRTCNT_BOUND # Null => m.hrt_left \in 1 .. HRTCNT_BOUND /\ el + m.hrt_left <= HRTCNT_BOUND + MaxLate
  BY DEF Sound, Timer
<1>12. m.in_signal_time => el <= n
  BY DEF Sound, Timer
<1>13. ~ m.in_signal_time /\ m.hrt_request /\ HRTCNT_BOUND # Null => el <= HRTCNT_BOUND + MaxLate + n
  BY DEF Sound, Timer
<1>14. due => n < MaxLate /\ late2 = n + 1
  OBVIOUS
<1>15. ~ due => late2 = 0 /\ n = 0
  BY <1>8
<1>16. due <=> m.hrt_request \/ m.in_signal_time
  OBVIOUS
<1> HIDE DEF el, due, late2
<1>17. Registered(m) # {} \/ HRTCNT_BOUND # Null \/ m.in_signal_time => el + 1 < TCYC_HRTCNT
  <2>1. ASSUME HRTCNT_BOUND # Null PROVE el + 1 < TCYC_HRTCNT
    BY <2>1, <1>8, <1>11, <1>12, <1>13, <1>14, <1>16, Constants
  <2>2. ASSUME HRTCNT_BOUND = Null, m.in_signal_time PROVE el + 1 < TCYC_HRTCNT
    BY <2>2, <1>8, <1>12, <1>14, <1>16, Constants
  <2>3. ASSUME HRTCNT_BOUND = Null, NEW e \in Registered(m) PROVE el + 1 < TCYC_HRTCNT
    BY <2>3, <1>8, <1>9, <1>10, <1>14, <1>16, Constants
  <2> QED BY <2>1, <2>2, <2>3
<1>18. Base(r, late2)
  <2>1. ~ r.in_signal_time /\ ~ r.hrt_request => late2 = 0
    BY <1>5, <1>8, <1>15, <1>16 DEF req2
  <2>2. ASSUME NEW e \in Registered(m) PROVE Margin + (el + 1) <= Adv(m, e) + late2 + LateBy
    BY <1>8, <1>9, <1>10, <1>14, <1>15, Constants
  <2>3. \A e \in Registered(m) : hrtcnt_advance(r) = el + 1
    BY <1>7, <1>17
  <2>4. lag(m) < 2 * TMAX_ADJTIM
    BY DEF Sound, Base
  <2> QED BY <2>1, <2>2, <2>3, <2>4, <1>5, <1>6, <1>8, <1>9 DEF Base
<1>19. Timer(r, late2)
  <2>1. ASSUME r.in_signal_time PROVE hrtcnt_advance(r) <= late2
    BY <2>1, <1>5, <1>7, <1>8, <1>12, <1>14, <1>16, <1>17, Constants
  <2>2. ASSUME ~ r.in_signal_time, r.hrt_request, HRTCNT_BOUND # Null
        PROVE  hrtcnt_advance(r) <= HRTCNT_BOUND + MaxLate + late2
    <3>1. hrtcnt_advance(r) = el + 1 /\ ~ m.in_signal_time
      BY <2>2, <1>5, <1>7, <1>17
    <3>2. CASE m.hrt_request
      BY <3>1, <3>2, <2>2, <1>8, <1>13, <1>14, <1>16, Constants
    <3>3. CASE ~ m.hrt_request
      <4>1. m.hrt_left = 1
        BY <3>3, <2>2, <1>5 DEF req2
      <4> QED BY <4>1, <3>1, <3>3, <2>2, <1>8, <1>11, <1>16, Constants
    <3> QED BY <3>2, <3>3
  <2>3. ASSUME ~ r.in_signal_time, ~ r.hrt_request
        PROVE  /\ HRTCNT_BOUND # Null => /\ r.hrt_left \in 1 .. HRTCNT_BOUND
                                         /\ hrtcnt_advance(r) + r.hrt_left <= HRTCNT_BOUND + MaxLate
               /\ \A e \in Registered(m) : /\ r.hrt_left > 0
                     /\ Margin + hrtcnt_advance(r) + r.hrt_left <= Adv(m, e) + MaxLate
    <3>1. ~ due /\ m.hrt_left # 1 /\ r.hrt_left = left2
      BY <2>3, <1>5, <1>16 DEF req2
    <3>2. m.hrt_left > 0 => r.hrt_left > 0 /\ r.hrt_left = m.hrt_left - 1
      BY <3>1, <1>8 DEF left2
    <3>3. HRTCNT_BOUND # Null => /\ r.hrt_left \in 1 .. HRTCNT_BOUND
                                 /\ hrtcnt_advance(r) + r.hrt_left <= HRTCNT_BOUND + MaxLate
      <4> SUFFICES ASSUME HRTCNT_BOUND # Null
                   PROVE  /\ r.hrt_left \in 1 .. HRTCNT_BOUND
                          /\ hrtcnt_advance(r) + r.hrt_left <= HRTCNT_BOUND + MaxLate
        OBVIOUS
      <4>1. hrtcnt_advance(r) = el + 1 /\ m.hrt_left \in 1 .. HRTCNT_BOUND
            /\ el + m.hrt_left <= HRTCNT_BOUND + MaxLate /\ HRTCNT_BOUND \in Nat
        BY <3>1, <1>7, <1>11, <1>17, Constants
      <4>2. r.hrt_left = m.hrt_left - 1 /\ r.hrt_left > 0
        BY <3>2, <4>1
      <4> QED BY <4>1, <4>2, <1>8, Constants
    <3>4. ASSUME NEW e \in Registered(m)
          PROVE  r.hrt_left > 0 /\ Margin + hrtcnt_advance(r) + r.hrt_left <= Adv(m, e) + MaxLate
      <4>1. hrtcnt_advance(r) = el + 1
        BY <1>7, <1>17
      <4> QED BY <4>1, <3>1, <3>2, <1>8, <1>9, <1>10, Constants
    <3> QED BY <3>3, <3>4
  <2> QED BY <2>1, <2>2, <2>3, <1>6 DEF Timer
<1> QED BY <1>5, <1>6, <1>7, <1>17, <1>18, <1>19 DEF Sound, late2, el, due

-----------------------------------------------------------------------------
(* No event's time has come.                                               *)
NothingDue(m) == Registered(m) = {} \/ ~ (Adv(m, m.heap[0]) <= Margin)

(* Due tells when the time of the first event has come.                    *)
LEMMA DueMeans ==
  ASSUME TmGood(tm)
  PROVE  /\ Due <=> ~ NothingDue(tm)
         /\ Due => tm.heap[0] \in Registered(tm) /\ Adv(tm, tm.heap[0]) <= Margin
<1>1. num_tmevt(tm) > 0 <=> Registered(tm) # {}
  <2>1. IsFiniteSet(Registered(tm))
    BY TimeHeapAssumption, FS_Subset DEF HeapGood, Filled, TmGood
  <2>2. num_tmevt(tm) = Cardinality(Registered(tm)) /\ Cardinality(Registered(tm)) \in Nat
    BY <2>1, GoodWellFormed, FS_CardinalityType DEF TmGood
  <2> QED BY <2>1, <2>2, FS_EmptySet
<1>2. EVTTIM_ADVANCE(tm, tm.current_evttim) = Margin
  BY BoundaryType DEF TmGood, TmType, EVTTIM_ADVANCE, Margin
<1>3. EVTTIM_ADVANCE(tm, top_evttim(tm)) = Adv(tm, tm.heap[0])
  BY DEF top_evttim, time, Adv
<1> QED BY <1>1, <1>2, <1>3, TopNode DEF Due, NothingDue, EVTTIM_LE, TmGood

(* signal_time before it reads the timer.                                  *)
Begun(m) == [m EXCEPT !.hrt_request = FALSE, !.in_signal_time = TRUE]

(* signal_time begins within the bounds.                                   *)
LEMMA BeginSound ==
  ASSUME NEW m, NEW n, Sound(m, n), NEW k, k = Begun(m), NEW r, r = update_current_evttim(k)
  PROVE  /\ Updated(r, k, n) /\ Sound(r, n) /\ r.in_signal_time = TRUE
         /\ Registered(r) = Registered(m) /\ SameBut(k, m, {"hrt_request", "in_signal_time"})
         /\ TmGood(k) /\ \A e : Adv(k, e) = Adv(m, e)
<1>1. TmGood(m) /\ TmType(m)
  BY DEF Sound, TmGood
<1>2. TmType(k) /\ SameBut(k, m, {"hrt_request", "in_signal_time"}) /\ k.in_signal_time = TRUE
      /\ lag(k) = lag(m) /\ hrtcnt_advance(k) = hrtcnt_advance(m)
  BY <1>1 DEF Begun, TmType, TmFields, SameBut, lag, hrtcnt_advance
<1>3. TmGood(k) /\ Registered(k) = Registered(m) /\ \A e : Adv(k, e) = Adv(m, e)
  <2>1. SameBut(k, m, {"in_signal_time", "current_hrtcnt", "hrt", "hrt_left", "hrt_request",
                        "systim_offset", "monotonic_evttim"})
    BY <1>2 DEF SameBut
  <2> HIDE DEF SameBut
  <2> QED BY <1>1, <1>2, <2>1, GoodSame
<1>4. Base(k, n)
  BY <1>2, <1>3 DEF Sound, Base
<1>5. Updated(r, k, n)
  BY <1>3, <1>4, UpdateGood
<1>6. r.in_signal_time = TRUE
  BY <1>2, <1>5 DEF Updated, SameBut, Calendar, TmType, TmFields
<1>7. Timer(r, n)
  BY <1>5, <1>6, Constants DEF Timer, Updated, Base
<1> QED BY <1>2, <1>3, <1>5, <1>6, <1>7 DEF Sound, Updated, Shifted

(* signal_time ends within the bounds when nothing is due: the timer is set*)
(* for the first event.                                                    *)
LEMMA EndSound ==
  ASSUME NEW m, NEW n, Sound(m, n), m.in_signal_time, NothingDue(m),
         NEW r, r = [set_hrt_event(m) EXCEPT !.in_signal_time = FALSE]
  PROVE  /\ Sound(r, 0) /\ SameBut(r, m, TimerFields \cup {"in_signal_time"}) /\ ~ r.in_signal_time
         /\ Registered(r) = Registered(m) /\ \A e : Adv(r, e) = Adv(m, e)
<1> DEFINE k == [m EXCEPT !.in_signal_time = FALSE]
<1>1. TmGood(m) /\ TmType(m) /\ Base(m, n)
  BY DEF Sound, TmGood
<1>2. TmType(k) /\ SameBut(k, m, {"in_signal_time"}) /\ k.in_signal_time = FALSE
      /\ lag(k) = lag(m) /\ hrtcnt_advance(k) = hrtcnt_advance(m)
  BY <1>1 DEF TmType, TmFields, SameBut, lag, hrtcnt_advance
<1>3. TmGood(k) /\ Registered(k) = Registered(m) /\ \A e : Adv(k, e) = Adv(m, e)
  <2>1. SameBut(k, m, {"in_signal_time", "current_hrtcnt", "hrt", "hrt_left", "hrt_request",
                        "systim_offset", "monotonic_evttim"})
    BY <1>2 DEF SameBut
  <2> HIDE DEF k
  <2> QED BY <1>1, <1>2, <2>1, GoodSame
<1>4. set_hrt_event(k) = r
  <2>1. /\ num_tmevt(k) = num_tmevt(m) /\ top_evttim(k) = top_evttim(m) /\ k.current_evttim = m.current_evttim
        /\ EVTTIM_LE(k, top_evttim(k), k.current_evttim) = EVTTIM_LE(m, top_evttim(m), m.current_evttim)
    BY <1>1 DEF num_tmevt, top_evttim, time, EVTTIM_LE, EVTTIM_ADVANCE, TmType, TmFields
  <2>2. \A x : /\ set_event(k, x) = [set_event(m, x) EXCEPT !.in_signal_time = FALSE]
               /\ clear_event(k) = [clear_event(m) EXCEPT !.in_signal_time = FALSE]
               /\ raise_event(k) = [raise_event(m) EXCEPT !.in_signal_time = FALSE]
    BY <1>1 DEF set_event, clear_event, raise_event, TmType, TmFields
  <2> HIDE DEF k
  <2> QED BY <2>1, <2>2 DEF set_hrt_event
<1>5. hrtcnt_advance(m) <= n /\ n \in 0 .. MaxLate /\ hrtcnt_advance(m) \in Nat
  BY <1>1, ElapsedType, Constants DEF Sound, Timer, Base
<1>6. Base(k, 0)
  <2>1. ASSUME NEW e \in Registered(m) PROVE Margin + hrtcnt_advance(m) <= Adv(m, e) + 0 + LateBy
    <3>1. m.heap[0] \in Registered(m) /\ Adv(m, m.heap[0]) <= Adv(m, e)
      BY <1>1, TopNode, TopEarliest DEF TmGood
    <3>2. Adv(m, e) \in 0 .. W - 1 /\ Adv(m, m.heap[0]) \in 0 .. W - 1
      BY <1>1, <3>1, AdvType DEF TmGood
    <3>3. ~ (Adv(m, m.heap[0]) <= Margin)
      BY DEF NothingDue
    <3> QED BY <3>1, <3>2, <3>3, <1>5, Constants
  <2> HIDE DEF k
  <2> QED BY <2>1, <1>1, <1>2, <1>3, Constants DEF Base
<1> HIDE DEF k
<1>7. Set(r, k, 0)
  <2>1. hrtcnt_advance(k) <= MaxLate
    BY <1>2, <1>5, Constants
  <2>2. Set(set_hrt_event(k), k, 0)
    BY <2>1, <1>2, <1>3, <1>6, SetSound
  <2> QED BY <2>2, <1>4
<1>8. r.in_signal_time = FALSE
  BY <1>2, <1>7 DEF Set, SameBut, TmType, TmFields
<1> QED BY <1>2, <1>3, <1>7, <1>8 DEF Set, SameBut, TimerFields

(* The event called leaves the heap; the bounds remain.                    *)
LEMMA CallSound ==
  ASSUME NEW m, NEW n, Sound(m, n), m.in_signal_time, Registered(m) # {},
         NEW p, p = tmevtb_delete_top(m)
  PROVE  m.heap[0] \in Registered(m) /\ Removed(p, m, m.heap[0]) /\ Sound(p, n)
<1>1. m.heap[0] \in Registered(m) /\ Deleted(p, m, m.heap[0])
  BY DeleteTopGood, SMTT(60) DEF Sound, TmGood
<1> QED BY <1>1, RemoveSound

(* The manager after the callback of the cyclic notification at the root:  *)
(* its event has left the heap and is back in it a period later.           *)
Renewed(m) ==
  tmevtb_insert(tmevtb_delete_top(m), m.heap[0], (m.evttim[m.heap[0]] + cyctim[m.heap[0]]) % W)

(* A cyclic notification's event returns to the heap one period later than *)
(* it was registered for, and is not too far ahead.                        *)
LEMMA AgainSound ==
  ASSUME NEW m, NEW n, Sound(m, n), m.in_signal_time, Registered(m) # {},
         Adv(m, m.heap[0]) <= Margin, m.heap[0] \in Cyclic,
         NEW r, r = Renewed(m)
  PROVE  /\ Sound(r, n) /\ SameBut(r, m, Heap) /\ Registered(r) = Registered(m)
         /\ \A f \in Registered(m) : Adv(r, f) = Adv(m, f) + IF f = m.heap[0] THEN cyctim[f] ELSE 0
<1> DEFINE e == m.heap[0]
           p == tmevtb_delete_top(m)
           t == m.evttim[e]
           P == cyctim[e]
           T == (t + P) % W
           b == m.boundary_evttim
<1>0. r = tmevtb_insert(p, e, T)
  BY Zenon DEF Renewed
<1>1. TmGood(m) /\ Base(m, n) /\ e \in Registered(m) /\ Removed(p, m, e) /\ Sound(p, n) /\ TmGood(p)
  BY CallSound DEF Sound, TmGood
<1>2. P \in Nat \ {0} /\ P + Margin + 2 * TMAX_ADJTIM <= W /\ e \in TMEVTB
  BY NotificationAssumption, LatenessAssumption DEF Margin
<1>3. t \in Int /\ b \in Int
  <2>1. t \in 0 .. W - 1 /\ b \in 0 .. W - 1
    BY <1>1 DEF TmGood, HeapGood, Filled, EVTTIM
  <2> QED BY <2>1, Constants
<1>4. Adv(m, e) \in 0 .. W - 1 /\ Adv(m, e) <= Margin
  BY <1>1, AdvType DEF TmGood
<1> HIDE DEF e, p, t, P, b
<1>5. T \in 0 .. W - 1 /\ T \in Int
  <2>1. t + P \in Int
    BY <1>2, <1>3
  <2>2. T \in 0 .. W - 1
    BY <2>1, Constants, Remainder
  <2> HIDE DEF T
  <2> QED BY <2>2, Constants
<1>6. (T - b) % W = Adv(m, e) + P
  <2>1. (((t + P) % W) + (- b)) % W = ((t + P) + (- b)) % W
    <3>1. t + P \in Int /\ - b \in Int
      BY <1>2, <1>3
    <3> QED BY <3>1, Constants, RemainderSum
  <2>2. (((t + (- b)) % W) + P) % W = ((t + (- b)) + P) % W
    <3>1. t + (- b) \in Int /\ P \in Int
      BY <1>2, <1>3
    <3> QED BY <3>1, Constants, RemainderSum
  <2>3. (t + P) + (- b) = (t + (- b)) + P /\ t + (- b) = t - b /\ T + (- b) = T - b
    BY <1>2, <1>3, <1>5
  <2>4. Adv(m, e) = (t - b) % W
    BY DEF Adv, EVTTIM_ADVANCE, t, b
  <2>5. (T - b) % W = (Adv(m, e) + P) % W
    BY <2>1, <2>2, <2>3, <2>4
  <2>6. Adv(m, e) + P \in 0 .. W - 1 /\ Adv(m, e) + P \in Int
    BY <1>2, <1>4, Constants, SMTT(60)
  <2> HIDE DEF T
  <2> QED BY <2>5, <2>6, Constants, RemainderNear
<1> HIDE DEF T
<1>7. p.boundary_evttim = b /\ e \notin Registered(p) /\ Registered(p) = Registered(m) \ {e} /\ T \in EVTTIM
  BY <1>1, <1>5 DEF Removed, SameBut, Heap, TmGood, TmType, TmFields, b, EVTTIM
<1>8. /\ TmGood(r) /\ SameBut(r, p, Heap) /\ Registered(r) = Registered(p) \cup {e}
      /\ Adv(r, e) = EVTTIM_ADVANCE(p, T) /\ \A f \in Registered(p) : Adv(r, f) = Adv(p, f)
  BY <1>0, <1>1, <1>2, <1>7, InsertTm, SMTT(60)
<1>9. Registered(r) = Registered(m) /\ Adv(r, e) = Adv(m, e) + P
      /\ \A f \in Registered(m) \ {e} : Adv(r, f) = Adv(m, f)
  <2>1. EVTTIM_ADVANCE(p, T) = Adv(m, e) + P
    BY <1>6, <1>7 DEF EVTTIM_ADVANCE
  <2> QED BY <2>1, <1>1, <1>7, <1>8 DEF Removed
<1>10. SameBut(r, m, Heap)
  BY <1>1, <1>8, Zenon DEF Removed, SameBut
<1>11. /\ hrtcnt_advance(r) = hrtcnt_advance(m) /\ lag(r) = lag(m) /\ r.in_signal_time = m.in_signal_time
       /\ r.hrt_left = m.hrt_left /\ r.hrt_request = m.hrt_request
  BY <1>1, <1>10, Zenon DEF SameBut, Heap, TmGood, TmType, TmFields, hrtcnt_advance, lag
<1>12. Base(r, n)
  <2>1. lag(m) \in 0 .. W - 1 /\ n \in 0 .. MaxLate /\ hrtcnt_advance(m) \in Nat
    BY <1>1, LagType, ElapsedType, Constants DEF TmGood, Base
  <2>2. Margin + hrtcnt_advance(m) <= Adv(m, e) + n + LateBy
    BY <1>1 DEF Base
  <2>3. Adv(r, e) <= W - 2 * TMAX_ADJTIM + lag(m) /\ Margin + hrtcnt_advance(m) <= Adv(r, e) + n + LateBy
    BY <2>1, <2>2, <1>2, <1>4, <1>9, Constants
  <2> QED BY <2>3, <1>1, <1>9, <1>11, Zenon DEF Base
<1>13. Timer(r, n)
  BY <1>11, Zenon DEF Sound, Timer
<1>14. \A f \in Registered(m) : Adv(m, f) \in Int
  BY <1>1, AdvType DEF TmGood
<1>15. \A f \in Registered(m) : Adv(r, f) = Adv(m, f) + IF f = e THEN cyctim[f] ELSE 0
  BY <1>9, <1>14, SMTT(60) DEF P
<1>16. Sound(r, n)
  BY <1>8, <1>12, <1>13 DEF Sound
<1> QED BY <1>9, <1>10, <1>15, <1>16 DEF e

-----------------------------------------------------------------------------
(* The registration of the notifications that start with the kernel.       *)
AddStep(f, S) ==
  IF S = {} THEN NoEvents
  ELSE LET e == CHOOSE x \in S : TRUE IN tmevtb_insert(f[S \ {e}], e, cycphs[e] % W)

(* The sets of at most n notifications.                                    *)
Small(n) == {S \in SUBSET TA_STA : Cardinality(S) <= n}

(* Induction over the number of notifications started.                     *)
LEMMA SmallSets ==
  ASSUME NEW n \in Nat
  PROVE  /\ \A S \in Small(n + 1) : S # {} => S \ {CHOOSE x \in S : TRUE} \in Small(n)
         /\ \A S \in SUBSET TA_STA : IsFiniteSet(S) /\ Cardinality(S) \in Nat
         /\ Small(0) = {{}} /\ Small(n) \subseteq Small(n + 1)
         /\ Small(Cardinality(TA_STA)) = SUBSET TA_STA
<1>1. IsFiniteSet(TA_STA)
  BY TimeHeapAssumption, NotificationAssumption, FS_Subset
<1>2. \A S \in SUBSET TA_STA : IsFiniteSet(S) /\ Cardinality(S) \in Nat /\ Cardinality(S) <= Cardinality(TA_STA)
                               /\ (Cardinality(S) = 0 <=> S = {})
  BY <1>1, FS_Subset, FS_CardinalityType, FS_EmptySet
<1>3. ASSUME NEW S \in Small(n + 1), S # {}
      PROVE  S \ {CHOOSE x \in S : TRUE} \in Small(n)
  <2> DEFINE e == CHOOSE x \in S : TRUE
  <2>1. e \in S
    BY <1>3
  <2>2. S \in SUBSET TA_STA /\ Cardinality(S) <= n + 1
    BY DEF Small
  <2>3. Cardinality(S \ {e}) = Cardinality(S) - 1
    BY <2>1, <2>2, <1>2, FS_RemoveElement
  <2> HIDE DEF e
  <2> QED BY <2>2, <2>3, <1>2 DEF Small, e
<1>4. Small(0) = {{}}
  <2>1. {} \in SUBSET TA_STA /\ Cardinality({}) = 0
    BY <1>2
  <2> QED BY <2>1, <1>2 DEF Small
<1>5. Small(n) \subseteq Small(n + 1)
  BY <1>2 DEF Small
<1>6. Small(Cardinality(TA_STA)) = SUBSET TA_STA
  BY <1>2 DEF Small
<1> QED BY <1>2, <1>3, <1>4, <1>5, <1>6

(* There is a function that satisfies the recursion of initialize_cyclic.  *)
LEMMA AddExists == \E f : f = [S \in SUBSET TA_STA |-> AddStep(f, S)]
<1> DEFINE N == Cardinality(TA_STA)
           I == {n \in Nat : \E f : f = [S \in Small(n) |-> AddStep(f, S)]}
<1>1. N \in Nat
  BY SmallSets
<1>2. 0 \in I
  <2> DEFINE f == [S \in {{}} |-> NoEvents]
  <2>1. f = [S \in Small(0) |-> AddStep(f, S)]
    BY SmallSets DEF AddStep
  <2> HIDE DEF f
  <2> QED BY <2>1
<1>3. ASSUME NEW n \in 0 .. N - 1, n \in I PROVE n + 1 \in I
  <2>1. PICK f : f = [S \in Small(n) |-> AddStep(f, S)]
    BY <1>3
  <2>2. n \in Nat
    OBVIOUS
  <2> DEFINE g == [S \in Small(n + 1) |-> AddStep(f, S)]
  <2>3. \A S \in Small(n) : g[S] = f[S]
    BY <2>1, <2>2, SmallSets
  <2>4. \A S \in Small(n + 1) : AddStep(g, S) = AddStep(f, S)
    <3> TAKE S \in Small(n + 1)
    <3> HIDE DEF g
    <3>1. CASE S = {}
      BY <3>1 DEF AddStep
    <3>2. CASE S # {}
      <4> DEFINE e == CHOOSE x \in S : TRUE
      <4>1. g[S \ {e}] = f[S \ {e}]
        BY <2>2, <2>3, <3>2, SmallSets
      <4> QED BY <4>1, <3>2 DEF AddStep
    <3> QED BY <3>1, <3>2
  <2>5. g = [S \in Small(n + 1) |-> AddStep(g, S)]
    BY <2>4
  <2> HIDE DEF g
  <2> QED BY <2>5, <2>2
<1>4. N \in I
  <2> HIDE DEF I, N
  <2> QED BY <1>1, <1>2, <1>3, SetInduction
<1>5. Small(N) = SUBSET TA_STA
  BY <1>1, SmallSets
<1> HIDE DEF N
<1> QED BY ONLY <1>4, <1>5 DEF I

(* What has been registered then, before the timer is set.                 *)
Started0(r, S) ==
  /\ TmGood(r) /\ Registered(r) = S /\ SameBut(r, NoEvents, Heap)
  /\ \A e \in S : Adv(r, e) = Margin + cycphs[e]

(* Before the first registration.                                          *)
LEMMA NoEventsGood == Started0(NoEvents, {}) /\ TmType(NoEvents)
<1>1. boundary(0) \in EVTTIM /\ 0 \in EVTTIM
  <2>1. 0 \in EVTTIM
    BY Constants DEF EVTTIM
  <2> QED BY <2>1, BoundaryType
<1>2. TmType(NoEvents)
  <2>1. 0 \in SYSTIM
    BY TimeEventAssumption DEF SYSTIM
  <2> QED BY <1>1, <2>1, NotificationAssumption DEF TmType, TmFields, NoEvents
<1>3. Registered(NoEvents) = {} /\ Cardinality(Registered(NoEvents)) = 0
  <2>1. Registered(NoEvents) = {}
    BY DEF Registered, NoEvents
  <2> QED BY <2>1, FS_EmptySet
<1>4. Filled(NoEvents)
  <2>1. NoEvents.heap \in [{} -> {}] /\ NoEvents.index \in [{} -> {}] /\ NoEvents.evttim \in [{} -> {}]
        /\ 0 .. 0 - 1 = {} /\ NoEvents.boundary_evttim = boundary(0)
    BY DEF NoEvents
  <2>2. 0 \in 0 .. NumNodes
    BY NumNodesType
  <2> QED BY <2>1, <2>2, <1>1, <1>3 DEF Filled
<1>5. Ordered(NoEvents)
  BY DEF Ordered, NoEvents
<1>6. HasHeap(NoEvents)
  BY DEF HasHeap, NoEvents
<1>7. NoEvents.boundary_evttim = boundary(NoEvents.current_evttim)
  BY DEF NoEvents
<1>8. SameBut(NoEvents, NoEvents, Heap)
  BY DEF SameBut, NoEvents
<1> QED BY <1>2, <1>3, <1>4, <1>5, <1>6, <1>7, <1>8 DEF Started0, TmGood, HeapGood

(* One registration more.                                                  *)
LEMMA AddStarted ==
  ASSUME NEW S \in SUBSET TA_STA, NEW e \in S, NEW q, Started0(q, S \ {e}),
         NEW r, r = tmevtb_insert(q, e, cycphs[e] % W)
  PROVE  Started0(r, S)
<1> DEFINE t == cycphs[e]
<1>1. e \in Cyclic /\ e \in TMEVTB /\ t \in Nat /\ t + Margin + 2 * TMAX_ADJTIM <= W
  <2>1. e \in Cyclic /\ t \in Nat /\ TSTEP_HRTCNT \in Nat
    BY NotificationAssumption, TimeEventAssumption
  <2>2. t + TSTEP_HRTCNT + BOUNDARY_MARGIN + 2 * TMAX_ADJTIM <= W
    BY <2>1, LatenessAssumption
  <2> QED BY <2>1, <2>2, NotificationAssumption, Constants DEF Margin
<1> HIDE DEF t
<1>2. t \in 0 .. W - 1 /\ t % W = t /\ t \in EVTTIM
  <2>1. t \in 0 .. W - 1 /\ t \in Int
    BY <1>1, Constants
  <2> QED BY <2>1, Constants, RemainderNear DEF EVTTIM
<1>3. TmGood(q) /\ e \notin Registered(q) /\ q.current_evttim = 0 /\ q.boundary_evttim = boundary(0)
  BY DEF Started0, SameBut, Heap, NoEvents, TmGood
<1>4. /\ TmGood(r) /\ SameBut(r, q, Heap) /\ Registered(r) = Registered(q) \cup {e}
      /\ Adv(r, e) = EVTTIM_ADVANCE(q, t) /\ \A f \in Registered(q) : Adv(r, f) = Adv(q, f)
  <2>1. r = tmevtb_insert(q, e, t)
    BY <1>2 DEF t
  <2> QED BY <2>1, <1>1, <1>2, <1>3, InsertTm
<1>5. EVTTIM_ADVANCE(q, t) = Margin + t
  <2>1. EVTTIM_ADVANCE(q, t) = (t - 0 + Margin) % W
    BY <1>1, <1>3, AdvanceFrom DEF Margin
  <2>2. t - 0 + Margin = Margin + t /\ Margin + t \in 0 .. W - 1 /\ Margin + t \in Int
    BY <1>1, Constants
  <2> QED BY <2>1, <2>2, Constants, RemainderNear
<1>6. SameBut(r, NoEvents, Heap)
  BY <1>4 DEF Started0, SameBut
<1> QED BY <1>4, <1>5, <1>6 DEF Started0, t

(* initialize_cyclic registers the notifications started with the kernel,  *)
(* each at its phase.                                                      *)
LEMMA InitialEvents == Started0(initialize_cyclic, TA_STA)
<1> DEFINE N == Cardinality(TA_STA)
           add == CHOOSE f : f = [S \in SUBSET TA_STA |-> AddStep(f, S)]
           I == {n \in Nat : \A S \in Small(n) : Started0(add[S], S)}
<1>1. add = [S \in SUBSET TA_STA |-> AddStep(add, S)]
  BY AddExists
<1>2. initialize_cyclic = add[TA_STA]
  BY DEF initialize_cyclic, AddStep
<1> HIDE DEF add
<1>3. N \in Nat
  BY SmallSets
<1>4. 0 \in I
  <2>1. add[{}] = NoEvents
    BY <1>1 DEF AddStep
  <2> QED BY <2>1, SmallSets, NoEventsGood, ZenonT(60)
<1>5. ASSUME NEW n \in 0 .. N - 1, n \in I PROVE n + 1 \in I
  <2>1. n \in Nat /\ n + 1 \in Nat
    OBVIOUS
  <2>2. ASSUME NEW S \in Small(n + 1) PROVE Started0(add[S], S)
    <3>1. CASE S = {}
      BY <3>1, <1>1, NoEventsGood DEF AddStep
    <3>2. CASE S # {}
      <4> DEFINE e == CHOOSE x \in S : TRUE
      <4>1. e \in S /\ S \in SUBSET TA_STA
        BY <3>2 DEF Small
      <4>2. S \ {e} \in Small(n)
        BY <2>1, <3>2, SmallSets
      <4>3. Started0(add[S \ {e}], S \ {e})
        BY <4>2, <1>5
      <4>4. add[S] = tmevtb_insert(add[S \ {e}], e, cycphs[e] % W)
        BY <4>1, <3>2, <1>1 DEF AddStep
      <4> HIDE DEF e
      <4> QED BY <4>1, <4>3, <4>4, AddStarted
    <3> QED BY <3>1, <3>2
  <2> QED BY <2>1, <2>2
<1>6. N \in I
  <2> HIDE DEF I, N
  <2> QED BY <1>3, <1>4, <1>5, SetInduction
<1>7. TA_STA \in Small(N)
  BY <1>3, SmallSets
<1> QED BY <1>2, <1>6, <1>7

-----------------------------------------------------------------------------
(* The notifications that run and the tasks that wait.                     *)
Active == {c \in Cyclic : cycsta[c]} \cup {a \in Alarm : almsta[a]} \cup waiting

(* The state of signal_time.                                               *)
SigType == sig \in [at : {"idle", "loop", "window"}, callflag : BOOLEAN, called : TMEVTB \cup {Null}]

(* The inductive invariant.                                                *)
NoteInv ==
  /\ Sound(tm, late)
  /\ cycsta \in [Cyclic -> BOOLEAN] /\ almsta \in [Alarm -> BOOLEAN] /\ waiting \subseteq Timeout
  /\ SigType /\ tm.in_signal_time = (sig.at # "idle")
  /\ Registered(tm) = Active

(* The inductive invariant holds at the beginning.                         *)
LEMMA InvInit == NoteInit => NoteInv
<1> SUFFICES ASSUME NoteInit PROVE NoteInv
  OBVIOUS
<1> DEFINE m == initialize_cyclic
<1>1. TmGood(m) /\ Registered(m) = TA_STA /\ SameBut(m, NoEvents, Heap)
      /\ \A e \in TA_STA : Adv(m, e) = Margin + cycphs[e]
  BY InitialEvents DEF Started0
<1> HIDE DEF m
<1>2. /\ m.monotonic_evttim = 0 /\ m.current_evttim = 0 /\ m.in_signal_time = FALSE /\ m.hrt_request = FALSE
      /\ m.hrt = m.current_hrtcnt
  BY <1>1 DEF SameBut, Heap, NoEvents
<1>3. hrtcnt_advance(m) = 0 /\ lag(m) = 0
  <2>1. 0 - 0 = 0 /\ 0 % W = 0
    BY Constants, RemainderNear
  <2> QED BY <2>1, <1>1, <1>2, ElapsedType DEF TmGood, lag
<1>4. \A e \in TA_STA : cycphs[e] \in Nat /\ cycphs[e] + Margin + 2 * TMAX_ADJTIM <= W
  <2> TAKE e \in TA_STA
  <2>1. e \in Cyclic /\ cycphs[e] \in Nat /\ TSTEP_HRTCNT \in Nat
    BY NotificationAssumption, TimeEventAssumption
  <2>2. cycphs[e] + TSTEP_HRTCNT + BOUNDARY_MARGIN + 2 * TMAX_ADJTIM <= W
    BY <2>1, LatenessAssumption
  <2> QED BY <2>1, <2>2, Constants DEF Margin
<1>5. Base(m, 0)
  BY <1>1, <1>2, <1>3, <1>4, Constants DEF Base
<1>6. tm = set_hrt_event(m)
  BY DEF NoteInit, m
<1>7. Set(tm, m, 0)
  BY <1>1, <1>2, <1>3, <1>5, <1>6, SetSound, Constants
<1>8. Sound(tm, 0) /\ Registered(tm) = TA_STA /\ tm.in_signal_time = FALSE
  BY <1>1, <1>2, <1>7 DEF Set, SameBut, TmGood, TmType, TmFields
<1>9. Active = TA_STA /\ TA_STA \subseteq Cyclic
  BY NotificationAssumption DEF NoteInit, Active
<1>10. cycsta \in [Cyclic -> BOOLEAN] /\ almsta \in [Alarm -> BOOLEAN] /\ waiting \subseteq Timeout
       /\ SigType /\ sig.at = "idle" /\ late = 0
  BY DEF NoteInit, SigType
<1> QED BY <1>8, <1>9, <1>10 DEF NoteInv

(* What an action of a task or a handler leaves behind.                    *)
LEMMA Kept ==
  ASSUME NoteInv, Keep, Sound(tm', late), tm'.in_signal_time = tm.in_signal_time,
         cycsta' \in [Cyclic -> BOOLEAN], almsta' \in [Alarm -> BOOLEAN], waiting' \subseteq Timeout,
         Registered(tm') = Active'
  PROVE  NoteInv'
BY DEF NoteInv, Keep, SigType

(* Whether an event is registered, as its owner knows it.                  *)
LEMMA Blocks ==
  ASSUME NoteInv
  PROVE  /\ \A c \in Cyclic : cycsta[c] \in BOOLEAN /\ (c \in Registered(tm) <=> cycsta[c]) /\ c \in TMEVTB
         /\ \A a \in Alarm : almsta[a] \in BOOLEAN /\ (a \in Registered(tm) <=> almsta[a]) /\ a \in TMEVTB
         /\ \A w \in Timeout : (w \in Registered(tm) <=> w \in waiting) /\ w \in TMEVTB
BY NotificationAssumption DEF NoteInv, Active

(* A block is registered, perhaps again.                                   *)
LEMMA Registering ==
  ASSUME NEW m, NEW n, Sound(m, n), NEW e \in TMEVTB \ Registered(m), NEW t \in Nat,
         t + TSTEP_HRTCNT + BOUNDARY_MARGIN + 2 * TMAX_ADJTIM <= W,
         NEW r, r = tmevtb_enqueue_reltim(m, e, t)
  PROVE  Sound(r, n) /\ Registered(r) = Registered(m) \cup {e} /\ r.in_signal_time = m.in_signal_time
<1> DEFINE u == update_current_evttim(m)
<1>1. Updated(u, m, n) /\ Rest(r, u, n) /\ Registered(r) = Registered(m) \cup {e}
  <2> HIDE DEF u
  <2> QED BY EnqueueSound DEF u
<1> HIDE DEF u
<1>2. u.in_signal_time = m.in_signal_time /\ TmType(u)
  BY <1>1 DEF Updated, Shifted, SameBut, Calendar, TmGood, TmType, TmFields, Sound
<1>3. r.in_signal_time = u.in_signal_time
  BY <1>1, <1>2 DEF Rest, SameBut, Heap, TimerFields, TmType, TmFields
<1> QED BY <1>1, <1>2, <1>3 DEF Rest

(* Cancellation takes one event out of the registered ones.                *)
LEMMA Withdrawing ==
  ASSUME NEW m, NEW n, Sound(m, n), NEW e \in Registered(m), NEW r, r = tmevtb_dequeue(m, e)
  PROVE  Sound(r, n) /\ Registered(r) = Registered(m) \ {e} /\ r.in_signal_time = m.in_signal_time
<1>1. PICK q, u : /\ Removed(q, m, e) /\ Sound(q, n) /\ (u = q \/ Updated(u, q, n))
                  /\ Rest(r, u, n) /\ Registered(r) = Registered(q)
  BY DequeueSound
<1>2. q.in_signal_time = m.in_signal_time /\ TmType(q) /\ Registered(q) = Registered(m) \ {e}
  BY <1>1 DEF Removed, SameBut, Heap, TmGood, TmType, TmFields, Sound
<1>3. u.in_signal_time = q.in_signal_time /\ TmType(u)
  BY <1>1, <1>2 DEF Updated, Shifted, SameBut, Calendar, TmGood, TmType, TmFields
<1>4. r.in_signal_time = u.in_signal_time
  BY <1>1, <1>3 DEF Rest, SameBut, Heap, TimerFields, TmType, TmFields
<1> QED BY <1>1, <1>2, <1>3, <1>4 DEF Rest

(* A restart leaves its event registered, whether it was before or not.    *)
LEMMA Restarting ==
  ASSUME NoteInv, NEW e \in TMEVTB, NEW on \in BOOLEAN, on <=> e \in Registered(tm),
         NEW t \in Nat, t + TSTEP_HRTCNT + BOUNDARY_MARGIN + 2 * TMAX_ADJTIM <= W,
         NEW r, r = restarted(on, e, t)
  PROVE  Sound(r, late) /\ Registered(r) = Registered(tm) \cup {e} /\ r.in_signal_time = tm.in_signal_time
<1>1. CASE on
  <2> DEFINE q == tmevtb_dequeue(tm, e)
  <2>1. Sound(q, late) /\ Registered(q) = Registered(tm) \ {e} /\ q.in_signal_time = tm.in_signal_time
    BY <1>1, Withdrawing DEF NoteInv
  <2>2. r = tmevtb_enqueue_reltim(q, e, t)
    BY <1>1 DEF restarted
  <2> HIDE DEF q
  <2>3. e \in TMEVTB \ Registered(q)
    BY <2>1
  <2> QED BY <2>1, <2>2, <2>3, Registering
<1>2. CASE ~ on
  BY <1>2, Registering DEF NoteInv, restarted
<1> QED BY <1>1, <1>2

(* The times given to calls leave the room the bounds need.                *)
LEMMA TimesFit ==
  /\ \A c \in Cyclic : cycphs[c] \in Nat /\ cycphs[c] + TSTEP_HRTCNT + BOUNDARY_MARGIN + 2 * TMAX_ADJTIM <= W
  /\ \A t \in RELTIM : t \in Nat /\ t + TSTEP_HRTCNT + BOUNDARY_MARGIN + 2 * TMAX_ADJTIM <= W
BY NotificationAssumption, LatenessAssumption

(* Reading the timer is no step of signal_time.                            *)
LEMMA UpdatedFlag ==
  ASSUME NEW m, NEW n, NEW u, TmGood(m), Updated(u, m, n)
  PROVE  u.in_signal_time = m.in_signal_time /\ Registered(u) = Registered(m)
BY DEF Updated, Shifted, SameBut, Calendar, TmGood, TmType, TmFields

(* The calls of tasks and handlers keep the inductive invariant.           *)
LEMMA InvTimeCall == NoteInv /\ TimeCall => NoteInv'
<1> SUFFICES ASSUME NoteInv, TimeCall PROVE NoteInv'
  OBVIOUS
<1>0. Sound(tm, late) /\ Registered(tm) = Active
      /\ cycsta \in [Cyclic -> BOOLEAN] /\ almsta \in [Alarm -> BOOLEAN] /\ waiting \subseteq Timeout
  BY DEF NoteInv
<1>1. ASSUME NEW c \in Cyclic, sta_cyc(c) PROVE NoteInv'
  <2>1. Sound(tm', late) /\ Registered(tm') = Registered(tm) \cup {c} /\ tm'.in_signal_time = tm.in_signal_time
    BY <1>1, Blocks, TimesFit, Restarting DEF sta_cyc
  <2>2. Active' = Active \cup {c}
    BY <1>0, <1>1 DEF sta_cyc, Active
  <2> QED BY <1>0, <1>1, <2>1, <2>2, Kept DEF sta_cyc
<1>2. ASSUME NEW c \in Cyclic, stp_cyc(c) PROVE NoteInv'
  <2>1. Sound(tm', late) /\ Registered(tm') = Registered(tm) \ {c} /\ tm'.in_signal_time = tm.in_signal_time
    BY <1>0, <1>2, Blocks, Withdrawing DEF stp_cyc
  <2>2. Active' = Active \ {c}
    BY <1>0, <1>2, NotificationAssumption DEF stp_cyc, Active
  <2> QED BY <1>0, <1>2, <2>1, <2>2, Kept DEF stp_cyc
<1>3. ASSUME NEW a \in Alarm, NEW t \in RELTIM, sta_alm(a, t) PROVE NoteInv'
  <2>1. Sound(tm', late) /\ Registered(tm') = Registered(tm) \cup {a} /\ tm'.in_signal_time = tm.in_signal_time
    BY <1>3, Blocks, TimesFit, Restarting DEF sta_alm
  <2>2. Active' = Active \cup {a}
    BY <1>0, <1>3 DEF sta_alm, Active
  <2> QED BY <1>0, <1>3, <2>1, <2>2, Kept DEF sta_alm
<1>4. ASSUME NEW a \in Alarm, stp_alm(a) PROVE NoteInv'
  <2>1. Sound(tm', late) /\ Registered(tm') = Registered(tm) \ {a} /\ tm'.in_signal_time = tm.in_signal_time
    BY <1>0, <1>4, Blocks, Withdrawing DEF stp_alm
  <2>2. Active' = Active \ {a}
    BY <1>0, <1>4, NotificationAssumption DEF stp_alm, Active
  <2> QED BY <1>0, <1>4, <2>1, <2>2, Kept DEF stp_alm
<1>5. ASSUME NEW w \in Timeout, NEW t \in RELTIM, make_wait_tmout(w, t) PROVE NoteInv'
  <2>1. w \in TMEVTB \ Registered(tm)
    BY <1>5, Blocks DEF make_wait_tmout
  <2>2. Sound(tm', late) /\ Registered(tm') = Registered(tm) \cup {w} /\ tm'.in_signal_time = tm.in_signal_time
    BY <1>0, <1>5, <2>1, TimesFit, Registering DEF make_wait_tmout
  <2>3. Active' = Active \cup {w}
    BY <1>0, <1>5 DEF make_wait_tmout, Active
  <2> QED BY <1>0, <1>5, <2>2, <2>3, Kept DEF make_wait_tmout
<1>6. ASSUME NEW w \in Timeout, wait_dequeue_tmevtb(w) PROVE NoteInv'
  <2>1. Sound(tm', late) /\ Registered(tm') = Registered(tm) \ {w} /\ tm'.in_signal_time = tm.in_signal_time
    BY <1>0, <1>6, Blocks, Withdrawing DEF wait_dequeue_tmevtb
  <2>2. Active' = Active \ {w}
    BY <1>0, <1>6, NotificationAssumption DEF wait_dequeue_tmevtb, Active
  <2> QED BY <1>0, <1>6, <2>1, <2>2, Kept DEF wait_dequeue_tmevtb
<1>7. CASE get_tim
  <2>1. Sound(tm', late) /\ Registered(tm') = Registered(tm) /\ tm'.in_signal_time = tm.in_signal_time
    BY <1>0, <1>7, UpdateSound, UpdatedFlag DEF get_tim, Sound
  <2>2. Active' = Active
    BY <1>7 DEF get_tim, OnlyTime, Active
  <2> QED BY <1>0, <1>7, <2>1, <2>2, Kept DEF get_tim, OnlyTime
<1>8. ASSUME NEW s \in SetTim, set(s) PROVE NoteInv'
  <2>1. s \in SYSTIM /\ tm' = set_tim(tm, s)
    BY <1>8, NotificationAssumption DEF set
  <2> DEFINE u == update_current_evttim(tm)
  <2>2. /\ Updated(u, tm, late) /\ Sound(tm', late) /\ SameBut(tm', u, {"systim_offset"})
        /\ Registered(tm') = Registered(u)
    <3> HIDE DEF u
    <3> QED BY <1>0, <2>1, SetTimeSound DEF u
  <2> HIDE DEF u
  <2>3. u.in_signal_time = tm.in_signal_time /\ Registered(u) = Registered(tm) /\ TmType(u)
    BY <1>0, <2>2, UpdatedFlag DEF Sound, Updated, Shifted, TmGood
  <2>4. tm'.in_signal_time = tm.in_signal_time
    BY <2>2, <2>3 DEF SameBut, TmType, TmFields
  <2>5. Active' = Active
    BY <1>8 DEF set, OnlyTime, Active
  <2> QED BY <1>0, <1>8, <2>2, <2>3, <2>4, <2>5, Kept DEF set, OnlyTime
<1> QED BY <1>1, <1>2, <1>3, <1>4, <1>5, <1>6, <1>7, <1>8 DEF TimeCall

-----------------------------------------------------------------------------
(* Adjustments of the time keep it.                                        *)
LEMMA InvAdjusting == NoteInv /\ Adjusting => NoteInv'
<1> SUFFICES ASSUME NoteInv, NEW d \in - TMAX_ADJTIM .. TMAX_ADJTIM, d # 0, adjust(d) PROVE NoteInv'
  BY DEF Adjusting
<1>0. Sound(tm, late) /\ Registered(tm) = Active
      /\ cycsta \in [Cyclic -> BOOLEAN] /\ almsta \in [Alarm -> BOOLEAN] /\ waiting \subseteq Timeout
  BY DEF NoteInv
<1> DEFINE u == update_current_evttim(tm)
<1>1. Updated(u, tm, late) /\ Sound(tm', late) /\ (tm' = u \/ Adjusted(tm', u, d))
  <2>1. tm' = adj_tim(tm, d)
    BY DEF adjust
  <2> HIDE DEF u
  <2> QED BY <1>0, <2>1, AdjustSound DEF u
<1> HIDE DEF u
<1>2. u.in_signal_time = tm.in_signal_time /\ Registered(u) = Registered(tm) /\ TmType(u)
  BY <1>0, <1>1, UpdatedFlag DEF Sound, Updated, Shifted, TmGood
<1>3. tm'.in_signal_time = tm.in_signal_time /\ Registered(tm') = Registered(tm)
  BY <1>1, <1>2 DEF Adjusted, Calendar, TimerFields, SameBut, TmType, TmFields
<1>4. Active' = Active
  BY DEF adjust, OnlyTime, Active
<1> QED BY <1>0, <1>1, <1>3, <1>4, Kept DEF adjust, OnlyTime

(* signal_time keeps it, at every step.                                    *)
LEMMA InvSignal == NoteInv /\ signal_time => NoteInv'
<1> SUFFICES ASSUME NoteInv, signal_time PROVE NoteInv'
  OBVIOUS
<1>0. /\ Sound(tm, late) /\ Registered(tm) = Active /\ tm.in_signal_time = (sig.at # "idle") /\ SigType
      /\ cycsta \in [Cyclic -> BOOLEAN] /\ almsta \in [Alarm -> BOOLEAN] /\ waiting \subseteq Timeout
      /\ TmGood(tm)
  BY DEF NoteInv, Sound
<1>1. CASE SignalBegins
  <2>1. tm' = update_current_evttim(Begun(tm))
    BY <1>1 DEF SignalBegins, Begun
  <2>2. Sound(tm', late) /\ tm'.in_signal_time = TRUE /\ Registered(tm') = Registered(tm)
    BY <1>0, <2>1, BeginSound
  <2>3. SigType' /\ sig'.at = "loop" /\ Active' = Active
    BY <1>1 DEF SignalBegins, SigType, Active
  <2> QED BY <1>0, <1>1, <2>2, <2>3 DEF NoteInv, SignalBegins
<1>2. CASE SignalCalls
  <2> DEFINE e == tm.heap[0]
  <2>1. sig.at = "loop" /\ Due /\ late' = late
    BY <1>2 DEF SignalCalls
  <2>2. e \in Registered(tm) /\ Adv(tm, e) <= Margin /\ tm.in_signal_time
    BY <1>0, <2>1, DueMeans
  <2> DEFINE p == tmevtb_delete_top(tm)
  <2> HIDE DEF p, e
  <2>3. Removed(p, tm, e) /\ Sound(p, late)
    BY <1>0, <2>2, CallSound DEF p, e
  <2>4. p.in_signal_time = TRUE /\ Registered(p) = Registered(tm) \ {e}
    BY <1>0, <2>2, <2>3 DEF Removed, SameBut, Heap, TmGood, TmType, TmFields
  <2>5. e \in TMEVTB
    BY <1>0, <2>2 DEF TmGood, HeapGood, Filled
  <2>6. CASE e \in Cyclic /\ callCyclic(e)
    <3>1. tm' = Renewed(tm)
      BY <2>6, Zenon DEF callCyclic, nextEvttim, Renewed, e
    <3>2. Sound(tm', late) /\ SameBut(tm', tm, Heap) /\ Registered(tm') = Registered(tm)
      BY <1>0, <2>2, <2>6, <3>1, AgainSound, SMTT(60) DEF e
    <3>3. tm'.in_signal_time = TRUE
      BY <1>0, <2>2, <3>2 DEF SameBut, Heap, TmGood, TmType, TmFields
    <3>4. SigType' /\ sig'.at = "window" /\ Active' = Active
      BY <2>5, <2>6 DEF callCyclic, called, SigType, Active
    <3> QED BY <1>0, <2>1, <2>6, <3>2, <3>3, <3>4 DEF NoteInv, callCyclic
  <2>7. CASE e \in Alarm /\ callAlarm(e)
    <3>1. tm' = p /\ Active' = Active \ {e} /\ almsta' \in [Alarm -> BOOLEAN]
      BY <1>0, <2>7, NotificationAssumption DEF callAlarm, p, Active
    <3>2. SigType' /\ sig'.at = "window"
      BY <2>5, <2>7 DEF callAlarm, called, SigType
    <3> QED BY <1>0, <2>1, <2>3, <2>4, <2>7, <3>1, <3>2 DEF NoteInv, callAlarm
  <2>8. CASE e \in Timeout /\ wait_tmout(e)
    <3>1. tm' = p /\ Active' = Active \ {e} /\ waiting' \subseteq Timeout
      BY <1>0, <2>8, NotificationAssumption DEF wait_tmout, p, Active
    <3>2. SigType' /\ sig'.at = "window"
      BY <2>5, <2>8 DEF wait_tmout, called, SigType
    <3> QED BY <1>0, <2>1, <2>3, <2>4, <2>8, <3>1, <3>2 DEF NoteInv, wait_tmout
  <2> QED BY <1>2, <2>6, <2>7, <2>8 DEF SignalCalls, e
<1>3. CASE HandlerReturns
  <2>1. SigType' /\ sig'.at # "idle" /\ sig.at # "idle" /\ Active' = Active
    BY <1>0, <1>3 DEF HandlerReturns, SigType, Active
  <2> QED BY <1>0, <1>3, <2>1 DEF NoteInv, HandlerReturns
<1>4. CASE SignalLooksAgain
  <2>1. Sound(tm', late) /\ Updated(tm', tm, late)
    BY <1>0, <1>4, UpdateSound DEF SignalLooksAgain
  <2>2. tm'.in_signal_time = tm.in_signal_time /\ Registered(tm') = Registered(tm)
    BY <1>0, <2>1, UpdatedFlag
  <2>3. SigType' /\ sig'.at = sig.at /\ Active' = Active
    BY <1>0, <1>4 DEF SignalLooksAgain, SigType, Active
  <2> QED BY <1>0, <1>4, <2>1, <2>2, <2>3 DEF NoteInv, SignalLooksAgain
<1>5. CASE SignalEnds
  <2>1. NothingDue(tm) /\ tm.in_signal_time
    BY <1>0, <1>5, DueMeans DEF SignalEnds
  <2>2. Sound(tm', 0) /\ ~ tm'.in_signal_time /\ Registered(tm') = Registered(tm)
    BY <1>0, <1>5, <2>1, EndSound DEF SignalEnds
  <2>3. tm'.in_signal_time \in BOOLEAN
    BY <2>2 DEF Sound, TmGood, TmType
  <2>4. SigType' /\ sig'.at = "idle" /\ Active' = Active /\ late' = 0
    BY <1>0, <1>5 DEF SignalEnds, SigType, Active
  <2> QED BY <1>0, <1>5, <2>2, <2>3, <2>4 DEF NoteInv, SignalEnds
<1> QED BY <1>1, <1>2, <1>3, <1>4, <1>5 DEF signal_time

(* A tick keeps it.                                                        *)
LEMMA InvTick == NoteInv /\ Tick => NoteInv'
<1> SUFFICES ASSUME NoteInv, Tick PROVE NoteInv'
  OBVIOUS
<1>0. Sound(tm, late) /\ Registered(tm) = Active /\ tm.in_signal_time = (sig.at # "idle") /\ TmGood(tm)
  BY DEF NoteInv, Sound
<1>1. InterruptDue <=> tm.hrt_request \/ tm.in_signal_time
  BY <1>0 DEF InterruptDue
<1>2. /\ Sound(tm', late') /\ SameBut(tm', tm, {"hrt", "hrt_left", "hrt_request"})
      /\ Registered(tm') = Registered(tm)
  BY <1>0, <1>1, TickSound DEF Tick
<1>3. tm'.in_signal_time = tm.in_signal_time
  BY <1>0, <1>2 DEF SameBut, TmGood, TmType, TmFields
<1>4. Active' = Active
  BY DEF Tick, Active
<1> QED BY <1>0, <1>2, <1>3, <1>4 DEF NoteInv, Tick, SigType

(* The inductive invariant holds always.                                   *)
THEOREM TimeManaged == NoteSpec => []NoteInv
<1>1. NoteInit => NoteInv
  BY InvInit
<1>2. NoteInv /\ [NoteNext]_noteVars => NoteInv'
  <2> SUFFICES ASSUME NoteInv, [NoteNext]_noteVars PROVE NoteInv'
    OBVIOUS
  <2>1. CASE NoteNext
    BY <2>1, InvTimeCall, InvAdjusting, InvSignal, InvTick DEF NoteNext
  <2>2. CASE UNCHANGED noteVars
    BY <2>2 DEF noteVars, NoteInv, Sound, Base, Timer, TmGood, SigType, Active
  <2> QED BY <2>1, <2>2
<1> QED BY <1>1, <1>2, PTL DEF NoteSpec

(* An event is in the heap exactly while its notification runs or its task *)
(* waits, and the heap is ordered, whatever handlers do while signal_time  *)
(* leaves the CPU unlocked (signal_time, sta_alm, stp_alm,                 *)
(* wait_dequeue_tmevtb).                                                   *)
THEOREM EventsRegistered == NoteSpec => []RegisteredWhileActive
<1>1. NoteInv => RegisteredWhileActive
  BY GoodWellFormed DEF NoteInv, Sound, TmGood, RegisteredWhileActive, Active
<1> QED BY <1>1, TimeManaged, PTL

(* No order of registrations, cancellations and adjustments leaves the     *)
(* first event without an interrupt in time (set_hrt_event where           *)
(* tmevtb_enqueue_reltim, tmevtb_dequeue, adjust_time and signal_time call *)
(* it, and where they do not).                                             *)
THEOREM TimerArmed == NoteSpec => []InterruptArmed
<1>1. NoteInv => InterruptArmed
  <2> SUFFICES ASSUME NoteInv, sig.at = "idle", ~ tm.hrt_request
               PROVE  /\ HRTCNT_BOUND # Null => tm.hrt_left \in 1 .. HRTCNT_BOUND
                      /\ num_tmevt(tm) > 0 => /\ tm.hrt_left > 0
                                              /\ tm.hrt_left <= lefttim(tm.heap[0]) + MaxLate
    BY DEF InterruptArmed
  <2>1. Timer(tm, late) /\ TmGood(tm) /\ TmType(tm) /\ ~ tm.in_signal_time
    BY DEF NoteInv, Sound, TmGood
  <2>2. HRTCNT_BOUND # Null => tm.hrt_left \in 1 .. HRTCNT_BOUND
    BY <2>1 DEF Timer
  <2>3. ASSUME num_tmevt(tm) > 0
        PROVE  tm.hrt_left > 0 /\ tm.hrt_left <= lefttim(tm.heap[0]) + MaxLate
    <3>1. Registered(tm) # {}
      <4>1. num_tmevt(tm) = Cardinality(Registered(tm))
        BY <2>1, GoodWellFormed DEF TmGood
      <4> QED BY <4>1, <2>3, FS_EmptySet
    <3>2. tm.heap[0] \in Registered(tm) /\ Adv(tm, tm.heap[0]) \in 0 .. W - 1
      BY <2>1, <3>1, TopNode, AdvType DEF TmGood
    <3>3. tm.hrt_left > 0 /\ Margin + hrtcnt_advance(tm) + tm.hrt_left <= Adv(tm, tm.heap[0]) + MaxLate
      BY <2>1, <3>2 DEF Timer
    <3>4. lefttim(tm.heap[0]) = Adv(tm, tm.heap[0]) - Margin - hrtcnt_advance(tm)
      BY DEF lefttim, elapsed, Adv, Margin
    <3>5. hrtcnt_advance(tm) \in Int /\ tm.hrt_left \in Int
      BY <2>1, ElapsedType, Constants DEF TmType
    <3> QED BY <3>2, <3>3, <3>4, <3>5, Constants
  <2> QED BY <2>2, <2>3
<1> QED BY <1>1, TimeManaged, PTL

-----------------------------------------------------------------------------
(* What TimerService sees of the time management.                          *)
LeftOf(m) == [e \in Registered(m) |-> Adv(m, e) - Margin - hrtcnt_advance(m)]
(* The system time and its lag, as a reading would show them.              *)
TimeOf(m) == system_time(update_current_evttim(m))
LagOf(m) == lag(update_current_evttim(m))

(* The clocks show the same.                                               *)
SameClock(r, m) == TimeOf(r) = TimeOf(m) /\ LagOf(r) = LagOf(m)

(* A state whose timer has not passed the range of event times since it was*)
(* read.                                                                   *)
Viewable(m, n) == TmGood(m) /\ Base(m, n) /\ hrtcnt_advance(m) < W

(* There is a HRTCNT_BOUND, and the timer, held off for MaxLate after it,  *)
(* has not counted through the range of event times: so wherever HRTCNT has*)
(* 32 bits and a bound.                                                    *)
BoundKept == HRTCNT_BOUND # Null /\ HRTCNT_BOUND + 2 * MaxLate < W

(* With such a bound every state is viewable.                              *)
LEMMA SoundViewable ==
  ASSUME BoundKept, NEW m, NEW n, Sound(m, n)
  PROVE  Viewable(m, n)
<1>1. n \in 0 .. MaxLate /\ hrtcnt_advance(m) \in Nat /\ m.hrt_left \in Nat
      /\ m.in_signal_time \in BOOLEAN /\ m.hrt_request \in BOOLEAN
  BY ElapsedType, Constants DEF Sound, Base, TmGood, TmType
<1>2. HRTCNT_BOUND \in Nat /\ HRTCNT_BOUND # Null /\ HRTCNT_BOUND + 2 * MaxLate < W
  BY Constants DEF BoundKept
<1>3. CASE m.in_signal_time
  BY <1>1, <1>2, <1>3, Constants DEF Sound, Timer, Viewable
<1>4. CASE ~ m.in_signal_time /\ m.hrt_request
  BY <1>1, <1>2, <1>4, Constants DEF Sound, Timer, Viewable
<1>5. CASE ~ m.in_signal_time /\ ~ m.hrt_request
  BY <1>1, <1>2, <1>5, Constants DEF Sound, Timer, Viewable
<1> QED BY <1>1, <1>3, <1>4, <1>5

(* The system time as the current time moves by d.                         *)
LEMMA MovedTime ==
  ASSUME NEW m, TmType(m), NEW d \in 0 .. W - 1,
         NEW u, u = moved(m, (m.current_evttim + d) % W, d)
  PROVE  system_time(u) = IF lag(m) < d THEN (system_time(m) + (d - lag(m))) % SYSTIM_MOD ELSE system_time(m)
<1> DEFINE c == m.current_evttim
           mono == m.monotonic_evttim
           off == m.systim_offset
           t == (c + d) % W
           l == lag(m)
           g == d - l
<1>1. /\ c \in Int /\ mono \in 0 .. W - 1 /\ mono \in Int /\ off \in Int /\ c + d \in Int /\ off + W \in Int
      /\ mono - c \in Int /\ off + mono \in Int
      /\ SYSTIM_MOD \in Nat \ {0} /\ l \in 0 .. W - 1 /\ g \in Int /\ W \in Nat \ {0} /\ l = (mono - c) % W
  BY Constants, TimeEventAssumption, LagType DEF TmType, EVTTIM, SYSTIM, lag
<1>2. u.systim_offset = (IF l < d /\ t < mono THEN (off + W) % SYSTIM_MOD ELSE off)
      /\ u.monotonic_evttim = (IF l < d THEN t ELSE mono)
  <2> HIDE DEF t
  <2>1. u = [m EXCEPT !.current_evttim = t, !.boundary_evttim = boundary(t),
               !.monotonic_evttim = IF l < d THEN t ELSE mono,
               !.systim_offset = IF l < d /\ t < mono THEN (off + W) % SYSTIM_MOD ELSE off]
    BY DEF moved, lag, TmType, TmFields, t
  <2> HIDE DEF l
  <2> QED BY <2>1 DEF TmType, TmFields
<1> HIDE DEF c, mono, off, t, l
<1>3. t \in 0 .. W - 1 /\ t \in Int
  <2>1. t \in 0 .. W - 1
    BY <1>1, Remainder DEF t
  <2> QED BY <2>1, <1>1
<1>4. CASE ~ (l < d)
  <2>1. u.systim_offset = off /\ u.monotonic_evttim = mono
    BY <1>2, <1>4
  <2> QED BY <2>1, <1>4 DEF system_time, off, mono, l
<1>5. CASE l < d
  <2>1. g \in 1 .. W - 1
    BY <1>1, <1>5
  <2>2. t = (mono + g) % W
    <3>2. mono + g = (c + d) + - (l + (c - mono))
      BY <1>1
    <3>3. PICK k \in Int : l + (c - mono) = k * W
      <4> DEFINE x == mono - c
                 k == x \div W
      <4>1. k \in Int /\ x = k * W + (x % W)
        BY <1>1, Remainder
      <4>2. l = x % W
        BY <1>1
      <4>3. - k \in Int /\ k * W \in Int /\ (k + (- k)) * W = k * W + (- k) * W /\ (- k) * W \in Int
        BY <4>1, <1>1, Distributes
      <4>4. (k + (- k)) * W = 0
        BY <4>1, <1>1
      <4> HIDE DEF k
      <4>5. l + (c - mono) = (- k) * W
        BY <4>1, <4>2, <4>3, <4>4, <1>1
      <4> QED BY <4>5, <4>3
    <3>4. - k \in Int /\ k * W \in Int /\ (- k) * W \in Int /\ (k + (- k)) * W = k * W + (- k) * W /\ (k + (- k)) * W = 0
      <4>1. - k \in Int /\ k + (- k) = 0 /\ 0 * W = 0
        BY <1>1
      <4> QED BY <4>1, <1>1, Distributes
    <3>5. mono + g = (c + d) + (- k) * W
      BY <3>2, <3>3, <3>4, <1>1
    <3> DEFINE q == - k
    <3>6. c + d \in Int /\ q \in Int /\ mono + g = (c + d) + q * W
      BY <3>4, <3>5, <1>1
    <3> HIDE DEF q
    <3>7. ((c + d) + q * W) % W = (c + d) % W
      BY <3>6, <1>1, RemainderShift
    <3> QED BY <3>6, <3>7 DEF t
  <2>3. CASE t < mono
    <3>1. t + W = mono + g
      <4>1. mono + g \in Int /\ (mono + g \in 0 .. W - 1 \/ mono + g \in W .. 2 * W - 1)
        BY <1>1, <2>1
      <4> HIDE DEF g
      <4> DEFINE s == mono + g
      <4>2. s \in Int /\ t = s % W
        BY <4>1, <2>2
      <4> HIDE DEF s
      <4>3. s \in 0 .. W - 1 => t = s
        BY <4>2, <1>1, RemainderNear
      <4>4. s \in W .. 2 * W - 1 => t = s - W
        BY <4>2, <1>1, RemainderNear
      <4> QED BY <4>1, <4>3, <4>4, <2>1, <2>3, <1>1, <1>3 DEF s
    <3>2. system_time(u) = (((off + W) % SYSTIM_MOD) + t) % SYSTIM_MOD
      BY <1>2, <1>5, <2>3 DEF system_time
    <3>3. system_time(u) = ((off + W) + t) % SYSTIM_MOD
      BY <3>2, <1>1, <1>3, RemainderSum
    <3>4. (off + W) + t = (off + mono) + g
      BY <3>1, <1>1, <1>3
    <3>5. (((off + mono) % SYSTIM_MOD) + g) % SYSTIM_MOD = ((off + mono) + g) % SYSTIM_MOD
      BY <1>1, RemainderSum
    <3>6. system_time(m) = (off + mono) % SYSTIM_MOD
      BY DEF system_time, off, mono
    <3>7. system_time(u) = (system_time(m) + g) % SYSTIM_MOD
      BY <3>3, <3>4, <3>5, <3>6
    <3> QED BY <3>7, <1>5 DEF l
  <2>4. CASE ~ (t < mono)
    <3>1. t = mono + g
      <4>1. mono + g \in Int /\ (mono + g \in 0 .. W - 1 \/ mono + g \in W .. 2 * W - 1)
        BY <1>1, <2>1
      <4> HIDE DEF g
      <4> DEFINE s == mono + g
      <4>2. s \in Int /\ t = s % W
        BY <4>1, <2>2
      <4> HIDE DEF s
      <4>3. s \in 0 .. W - 1 => t = s
        BY <4>2, <1>1, RemainderNear
      <4>4. s \in W .. 2 * W - 1 => t = s - W
        BY <4>2, <1>1, RemainderNear
      <4> QED BY <4>1, <4>3, <4>4, <2>1, <2>4, <1>1, <1>3 DEF s
    <3>2. system_time(u) = (off + t) % SYSTIM_MOD
      BY <1>2, <1>5, <2>4 DEF system_time
    <3>4. off + t = (off + mono) + g
      BY <3>1, <1>1, <1>3
    <3>5. (((off + mono) % SYSTIM_MOD) + g) % SYSTIM_MOD = ((off + mono) + g) % SYSTIM_MOD
      BY <1>1, RemainderSum
    <3>6. system_time(m) = (off + mono) % SYSTIM_MOD
      BY DEF system_time, off, mono
    <3>7. system_time(u) = (system_time(m) + g) % SYSTIM_MOD
      BY <3>2, <3>4, <3>5, <3>6
    <3> QED BY <3>7, <1>5 DEF l
  <2> QED BY <2>3, <2>4
<1> QED BY <1>4, <1>5

(* The system time that a reading would show.                              *)
LEMMA ClockView ==
  ASSUME NEW m, NEW n, Viewable(m, n)
  PROVE  LET el == hrtcnt_advance(m) IN
         /\ TimeOf(m) = IF lag(m) < el THEN (system_time(m) + (el - lag(m))) % SYSTIM_MOD ELSE system_time(m)
         /\ LagOf(m) = IF lag(m) < el THEN 0 ELSE lag(m) - el
<1> DEFINE el == hrtcnt_advance(m)
           k == [m EXCEPT !.current_hrtcnt = m.hrt]
           u == update_current_evttim(m)
<1>1. TmType(m) /\ el \in Nat /\ el \in 0 .. W - 1
  BY ElapsedType, Constants DEF Viewable, TmGood
<1>2. el % W = el
  <2>1. el \in Int /\ el \in 0 .. W - 1 /\ W \in Nat \ {0}
    BY <1>1, Constants
  <2> HIDE DEF el
  <2> QED BY <2>1, RemainderNear
<1>3. TmType(k) /\ k.current_evttim = m.current_evttim /\ lag(k) = lag(m) /\ system_time(k) = system_time(m)
  BY <1>1 DEF TmType, TmFields, lag, system_time
<1>4. u = moved(k, (k.current_evttim + el) % W, el)
  BY <1>2, <1>3 DEF update_current_evttim
<1> HIDE DEF k, u, el
<1>5. system_time(u) = IF lag(k) < el THEN (system_time(k) + (el - lag(k))) % SYSTIM_MOD ELSE system_time(k)
  BY <1>1, <1>3, <1>4, MovedTime
<1>6. lag(u) = IF lag(m) < el THEN 0 ELSE lag(m) - el
  <2>1. lag(u) = IF lag(m) < el % W THEN 0 ELSE lag(m) - (el % W)
    BY UpdateGood DEF Viewable, u, el
  <2> QED BY <2>1, <1>2
<1> QED BY <1>3, <1>5, <1>6 DEF TimeOf, LagOf, u, el

(* Reading the timer shows nothing new.                                    *)
LEMMA UpdateView ==
  ASSUME NEW m, NEW n, Viewable(m, n), NEW u, u = update_current_evttim(m)
  PROVE  /\ Viewable(u, n) /\ SameClock(u, m) /\ LeftOf(u) = LeftOf(m)
         /\ TimeOf(m) = system_time(u) /\ LagOf(m) = lag(u)
<1>1. Updated(u, m, n)
  BY UpdateGood DEF Viewable
<1>2. Viewable(u, n) /\ hrtcnt_advance(u) = 0 /\ lag(u) \in 0 .. W - 1
  BY <1>1, LagType, Constants DEF Updated, Shifted, Viewable, TmGood
<1>3. TimeOf(u) = system_time(u) /\ LagOf(u) = lag(u)
  BY <1>2, ClockView
<1>4. LeftOf(u) = LeftOf(m)
  <2>1. \A e \in Registered(m) : /\ Adv(u, e) - Margin - 0 = Adv(m, e) - Margin - hrtcnt_advance(m)
    <3> TAKE e \in Registered(m)
    <3>1. Adv(m, e) \in 0 .. W - 1 /\ hrtcnt_advance(m) \in Int
      BY AdvType, ElapsedType, Constants DEF Viewable, TmGood
    <3>2. Adv(u, e) = Adv(m, e) - hrtcnt_advance(m)
      BY <1>1 DEF Updated, Shifted
    <3> QED BY <3>1, <3>2, Constants
  <2>2. Registered(u) = Registered(m)
    BY <1>1 DEF Updated, Shifted
  <2> QED BY <2>1, <2>2, <1>2 DEF LeftOf
<1> QED BY <1>2, <1>3, <1>4 DEF SameClock, TimeOf, LagOf

(* The fields from which the time is read.                                 *)
ClockFields == {"current_evttim", "monotonic_evttim", "systim_offset", "hrt", "current_hrtcnt"}

(* Where they stay the same, the clocks show the same.                     *)
LEMMA ClockSame ==
  ASSUME NEW m, NEW n, Viewable(m, n), NEW r, NEW k, Viewable(r, k),
         NEW fields, SameBut(r, m, fields), fields \cap ClockFields = {}
  PROVE  SameClock(r, m) /\ hrtcnt_advance(r) = hrtcnt_advance(m)
<1>1. \A x \in ClockFields : r[x] = m[x]
  BY DEF SameBut, ClockFields, Viewable, TmGood, TmType, TmFields
<1>2. r.current_evttim = m.current_evttim /\ r.monotonic_evttim = m.monotonic_evttim
      /\ r.systim_offset = m.systim_offset /\ r.hrt = m.hrt /\ r.current_hrtcnt = m.current_hrtcnt
  BY <1>1 DEF ClockFields
<1>3. hrtcnt_advance(r) = hrtcnt_advance(m) /\ lag(r) = lag(m) /\ system_time(r) = system_time(m)
  BY <1>2 DEF hrtcnt_advance, lag, system_time
<1> QED BY <1>3, ClockView DEF SameClock

-----------------------------------------------------------------------------
(* A change that leaves the time as it is and the events with times l.     *)
Seen(r, m, l) == SameClock(r, m) /\ LeftOf(r) = l

(* A registration adds an event with its time left, and nothing else.      *)
LEMMA EnqueueView ==
  ASSUME BoundKept, NEW m, NEW n, Sound(m, n), NEW e \in TMEVTB \ Registered(m),
         NEW t \in Nat, t + TSTEP_HRTCNT + BOUNDARY_MARGIN + 2 * TMAX_ADJTIM <= W,
         NEW r, r = tmevtb_enqueue_reltim(m, e, t)
  PROVE  Seen(r, m, [f \in Registered(m) \cup {e} |-> IF f = e THEN t + TSTEP_HRTCNT ELSE LeftOf(m)[f]])
<1> DEFINE u == update_current_evttim(m)
<1>1. /\ Updated(u, m, n) /\ Rest(r, u, n) /\ Registered(r) = Registered(m) \cup {e}
      /\ Adv(r, e) = Margin + TSTEP_HRTCNT + t /\ \A f \in Registered(m) : Adv(r, f) = Adv(u, f)
  BY EnqueueSound
<1>2. Viewable(m, n) /\ Viewable(r, n)
  BY <1>1, SoundViewable DEF Rest
<1>3. Viewable(u, n) /\ SameClock(u, m) /\ LeftOf(u) = LeftOf(m)
  BY <1>2, UpdateView
<1>4. SameClock(r, u) /\ hrtcnt_advance(r) = hrtcnt_advance(u)
  <2>1. SameBut(r, u, Heap \cup TimerFields) /\ (Heap \cup TimerFields) \cap ClockFields = {}
    BY <1>1 DEF Rest, Heap, TimerFields, ClockFields
  <2> HIDE DEF u
  <2> QED BY <2>1, <1>2, <1>3, ClockSame
<1>5. hrtcnt_advance(u) = 0 /\ Registered(u) = Registered(m)
  BY <1>1 DEF Updated, Shifted
<1> HIDE DEF u
<1>6. LeftOf(u) = [f \in Registered(m) |-> Adv(u, f) - Margin - 0]
  BY <1>5 DEF LeftOf
<1>7. \A f \in Registered(m) : LeftOf(m)[f] = Adv(u, f) - Margin - 0
  BY <1>3, <1>6
<1>8. LeftOf(r) = [f \in Registered(m) \cup {e} |-> Adv(r, f) - Margin - 0]
  BY <1>1, <1>4, <1>5 DEF LeftOf
<1>9. Adv(r, e) - Margin - 0 = t + TSTEP_HRTCNT
  BY <1>1, Constants, TimeEventAssumption
<1>10. \A f \in Registered(m) \cup {e} : Adv(r, f) - Margin - 0 = IF f = e THEN t + TSTEP_HRTCNT ELSE LeftOf(m)[f]
  BY <1>1, <1>7, <1>9
<1> QED BY <1>3, <1>4, <1>8, <1>10 DEF Seen, SameClock

(* An event that leaves the heap takes nothing else with it.               *)
LEMMA RemovedView ==
  ASSUME BoundKept, NEW m, NEW n, Sound(m, n), NEW e, NEW q, Removed(q, m, e), Sound(q, n)
  PROVE  Seen(q, m, [f \in Registered(m) \ {e} |-> LeftOf(m)[f]]) /\ hrtcnt_advance(q) = hrtcnt_advance(m)
<1>1. Viewable(m, n) /\ Viewable(q, n)
  BY SoundViewable
<1>2. SameClock(q, m) /\ hrtcnt_advance(q) = hrtcnt_advance(m)
  <2>1. SameBut(q, m, Heap) /\ Heap \cap ClockFields = {}
    BY DEF Removed, Heap, ClockFields
  <2> QED BY <2>1, <1>1, ClockSame
<1>3. \A f \in Registered(q) : Adv(q, f) = Adv(m, f) /\ f \in Registered(m)
  BY DEF Removed
<1>4. Registered(q) = Registered(m) \ {e}
  BY DEF Removed
<1>5. LeftOf(q) = [f \in Registered(m) \ {e} |-> LeftOf(m)[f]]
  BY <1>2, <1>3, <1>4 DEF LeftOf
<1> QED BY <1>2, <1>5 DEF Seen

(* A cancellation takes its event away, and nothing else.                  *)
LEMMA DequeueView ==
  ASSUME BoundKept, NEW m, NEW n, Sound(m, n), NEW e \in Registered(m), NEW r, r = tmevtb_dequeue(m, e)
  PROVE  Seen(r, m, [f \in Registered(m) \ {e} |-> LeftOf(m)[f]])
<1>1. PICK q, u : /\ Removed(q, m, e) /\ Sound(q, n)
                  /\ (u = q \/ (Updated(u, q, n) /\ u = update_current_evttim(q)))
                  /\ Rest(r, u, n) /\ Registered(r) = Registered(q)
                  /\ \A f \in Registered(q) : Adv(r, f) = Adv(u, f)
  BY DequeueSound
<1>2. Seen(q, m, [f \in Registered(m) \ {e} |-> LeftOf(m)[f]])
  BY <1>1, RemovedView
<1>3. Viewable(q, n) /\ Viewable(r, n)
  BY <1>1, SoundViewable DEF Rest
<1>4. Viewable(u, n) /\ SameClock(u, q) /\ LeftOf(u) = LeftOf(q)
  <2>1. CASE u = q
    BY <2>1, <1>3 DEF SameClock
  <2>2. CASE u = update_current_evttim(q)
    BY <2>2, <1>3, UpdateView
  <2> QED BY <2>1, <2>2, <1>1
<1>5. SameClock(r, u) /\ hrtcnt_advance(r) = hrtcnt_advance(u)
  <2>1. SameBut(r, u, Heap \cup TimerFields) /\ (Heap \cup TimerFields) \cap ClockFields = {}
    BY <1>1 DEF Rest, Heap, TimerFields, ClockFields
  <2> QED BY <2>1, <1>3, <1>4, ClockSame
<1>6. Registered(u) = Registered(q)
  BY <1>1 DEF Updated, Shifted
<1>7. LeftOf(r) = LeftOf(u)
  BY <1>1, <1>5, <1>6 DEF LeftOf
<1> QED BY <1>2, <1>4, <1>5, <1>7 DEF Seen, SameClock

(* TimerService!Pass(d), for the clock and for the events.                 *)
Passed(r, m, d) ==
  /\ LeftOf(r) = [e \in Registered(m) |-> LeftOf(m)[e] - d]
  /\ TimeOf(r) = IF d > LagOf(m) THEN (TimeOf(m) + d - LagOf(m)) % SYSTIM_MOD ELSE TimeOf(m)
  /\ LagOf(r) = IF d > LagOf(m) THEN 0 ELSE LagOf(m) - d

(* With a tick every event has one less left, and the system time goes on  *)
(* unless it is ahead.                                                     *)
LEMMA TickView ==
  ASSUME BoundKept, NEW m, NEW n, Sound(m, n), m.hrt_request \/ m.in_signal_time => n < MaxLate,
         NEW r, r = hrt_tick(m)
  PROVE  Passed(r, m, 1)
<1> DEFINE k == IF m.hrt_request \/ m.in_signal_time THEN n + 1 ELSE 0
           el == hrtcnt_advance(m)
           l == lag(m)
           st == system_time(m)
<1>1. /\ Sound(r, k) /\ SameBut(r, m, {"hrt", "hrt_left", "hrt_request"}) /\ Registered(r) = Registered(m)
      /\ \A e : Adv(r, e) = Adv(m, e)
      /\ hrtcnt_advance(r) = el + 1
  BY TickSound DEF BoundKept
<1>2. Viewable(m, n) /\ Viewable(r, k)
  <2> HIDE DEF k
  <2> QED BY <1>1, SoundViewable
<1>3. el \in Nat /\ l \in Nat /\ SYSTIM_MOD \in Nat \ {0} /\ st \in Int
  <2>1. TmType(m)
    BY DEF Sound, TmGood
  <2>2. m.systim_offset + m.monotonic_evttim \in Int /\ SYSTIM_MOD \in Nat \ {0} /\ W \in Nat \ {0}
    BY <2>1, TimeEventAssumption, Constants DEF TmType, EVTTIM, SYSTIM
  <2>3. st \in 0 .. SYSTIM_MOD - 1
    BY <2>2, Remainder DEF system_time
  <2> QED BY <2>1, <2>2, <2>3, ElapsedType, LagType, Constants
<1>4. lag(r) = l /\ system_time(r) = st
  <2>1. r.monotonic_evttim = m.monotonic_evttim /\ r.current_evttim = m.current_evttim /\ r.systim_offset = m.systim_offset
    BY <1>1, <1>2 DEF SameBut, Viewable, TmGood, TmType, TmFields
  <2> QED BY <2>1 DEF lag, system_time
<1>5. /\ TimeOf(m) = IF l < el THEN (st + (el - l)) % SYSTIM_MOD ELSE st
      /\ LagOf(m) = IF l < el THEN 0 ELSE l - el
  BY <1>2, ClockView
<1>6. /\ TimeOf(r) = IF l < el + 1 THEN (st + (el + 1 - l)) % SYSTIM_MOD ELSE st
      /\ LagOf(r) = IF l < el + 1 THEN 0 ELSE l - (el + 1)
  <2> HIDE DEF el, l, st, k
  <2>1. /\ TimeOf(r) = IF lag(r) < hrtcnt_advance(r) THEN (system_time(r) + (hrtcnt_advance(r) - lag(r))) % SYSTIM_MOD
                    ELSE system_time(r)
        /\ LagOf(r) = IF lag(r) < hrtcnt_advance(r) THEN 0 ELSE lag(r) - hrtcnt_advance(r)
    BY <1>2, ClockView
  <2>2. hrtcnt_advance(r) = el + 1
    BY <1>1
  <2>3. lag(r) = l /\ system_time(r) = st
    BY <1>4
  <2>4. LagOf(r) = IF l < el + 1 THEN 0 ELSE l - (el + 1)
    BY <2>1, <2>2, <2>3
  <2>5. TimeOf(r) = IF l < el + 1 THEN (st + (el + 1 - l)) % SYSTIM_MOD ELSE st
    <3>1. CASE l < el + 1
      <4>1. TimeOf(r) = (system_time(r) + (hrtcnt_advance(r) - lag(r))) % SYSTIM_MOD
        BY <2>1, <2>2, <2>3, <3>1
      <4>2. TimeOf(r) = (st + (el + 1 - l)) % SYSTIM_MOD
        <5> DEFINE x == system_time(r) + (hrtcnt_advance(r) - lag(r))
                   y == st + (el + 1 - l)
        <5>1. x = y
          BY <2>2, <2>3, <1>3
        <5>2. TimeOf(r) = x % SYSTIM_MOD
          BY <4>1
        <5> HIDE DEF x, y
        <5>3. TimeOf(r) = y % SYSTIM_MOD
          BY <5>1, <5>2
        <5> QED BY <5>3 DEF y
      <4> QED BY <4>2, <3>1
    <3>2. CASE ~ (l < el + 1)
      BY <2>1, <2>2, <2>3, <3>2
    <3> QED BY <3>1, <3>2
  <2> QED BY <2>4, <2>5
<1>7. LeftOf(r) = [e \in Registered(m) |-> LeftOf(m)[e] - 1]
  <2>1. \A e \in Registered(m) : Adv(m, e) - Margin - (el + 1) = (Adv(m, e) - Margin - el) - 1
    <3> TAKE e \in Registered(m)
    <3>1. Adv(m, e) \in 0 .. W - 1
      BY AdvType DEF Sound, TmGood
    <3> QED BY <3>1, <1>3, Constants
  <2> QED BY <2>1, <1>1 DEF LeftOf
<1> HIDE DEF el, l, st
<1>8. CASE l < el
  <2>1. TimeOf(m) + 1 - LagOf(m) = ((st + (el - l)) % SYSTIM_MOD) + 1
    <3>1. TimeOf(m) \in Int
      <4>1. st + (el - l) \in Int
        BY <1>3
      <4> QED BY <4>1, <1>3, <1>5, <1>8, Remainder
    <3> QED BY <3>1, <1>5, <1>8
  <2>2. (((st + (el - l)) % SYSTIM_MOD) + 1) % SYSTIM_MOD = ((st + (el - l)) + 1) % SYSTIM_MOD
    <3> DEFINE x == st + (el - l)
    <3>1. x \in Int /\ SYSTIM_MOD \in Nat \ {0} /\ 1 \in Int
      BY <1>3
    <3> HIDE DEF x
    <3>2. ((x % SYSTIM_MOD) + 1) % SYSTIM_MOD = (x + 1) % SYSTIM_MOD
      BY <3>1, RemainderSum
    <3> QED BY <3>2 DEF x
  <2>3. (st + (el - l)) + 1 = st + (el + 1 - l) /\ l < el + 1
    BY <1>3, <1>8
  <2> QED BY <2>1, <2>2, <2>3, <1>5, <1>6, <1>7, <1>8 DEF Passed
<1>9. CASE l = el
  <2>1. LagOf(m) = 0 /\ TimeOf(m) = st /\ l < el + 1
    BY <1>3, <1>5, <1>9
  <2>2. st + (el + 1 - l) = TimeOf(m) + 1 - LagOf(m)
    BY <2>1, <1>3, <1>9
  <2> QED BY <2>1, <2>2, <1>6, <1>7 DEF Passed
<1>10. CASE l > el
  <2>1. LagOf(m) = l - el /\ TimeOf(m) = st /\ ~ (l < el + 1) /\ ~ (1 > l - el) /\ l - (el + 1) = (l - el) - 1
    BY <1>3, <1>5, <1>10
  <2> QED BY <2>1, <1>6, <1>7 DEF Passed
<1> QED BY <1>3, <1>8, <1>9, <1>10

-----------------------------------------------------------------------------
(* A state that is read just now shows its own time.                       *)
LEMMA JustRead ==
  ASSUME NEW m, NEW n, Viewable(m, n), hrtcnt_advance(m) = 0
  PROVE  TimeOf(m) = system_time(m) /\ LagOf(m) = lag(m) /\ lag(m) \in 0 .. W - 1
         /\ LeftOf(m) = [e \in Registered(m) |-> Adv(m, e) - Margin - 0]
<1>1. lag(m) \in 0 .. W - 1
  BY LagType DEF Viewable, TmGood
<1> QED BY <1>1, ClockView, Constants DEF LeftOf

(* An adjustment is a leap of the same kind, or nothing at all.            *)
LEMMA AdjustView ==
  ASSUME BoundKept, NEW m, NEW n, Sound(m, n), NEW d \in - TMAX_ADJTIM .. TMAX_ADJTIM, d # 0,
         NEW r, r = adj_tim(m, d)
  PROVE  \/ Seen(r, m, LeftOf(m))
         \/ /\ Passed(r, m, d)
            /\ d > 0 => \A e \in Registered(m) : LeftOf(m)[e] > - TMAX_ADJTIM
            /\ d < 0 => LagOf(m) < TMAX_ADJTIM
<1> DEFINE u == update_current_evttim(m)
           t == (u.current_evttim + d) % W
           a == IF d > 0 THEN moved(u, t, d)
                ELSE [u EXCEPT !.current_evttim = t, !.boundary_evttim = boundary(t)]
<1>1. Updated(u, m, n) /\ Sound(u, n) /\ Viewable(m, n) /\ Viewable(u, n) /\ Sound(r, n) /\ Viewable(r, n)
  BY UpdateSound, AdjustSound, SoundViewable
<1>2. SameClock(u, m) /\ LeftOf(u) = LeftOf(m) /\ TimeOf(m) = system_time(u) /\ LagOf(m) = lag(u)
  BY <1>1, UpdateView
<1>3. hrtcnt_advance(u) = 0 /\ Registered(u) = Registered(m) /\ TmType(u) /\ lag(u) \in 0 .. W - 1
  <2>1. hrtcnt_advance(u) = 0 /\ Registered(u) = Registered(m) /\ TmType(u)
    BY <1>1 DEF Updated, Shifted, TmGood, Viewable
  <2> QED BY <2>1, LagType
<1>4. CASE check_adjtim(u, d)
  <2>1. r = u
    BY <1>4 DEF adj_tim
  <2> QED BY <2>1, <1>2 DEF Seen
<1>5. CASE ~ check_adjtim(u, d)
  <2>1. r = IF a.in_signal_time THEN a ELSE set_hrt_event(a)
    <3>1. r = adjusted(u, d)
      BY <1>5 DEF adj_tim
    <3>2. r = IF u.in_signal_time THEN a ELSE set_hrt_event(a)
      BY <3>1 DEF adjusted
    <3>3. a.in_signal_time = u.in_signal_time
      BY <1>3 DEF moved, TmType, TmFields
    <3> HIDE DEF u, a
    <3> QED BY <3>2, <3>3
  <2>2. /\ Shifted(a, u, d) /\ Base(a, n) /\ SameBut(a, u, Calendar)
        /\ lag(a) = IF d > lag(u) THEN 0 ELSE lag(u) - d
        /\ d > 0 => \A e \in Registered(u) : Adv(u, e) > Margin - TMAX_ADJTIM
        /\ d < 0 => lag(u) < TMAX_ADJTIM
    <3>1. CASE d > 0
      <4>1. a = moved(u, (u.current_evttim + d) % W, d) /\ d \in 1 .. TMAX_ADJTIM
        BY <3>1, Constants
      <4> HIDE DEF u, a, t
      <4>2. /\ Shifted(a, u, d) /\ Base(a, n) /\ SameBut(a, u, Calendar)
            /\ lag(a) = IF lag(u) < d THEN 0 ELSE lag(u) - d
            /\ \A e \in Registered(u) : Adv(u, e) > Margin - TMAX_ADJTIM
        BY <4>1, <1>1, <1>3, <1>5, ForwardSound
      <4> QED BY <4>2, <3>1, <1>3, Constants
    <3>2. CASE ~ (d > 0)
      <4>1. a = [u EXCEPT !.current_evttim = t, !.boundary_evttim = boundary(t)] /\ d \in - TMAX_ADJTIM .. -1
            /\ t = (u.current_evttim + d) % W
        BY <3>2, Constants
      <4> HIDE DEF u, a, t
      <4>2. /\ Shifted(a, u, d) /\ Base(a, n) /\ SameBut(a, u, {"current_evttim", "boundary_evttim"})
            /\ lag(a) = lag(u) - d /\ lag(u) < TMAX_ADJTIM
        BY <4>1, <1>1, <1>3, <1>5, BackwardSound
      <4>3. SameBut(a, u, Calendar)
        BY <4>2 DEF SameBut, Calendar
      <4>4. ~ (d > lag(u))
        BY <3>2, <4>1, <1>3, Constants
      <4> QED BY <4>2, <4>3, <4>4, <3>2
    <3> QED BY <3>1, <3>2
  <2>3. system_time(a) = IF d > lag(u) THEN (system_time(u) + d - lag(u)) % SYSTIM_MOD ELSE system_time(u)
    <3>1. CASE d > 0
      <4>1. a = moved(u, (u.current_evttim + d) % W, d) /\ d \in 0 .. W - 1
        <5>1. TMAX_ADJTIM < W
          BY Constants
        <5> QED BY <5>1, <3>1, Constants
      <4> HIDE DEF u, a, t
      <4>2. system_time(a) = IF lag(u) < d THEN (system_time(u) + (d - lag(u))) % SYSTIM_MOD ELSE system_time(u)
        BY <4>1, <1>3, MovedTime
      <4>3. system_time(u) + (d - lag(u)) = system_time(u) + d - lag(u)
        <5>1. system_time(u) \in Int
          <6>1. u.systim_offset + u.monotonic_evttim \in Int /\ SYSTIM_MOD \in Nat \ {0}
            BY <1>3, TimeEventAssumption, Constants DEF TmType, EVTTIM, SYSTIM
          <6> QED BY <6>1, Remainder DEF system_time
        <5> QED BY <5>1, <1>3, <4>1, Constants
      <4>4. lag(u) < d <=> d > lag(u)
        BY <1>3, <4>1, Constants
      <4> QED BY <4>2, <4>3, <4>4
    <3>2. CASE ~ (d > 0)
      <4>1. a.systim_offset = u.systim_offset /\ a.monotonic_evttim = u.monotonic_evttim
        BY <3>2, <1>3 DEF TmType, TmFields
      <4>2. ~ (d > lag(u))
        BY <3>2, <1>3, Constants
      <4> HIDE DEF u, a, t
      <4> QED BY <4>1, <4>2 DEF system_time
    <3> QED BY <3>1, <3>2
  <2> HIDE DEF a, u, t
  <2>4. TmGood(a) /\ Registered(a) = Registered(m) /\ hrtcnt_advance(a) = 0 /\ Viewable(a, n)
    <3>1. TmGood(a) /\ Registered(a) = Registered(m)
      BY <2>2, <1>3 DEF Shifted
    <3>2. a.hrt = u.hrt /\ a.current_hrtcnt = u.current_hrtcnt
      BY <2>2, <1>3, <3>1 DEF SameBut, Calendar, TmGood, TmType, TmFields
    <3>3. hrtcnt_advance(a) = 0
      BY <3>2, <1>3 DEF hrtcnt_advance
    <3> QED BY <3>1, <3>3, <2>2, Constants DEF Viewable
  <2>5. Sound(r, n) /\ SameBut(r, a, TimerFields) /\ Registered(r) = Registered(a) /\ \A e : Adv(r, e) = Adv(a, e)
    BY <2>1, <2>2, <2>4, AtOnce
  <2>6. SameClock(r, a) /\ hrtcnt_advance(r) = 0
    <3>1. TimerFields \cap ClockFields = {}
      BY DEF TimerFields, ClockFields
    <3>2. SameClock(r, a) /\ hrtcnt_advance(r) = hrtcnt_advance(a)
      BY <3>1, <2>4, <2>5, <1>1, ClockSame
    <3> QED BY <3>2, <2>4
  <2>7. TimeOf(a) = system_time(a) /\ LagOf(a) = lag(a)
    BY <2>4, JustRead
  <2>8. LeftOf(m) = [e \in Registered(m) |-> Adv(u, e) - Margin - 0]
    BY <1>1, <1>2, <1>3, JustRead
  <2>9. \A e \in Registered(m) : /\ Adv(r, e) - Margin - 0 = (Adv(u, e) - Margin - 0) - d
                                 /\ Adv(u, e) > Margin - TMAX_ADJTIM => Adv(u, e) - Margin - 0 > - TMAX_ADJTIM
    <3> TAKE e \in Registered(m)
    <3>1. Adv(u, e) \in 0 .. W - 1 /\ Adv(r, e) = Adv(u, e) - d
      <4>1. HeapGood(u)
        BY <1>1 DEF Viewable, TmGood
      <4> QED BY <4>1, <1>3, <2>2, <2>5, AdvType DEF Shifted
    <3> QED BY <3>1, Constants
  <2>10. LeftOf(r) = [e \in Registered(m) |-> LeftOf(m)[e] - d]
    <3>1. LeftOf(r) = [e \in Registered(m) |-> Adv(r, e) - Margin - 0]
      BY <2>4, <2>5, <2>6 DEF LeftOf
    <3>2. \A e \in Registered(m) : LeftOf(m)[e] = Adv(u, e) - Margin - 0
      BY <2>8
    <3> QED BY <3>1, <3>2, <2>9
  <2>11. TimeOf(r) = IF d > LagOf(m) THEN (TimeOf(m) + d - LagOf(m)) % SYSTIM_MOD ELSE TimeOf(m)
    BY <2>3, <2>6, <2>7, <1>2 DEF SameClock
  <2>12. LagOf(r) = IF d > LagOf(m) THEN 0 ELSE LagOf(m) - d
    BY <2>2, <2>6, <2>7, <1>2 DEF SameClock
  <2>13. d > 0 => \A e \in Registered(m) : LeftOf(m)[e] > - TMAX_ADJTIM
    <3>1. \A e \in Registered(m) : LeftOf(m)[e] = Adv(u, e) - Margin - 0
      BY <2>8
    <3> QED BY <3>1, <2>2, <2>9, <1>3
  <2> QED BY <2>10, <2>11, <2>12, <2>13, <2>2, <1>2 DEF Passed
<1> QED BY <1>4, <1>5

-----------------------------------------------------------------------------
(* set_tim sets the system time, and nothing else.                         *)
LEMMA SetTimeView ==
  ASSUME BoundKept, NEW m, NEW n, Sound(m, n), NEW s \in SYSTIM, NEW r, r = set_tim(m, s)
  PROVE  LeftOf(r) = LeftOf(m) /\ LagOf(r) = LagOf(m) /\ TimeOf(r) = s
<1> DEFINE u == update_current_evttim(m)
<1>1. Updated(u, m, n) /\ Sound(u, n) /\ Viewable(m, n) /\ Viewable(u, n) /\ Sound(r, n) /\ Viewable(r, n)
      /\ SameBut(r, u, {"systim_offset"}) /\ r.systim_offset = (s - u.monotonic_evttim) % SYSTIM_MOD
      /\ Registered(r) = Registered(u) /\ \A e : Adv(r, e) = Adv(u, e)
  BY UpdateSound, SetTimeSound, SoundViewable
<1>2. LeftOf(u) = LeftOf(m) /\ LagOf(m) = lag(u)
  BY <1>1, UpdateView
<1> HIDE DEF u
<1>3. /\ r.hrt = u.hrt /\ r.current_hrtcnt = u.current_hrtcnt /\ r.monotonic_evttim = u.monotonic_evttim
      /\ r.current_evttim = u.current_evttim /\ hrtcnt_advance(u) = 0
  BY <1>1 DEF SameBut, Updated, Viewable, TmGood, TmType, TmFields
<1>4. hrtcnt_advance(r) = 0 /\ lag(r) = lag(u)
  BY <1>3 DEF hrtcnt_advance, lag
<1>5. TimeOf(r) = system_time(r) /\ LagOf(r) = lag(r) /\ LeftOf(r) = LeftOf(u)
  BY <1>1, <1>3, <1>4, JustRead
<1>6. system_time(r) = s
  <2> DEFINE x == s - u.monotonic_evttim
  <2>1. x \in Int /\ u.monotonic_evttim \in Int /\ s \in Int /\ s \in 0 .. SYSTIM_MOD - 1 /\ SYSTIM_MOD \in Nat \ {0}
        /\ x + u.monotonic_evttim = s
    BY <1>1, TimeEventAssumption, Constants DEF Viewable, TmGood, TmType, EVTTIM, SYSTIM
  <2>2. system_time(r) = ((x % SYSTIM_MOD) + u.monotonic_evttim) % SYSTIM_MOD
    BY <1>1, <1>3 DEF system_time
  <2> HIDE DEF x
  <2>3. ((x % SYSTIM_MOD) + u.monotonic_evttim) % SYSTIM_MOD = (x + u.monotonic_evttim) % SYSTIM_MOD
    BY <2>1, RemainderSum
  <2>4. s % SYSTIM_MOD = s
    BY <2>1, RemainderNear
  <2> QED BY <2>1, <2>2, <2>3, <2>4
<1> QED BY <1>2, <1>4, <1>5, <1>6

(* The beginning of signal_time changes no time.                           *)
LEMMA BeginView ==
  ASSUME BoundKept, NEW m, NEW n, Sound(m, n), NEW k, k = Begun(m), NEW r, r = update_current_evttim(k)
  PROVE  Seen(r, m, LeftOf(m))
<1>1. /\ TmGood(k) /\ Registered(k) = Registered(m) /\ SameBut(k, m, {"hrt_request", "in_signal_time"})
      /\ \A e : Adv(k, e) = Adv(m, e)
  <2>1. /\ Updated(r, k, n) /\ Registered(r) = Registered(m) /\ SameBut(k, m, {"hrt_request", "in_signal_time"})
        /\ TmGood(k) /\ \A e : Adv(k, e) = Adv(m, e)
    BY BeginSound
  <2>2. Registered(r) = Registered(k)
    BY <2>1 DEF Updated, Shifted
  <2> QED BY <2>1, <2>2
<1>2. Viewable(m, n) /\ TmGood(m)
  BY SoundViewable DEF Viewable
<1>3. /\ k.hrt = m.hrt /\ k.current_hrtcnt = m.current_hrtcnt /\ k.in_signal_time = TRUE
      /\ k.monotonic_evttim = m.monotonic_evttim /\ k.current_evttim = m.current_evttim
  BY <1>2 DEF Begun, TmGood, TmType, TmFields
<1>4. hrtcnt_advance(k) = hrtcnt_advance(m) /\ lag(k) = lag(m)
  BY <1>3 DEF hrtcnt_advance, lag
<1>5. Viewable(k, n)
  BY <1>1, <1>2, <1>3, <1>4 DEF Viewable, Base
<1>6. SameClock(k, m)
  <2>1. {"hrt_request", "in_signal_time"} \cap ClockFields = {}
    BY DEF ClockFields
  <2> QED BY <2>1, <1>1, <1>2, <1>5, ClockSame
<1>7. LeftOf(k) = LeftOf(m)
  BY <1>1, <1>4 DEF LeftOf
<1>8. SameClock(r, k) /\ LeftOf(r) = LeftOf(k)
  BY <1>5, UpdateView
<1> QED BY <1>6, <1>7, <1>8 DEF Seen, SameClock

(* Its end changes none either.                                            *)
LEMMA EndView ==
  ASSUME BoundKept, NEW m, NEW n, Sound(m, n), m.in_signal_time, NothingDue(m),
         NEW r, r = [set_hrt_event(m) EXCEPT !.in_signal_time = FALSE]
  PROVE  Seen(r, m, LeftOf(m))
<1>1. Sound(r, 0) /\ SameBut(r, m, TimerFields \cup {"in_signal_time"})
      /\ Registered(r) = Registered(m) /\ \A e : Adv(r, e) = Adv(m, e)
  BY EndSound
<1>2. Viewable(m, n) /\ Viewable(r, 0)
  BY <1>1, SoundViewable
<1>3. (TimerFields \cup {"in_signal_time"}) \cap ClockFields = {}
  BY DEF TimerFields, ClockFields
<1>4. SameClock(r, m) /\ hrtcnt_advance(r) = hrtcnt_advance(m)
  BY <1>1, <1>2, <1>3, ClockSame
<1> QED BY <1>1, <1>4 DEF Seen, LeftOf

(* An event that is called has no time left, and no other has less.        *)
LEMMA CalledView ==
  ASSUME BoundKept, NEW m, NEW n, Sound(m, n), Registered(m) # {}, Adv(m, m.heap[0]) <= Margin
  PROVE  LET e == m.heap[0] IN
         e \in Registered(m) /\ LeftOf(m)[e] <= 0 /\ \A f \in Registered(m) : LeftOf(m)[e] <= LeftOf(m)[f]
<1> DEFINE e == m.heap[0]
<1>1. TmGood(m) /\ HeapGood(m) /\ TmType(m) /\ hrtcnt_advance(m) \in Int /\ hrtcnt_advance(m) >= 0
  BY ElapsedType, Constants DEF Sound, TmGood
<1>2. e \in Registered(m) /\ \A f \in Registered(m) : Adv(m, e) <= Adv(m, f)
  BY <1>1, TopNode, TopEarliest
<1>3. \A f \in Registered(m) : Adv(m, f) \in 0 .. W - 1
  BY <1>1, AdvType
<1>4. \A f \in Registered(m) : LeftOf(m)[f] = Adv(m, f) - Margin - hrtcnt_advance(m)
  BY DEF LeftOf
<1> HIDE DEF e
<1>5. LeftOf(m)[e] <= 0
  BY <1>1, <1>2, <1>3, <1>4, Constants DEF e
<1>6. \A f \in Registered(m) : LeftOf(m)[e] <= LeftOf(m)[f]
  BY <1>1, <1>2, <1>3, <1>4, Constants
<1> QED BY <1>2, <1>5, <1>6 DEF e

(* A callback takes its event away, and nothing else.                      *)
LEMMA CallView ==
  ASSUME BoundKept, NEW m, NEW n, Sound(m, n), m.in_signal_time, Registered(m) # {},
         NEW r, r = tmevtb_delete_top(m)
  PROVE  Seen(r, m, [f \in Registered(m) \ {m.heap[0]} |-> LeftOf(m)[f]])
BY CallSound, RemovedView, SMTT(60)

(* The callback of a cyclic notification gives it a period more.           *)
LEMMA AgainView ==
  ASSUME BoundKept, NEW m, NEW n, Sound(m, n), m.in_signal_time, Registered(m) # {},
         Adv(m, m.heap[0]) <= Margin, m.heap[0] \in Cyclic,
         NEW r, r = Renewed(m)
  PROVE  Seen(r, m, [LeftOf(m) EXCEPT ![m.heap[0]] = @ + cyctim[m.heap[0]]])
<1> DEFINE e == m.heap[0]
<1>1. /\ Sound(r, n) /\ SameBut(r, m, Heap) /\ Registered(r) = Registered(m)
      /\ \A f \in Registered(m) : Adv(r, f) = Adv(m, f) + IF f = e THEN cyctim[f] ELSE 0
  BY AgainSound, SMTT(60)
<1>2. Viewable(m, n) /\ Viewable(r, n) /\ Heap \cap ClockFields = {}
  BY <1>1, SoundViewable DEF Heap, ClockFields
<1>3. SameClock(r, m) /\ hrtcnt_advance(r) = hrtcnt_advance(m)
  BY <1>1, <1>2, ClockSame
<1>4. LeftOf(r) = [f \in Registered(m) |-> Adv(r, f) - Margin - hrtcnt_advance(m)]
      /\ LeftOf(m) = [f \in Registered(m) |-> Adv(m, f) - Margin - hrtcnt_advance(m)]
  BY <1>1, <1>3, Zenon DEF LeftOf
<1>5. \A f \in Registered(m) : Adv(m, f) \in Int /\ hrtcnt_advance(m) \in Int /\ (f = e => cyctim[f] \in Int)
  <2>1. HeapGood(m) /\ TmType(m)
    BY DEF Sound, TmGood
  <2> QED BY <2>1, AdvType, ElapsedType, Constants, NotificationAssumption
<1> HIDE DEF e
<1>6. \A f \in Registered(m) : Adv(r, f) - Margin - hrtcnt_advance(m)
         = IF f = e THEN (Adv(m, f) - Margin - hrtcnt_advance(m)) + cyctim[f] ELSE Adv(m, f) - Margin - hrtcnt_advance(m)
  <2> TAKE f \in Registered(m)
  <2> DEFINE a == Adv(m, f)
             b == Adv(r, f)
             h == hrtcnt_advance(m)
             y == cyctim[f]
  <2>1. a \in Int /\ h \in Int /\ Margin \in Int /\ (f = e => y \in Int /\ cyctim[e] = y)
    BY <1>5, Constants
  <2>2. b = a + IF f = e THEN y ELSE 0
    BY <1>1
  <2> HIDE DEF a, b, h, y
  <2>3. b - Margin - h = IF f = e THEN (a - Margin - h) + cyctim[e] ELSE a - Margin - h
    BY ONLY <2>1, <2>2
  <2> QED BY ONLY <2>1, <2>3 DEF a, b, h, y
<1>7. LeftOf(r) = [LeftOf(m) EXCEPT ![e] = @ + cyctim[e]]
  <2> DEFINE g == LeftOf(m)
             D == Registered(m)
             k == cyctim[e]
  <2>1. g = [f \in D |-> g[f]]
        /\ LeftOf(r) = [f \in D |-> IF f = e THEN g[f] + k ELSE g[f]]
    BY <1>4, <1>6, SMTT(60)
  <2> HIDE DEF g, D, k
  <2>2. LeftOf(r) = [g EXCEPT ![e] = @ + k]
    BY ONLY <2>1
  <2> QED BY ONLY <2>2 DEF g, k
<1> QED BY <1>3, <1>7 DEF Seen, e

-----------------------------------------------------------------------------
(* No callback is running outside the window it runs in.                   *)
Quiet == sig.at # "window" => sig.called = Null

(* The terms of the refinement mapping.                                    *)
LEMMA ServiceTerms ==
  /\ [e \in Registered(tm) |-> lefttim(e)] = LeftOf(tm)
  /\ [e \in Registered(tm) |-> lefttim(e)]' = LeftOf(tm')
  /\ system_time(update_current_evttim(tm)) = TimeOf(tm)
  /\ (system_time(update_current_evttim(tm)))' = TimeOf(tm')
  /\ lag(update_current_evttim(tm)) = LagOf(tm)
  /\ (lag(update_current_evttim(tm)))' = LagOf(tm')
BY DEF lefttim, elapsed, LeftOf, Adv, TimeOf, LagOf, Margin

(* A change that is not seen is a stutter.                                 *)
LEMMA SameStep ==
  ASSUME Seen(tm', tm, LeftOf(tm)), sig'.called = sig.called
  PROVE  UNCHANGED Service!serviceVars
BY ServiceTerms DEF Service!serviceVars, Seen, SameClock

(* Unless a callback returns with it.                                      *)
LEMMA ReturnStep ==
  ASSUME Seen(tm', tm, LeftOf(tm)), sig'.called = Null
  PROVE  Service!Return
BY ServiceTerms DEF Service!Return, Seen, SameClock

(* What TimerService calls Start.                                          *)
LEMMA StartStep ==
  ASSUME NEW e, NEW t, sig'.called = sig.called,
         Seen(tm', tm, [f \in Registered(tm) \cup {e} |-> IF f = e THEN t + TSTEP_HRTCNT ELSE LeftOf(tm)[f]])
  PROVE  Service!Start(e, t)
<1>1. DOMAIN LeftOf(tm) = Registered(tm)
  BY DEF LeftOf
<1> QED BY <1>1, ServiceTerms DEF Service!Start, Service!StartedWith, Service!Started, Seen, SameClock

(* What it calls Stop.                                                     *)
LEMMA StopStep ==
  ASSUME NEW e \in Registered(tm), sig'.called = sig.called,
         Seen(tm', tm, [f \in Registered(tm) \ {e} |-> LeftOf(tm)[f]])
  PROVE  Service!Stop(e)
<1>1. DOMAIN LeftOf(tm) = Registered(tm)
  BY DEF LeftOf
<1> QED BY <1>1, ServiceTerms DEF Service!Stop, Service!Started, Seen, SameClock

(* What it calls Pass.                                                     *)
LEMMA PassStep ==
  ASSUME NEW d, sig'.called = sig.called, Passed(tm', tm, d)
  PROVE  Service!Pass(d)
<1>1. DOMAIN LeftOf(tm) = Registered(tm)
  BY DEF LeftOf
<1> QED BY <1>1, ServiceTerms DEF Service!Pass, Service!Started, Passed

-----------------------------------------------------------------------------
(* A step of TimerService, or none.                                        *)
Steps == [Service!ServiceNext]_Service!serviceVars

(* The times given to calls are the ones TimerService knows.               *)
LEMMA Reltims ==
  /\ \A c \in Cyclic : cycphs[c] \in RELTIM \cup {cycphs[d] : d \in Cyclic}
  /\ \A t \in RELTIM : t \in RELTIM \cup {cycphs[d] : d \in Cyclic}
OBVIOUS

(* A restart is a Start, though the event may leave the heap in between.   *)
LEMMA RestartStep ==
  ASSUME BoundKept, NoteInv, NEW e \in TMEVTB, NEW on \in BOOLEAN, on <=> e \in Registered(tm),
         NEW t \in Nat, t \in RELTIM \cup {cycphs[d] : d \in Cyclic},
         t + TSTEP_HRTCNT + BOUNDARY_MARGIN + 2 * TMAX_ADJTIM <= W,
         tm' = restarted(on, e, t), sig'.called = sig.called
  PROVE  Service!Start(e, t)
<1> DEFINE k == IF on THEN tmevtb_dequeue(tm, e) ELSE tm
<1>0. Sound(tm, late)
  BY DEF NoteInv
<1>1. /\ Sound(k, late) /\ Registered(k) = Registered(tm) \ {e} /\ SameClock(k, tm)
      /\ \A f \in Registered(tm) \ {e} : LeftOf(k)[f] = LeftOf(tm)[f]
  <2>1. CASE on
    <3>1. Seen(k, tm, [f \in Registered(tm) \ {e} |-> LeftOf(tm)[f]])
      BY <1>0, <2>1, DequeueView
    <3>2. Sound(k, late) /\ Registered(k) = Registered(tm) \ {e}
      BY <1>0, <2>1, Withdrawing
    <3> QED BY <3>1, <3>2 DEF Seen
  <2>2. CASE ~ on
    <3>1. k = tm /\ Registered(tm) \ {e} = Registered(tm)
      BY <2>2
    <3> QED BY <3>1, <1>0 DEF SameClock
  <2> QED BY <2>1, <2>2
<1>2. tm' = tmevtb_enqueue_reltim(k, e, t)
  BY DEF restarted
<1> HIDE DEF k
<1>3. Seen(tm', k, [f \in Registered(k) \cup {e} |-> IF f = e THEN t + TSTEP_HRTCNT ELSE LeftOf(k)[f]])
  BY <1>1, <1>2, EnqueueView
<1>4. [f \in Registered(k) \cup {e} |-> IF f = e THEN t + TSTEP_HRTCNT ELSE LeftOf(k)[f]]
      = [f \in Registered(tm) \cup {e} |-> IF f = e THEN t + TSTEP_HRTCNT ELSE LeftOf(tm)[f]]
  <2>1. Registered(k) \cup {e} = Registered(tm) \cup {e}
    BY <1>1
  <2>2. \A f \in Registered(tm) \cup {e} : f # e => LeftOf(k)[f] = LeftOf(tm)[f]
    BY <1>1
  <2> QED BY <2>1, <2>2
<1>5. Seen(tm', tm, [f \in Registered(tm) \cup {e} |-> IF f = e THEN t + TSTEP_HRTCNT ELSE LeftOf(tm)[f]])
  BY <1>1, <1>3, <1>4 DEF Seen, SameClock
<1> QED BY <1>5, StartStep

(* The calls of tasks and handlers take steps of TimerService.             *)
LEMMA TimeCallStep ==
  ASSUME BoundKept, NoteInv, TimeCall PROVE Steps
<1>0. Sound(tm, late)
  BY DEF NoteInv
<1>1. ASSUME NEW c \in Cyclic, sta_cyc(c) PROVE Steps
  <2>1. Service!Start(c, cycphs[c])
    BY <1>1, Blocks, TimesFit, Reltims, RestartStep DEF sta_cyc, Keep
  <2> QED BY <2>1, Blocks, Reltims DEF Steps, Service!ServiceNext
<1>2. ASSUME NEW c \in Cyclic, stp_cyc(c) PROVE Steps
  <2>1. Service!Stop(c)
    BY <1>0, <1>2, Blocks, DequeueView, StopStep DEF stp_cyc, Keep
  <2> QED BY <2>1, Blocks DEF Steps, Service!ServiceNext
<1>3. ASSUME NEW a \in Alarm, NEW t \in RELTIM, sta_alm(a, t) PROVE Steps
  <2>1. Service!Start(a, t)
    BY <1>3, Blocks, TimesFit, Reltims, RestartStep DEF sta_alm, Keep
  <2> QED BY <2>1, Blocks, Reltims DEF Steps, Service!ServiceNext
<1>4. ASSUME NEW a \in Alarm, stp_alm(a) PROVE Steps
  <2>1. Service!Stop(a)
    BY <1>0, <1>4, Blocks, DequeueView, StopStep DEF stp_alm, Keep
  <2> QED BY <2>1, Blocks DEF Steps, Service!ServiceNext
<1>5. ASSUME NEW w \in Timeout, NEW t \in RELTIM, make_wait_tmout(w, t) PROVE Steps
  <2>1. w \in TMEVTB \ Registered(tm) /\ sig'.called = sig.called
    BY <1>5, Blocks DEF make_wait_tmout, Keep
  <2>2. Seen(tm', tm, [f \in Registered(tm) \cup {w} |-> IF f = w THEN t + TSTEP_HRTCNT ELSE LeftOf(tm)[f]])
    BY <1>0, <1>5, <2>1, TimesFit, EnqueueView DEF make_wait_tmout
  <2>3. Service!Start(w, t)
    BY <2>1, <2>2, StartStep
  <2> QED BY <2>1, <2>3, Reltims DEF Steps, Service!ServiceNext
<1>6. ASSUME NEW w \in Timeout, wait_dequeue_tmevtb(w) PROVE Steps
  <2>1. Service!Stop(w)
    BY <1>0, <1>6, Blocks, DequeueView, StopStep DEF wait_dequeue_tmevtb, Keep
  <2> QED BY <2>1, Blocks DEF Steps, Service!ServiceNext
<1>7. CASE get_tim
  <2>1. sig'.called = sig.called /\ tm' = update_current_evttim(tm)
    BY <1>7 DEF get_tim, OnlyTime, Keep
  <2>2. Seen(tm', tm, LeftOf(tm))
    BY <1>0, <2>1, SoundViewable, UpdateView DEF Seen
  <2> QED BY <2>1, <2>2, SameStep DEF Steps
<1>8. ASSUME NEW s \in SetTim, set(s) PROVE Steps
  <2>1. s \in SYSTIM /\ tm' = set_tim(tm, s) /\ sig'.called = sig.called
    BY <1>8, NotificationAssumption DEF set, OnlyTime, Keep
  <2>2. LeftOf(tm') = LeftOf(tm) /\ LagOf(tm') = LagOf(tm) /\ TimeOf(tm') = s
    BY <1>0, <2>1, SetTimeView
  <2>3. Service!SetTime(s)
    BY <2>1, <2>2, ServiceTerms DEF Service!SetTime
  <2> QED BY <2>1, <2>3 DEF Steps, Service!ServiceNext, SYSTIM
<1> QED BY <1>1, <1>2, <1>3, <1>4, <1>5, <1>6, <1>7, <1>8 DEF TimeCall

(* Adjustments do.                                                         *)
LEMMA AdjustingStep ==
  ASSUME BoundKept, NoteInv, Adjusting PROVE Steps
<1>0. Sound(tm, late)
  BY DEF NoteInv
<1>1. PICK d \in - TMAX_ADJTIM .. TMAX_ADJTIM : d # 0 /\ tm' = adj_tim(tm, d) /\ sig'.called = sig.called
  BY DEF Adjusting, adjust, OnlyTime, Keep
<1>2. CASE Seen(tm', tm, LeftOf(tm))
  BY <1>1, <1>2, SameStep DEF Steps
<1>3. CASE /\ Passed(tm', tm, d)
           /\ d > 0 => \A e \in Registered(tm) : LeftOf(tm)[e] > - TMAX_ADJTIM
           /\ d < 0 => LagOf(tm) < TMAX_ADJTIM
  <2>1. Service!Pass(d)
    BY <1>1, <1>3, PassStep
  <2>2. DOMAIN LeftOf(tm) = Registered(tm)
    BY DEF LeftOf
  <2>3. Service!Adjust(d)
    BY <2>1, <2>2, <1>3, ServiceTerms DEF Service!Adjust, Service!Started
  <2> QED BY <2>3 DEF Steps, Service!ServiceNext
<1>4. \/ Seen(tm', tm, LeftOf(tm))
      \/ /\ Passed(tm', tm, d)
         /\ d > 0 => \A e \in Registered(tm) : LeftOf(tm)[e] > - TMAX_ADJTIM
         /\ d < 0 => LagOf(tm) < TMAX_ADJTIM
  BY <1>0, <1>1, AdjustView
<1> QED BY <1>2, <1>3, <1>4

(* A tick does.                                                            *)
LEMMA TickStep ==
  ASSUME BoundKept, NoteInv, Tick PROVE Steps
<1>0. Sound(tm, late) /\ tm.in_signal_time = (sig.at # "idle")
  BY DEF NoteInv
<1>1. sig'.called = sig.called /\ tm' = hrt_tick(tm) /\ (tm.hrt_request \/ tm.in_signal_time => late < MaxLate)
  BY <1>0 DEF Tick, InterruptDue
<1>2. Passed(tm', tm, 1)
  BY <1>0, <1>1, TickView
<1>3. Service!Pass(1)
  BY <1>1, <1>2, PassStep
<1> QED BY <1>3 DEF Steps, Service!ServiceNext, Service!Tick

-----------------------------------------------------------------------------
(* No callback is running outside its window, as signal_time goes on.      *)
LEMMA QuietStep == NoteInv /\ Quiet /\ [NoteNext]_noteVars => Quiet'
<1> SUFFICES ASSUME NoteInv, Quiet, [NoteNext]_noteVars PROVE Quiet'
  OBVIOUS
<1>0. SigType
  BY DEF NoteInv
<1>1. CASE sig' = sig
  BY <1>1 DEF Quiet
<1>2. CASE signal_time
  <2>1. CASE SignalBegins
    BY <2>1 DEF SignalBegins, Quiet
  <2>2. CASE SignalCalls
    <3>1. sig'.at = "window"
      BY <2>2 DEF SignalCalls, callCyclic, callAlarm, wait_tmout, called
    <3> QED BY <3>1 DEF Quiet
  <2>3. CASE HandlerReturns \/ SignalLooksAgain
    <3>1. sig'.called = Null
      BY <1>0, <2>3 DEF HandlerReturns, SignalLooksAgain, SigType
    <3> QED BY <3>1 DEF Quiet
  <2>4. CASE SignalEnds
    <3>1. sig'.called = sig.called /\ sig.at = "loop"
      BY <1>0, <2>4 DEF SignalEnds, SigType
    <3> QED BY <3>1 DEF Quiet
  <2> QED BY <1>2, <2>1, <2>2, <2>3, <2>4 DEF signal_time
<1>3. TimeCall \/ Adjusting \/ Tick \/ UNCHANGED noteVars => sig' = sig
  BY DEF TimeCall, Adjusting, Tick, noteVars, sta_cyc, stp_cyc, sta_alm, stp_alm, make_wait_tmout, wait_dequeue_tmevtb,
    get_tim, set, adjust, OnlyTime, Keep
<1> QED BY <1>1, <1>2, <1>3 DEF NoteNext

(* signal_time does: it calls only an event with no time left and none     *)
(* earlier beside it, and moves a cyclic one by exactly its period.        *)
LEMMA SignalStep ==
  ASSUME BoundKept, NoteInv, Quiet, signal_time PROVE Steps
<1>0. Sound(tm, late) /\ TmGood(tm) /\ tm.in_signal_time = (sig.at # "idle") /\ SigType
  BY DEF NoteInv, Sound
<1>1. CASE SignalBegins
  <2>1. tm' = update_current_evttim(Begun(tm)) /\ sig'.called = Null
    BY <1>1 DEF SignalBegins, Begun
  <2>2. Seen(tm', tm, LeftOf(tm))
    BY <1>0, <2>1, BeginView
  <2> QED BY <2>1, <2>2, ReturnStep DEF Steps, Service!ServiceNext
<1>2. CASE SignalCalls
  <2> DEFINE e == tm.heap[0]
             period == [x \in TMEVTB |-> IF x \in Cyclic THEN cyctim[x] ELSE 0]
  <2>1. sig.at = "loop" /\ Due
    BY <1>2 DEF SignalCalls
  <2>2. e \in Registered(tm) /\ Adv(tm, e) <= Margin /\ tm.in_signal_time
    BY <1>0, <2>1, DueMeans
  <2>3. LeftOf(tm)[e] <= 0 /\ \A f \in Registered(tm) : LeftOf(tm)[e] <= LeftOf(tm)[f]
    BY <1>0, <2>2, CalledView
  <2>4. e \in TMEVTB /\ sig.called # e
    BY <1>0, <2>1, <2>2, TimeEventAssumption DEF TmGood, HeapGood, Filled, Quiet
  <2>5. /\ sig'.called = e
        /\ Seen(tm', tm, IF period[e] > 0 THEN [LeftOf(tm) EXCEPT ![e] = @ + period[e]]
                         ELSE [f \in Registered(tm) \ {e} |-> LeftOf(tm)[f]])
    <3>1. CASE e \in Cyclic /\ callCyclic(e)
      <4>1. tm' = Renewed(tm) /\ sig'.called = e
        BY <3>1 DEF callCyclic, nextEvttim, called, Renewed
      <4>2. Seen(tm', tm, [LeftOf(tm) EXCEPT ![e] = @ + cyctim[e]])
        BY <1>0, <2>2, <3>1, <4>1, AgainView
      <4>3. period[e] = cyctim[e] /\ cyctim[e] > 0
        BY <2>4, <3>1, NotificationAssumption
      <4> QED BY <4>1, <4>2, <4>3, Zenon
    <3>2. CASE (e \in Alarm /\ callAlarm(e)) \/ (e \in Timeout /\ wait_tmout(e))
      <4>1. tm' = tmevtb_delete_top(tm) /\ sig'.called = e
        BY <3>2 DEF callAlarm, wait_tmout, called
      <4>2. Seen(tm', tm, [f \in Registered(tm) \ {e} |-> LeftOf(tm)[f]])
        BY <1>0, <2>2, <4>1, CallView
      <4>3. period[e] = 0
        BY <2>4, <3>2, NotificationAssumption
      <4> QED BY <4>1, <4>2, <4>3
    <3> QED BY <1>2, <3>1, <3>2, SMTT(60) DEF SignalCalls
  <2>6. DOMAIN LeftOf(tm) = Registered(tm)
    BY DEF LeftOf
  <2> HIDE DEF e
  <2>7. Service!Call(e)
    BY <2>2, <2>3, <2>4, <2>5, <2>6, ServiceTerms DEF Service!Call, Service!Started, Seen, SameClock
  <2> QED BY <2>4, <2>7 DEF Steps, Service!ServiceNext
<1>3. CASE HandlerReturns
  <2>1. tm' = tm /\ sig'.called = Null
    BY <1>0, <1>3 DEF HandlerReturns, SigType
  <2>2. Seen(tm', tm, LeftOf(tm))
    BY <2>1 DEF Seen, SameClock
  <2> QED BY <2>1, <2>2, ReturnStep DEF Steps, Service!ServiceNext
<1>4. CASE SignalLooksAgain
  <2>1. tm' = update_current_evttim(tm) /\ sig'.called = Null
    BY <1>0, <1>4 DEF SignalLooksAgain, SigType
  <2>2. Seen(tm', tm, LeftOf(tm))
    BY <1>0, <2>1, SoundViewable, UpdateView DEF Seen
  <2> QED BY <2>1, <2>2, ReturnStep DEF Steps, Service!ServiceNext
<1>5. CASE SignalEnds
  <2>1. NothingDue(tm) /\ tm.in_signal_time
    BY <1>0, <1>5, DueMeans DEF SignalEnds
  <2>2. tm' = [set_hrt_event(tm) EXCEPT !.in_signal_time = FALSE] /\ sig'.called = sig.called
    BY <1>0, <1>5 DEF SignalEnds, SigType
  <2>3. Seen(tm', tm, LeftOf(tm))
    BY <1>0, <2>1, <2>2, EndView
  <2> QED BY <2>2, <2>3, SameStep DEF Steps
<1> QED BY <1>1, <1>2, <1>3, <1>4, <1>5 DEF signal_time

(* At the beginning the notifications started have their phases left.      *)
LEMMA InitialView == BoundKept /\ NoteInit => Service!ServiceInit
<1> SUFFICES ASSUME BoundKept, NoteInit PROVE Service!ServiceInit
  OBVIOUS
<1> DEFINE m == initialize_cyclic
<1>1. TmGood(m) /\ Registered(m) = TA_STA /\ SameBut(m, NoEvents, Heap) /\ \A e \in TA_STA : Adv(m, e) = Margin + cycphs[e]
  BY InitialEvents DEF Started0
<1>2. tm = set_hrt_event(m) /\ sig.called = Null
  BY DEF NoteInit
<1>3. Sound(tm, late) /\ TmType(tm)
  BY InvInit DEF NoteInv, Sound, TmGood
<1> HIDE DEF m
<1>4. SameBut(tm, m, TimerFields) /\ Registered(tm) = TA_STA /\ \A e \in TA_STA : Adv(tm, e) = Margin + cycphs[e]
  <2>1. SameBut(tm, m, TimerFields) /\ TmType(tm)
    BY <1>1, <1>2, SetEventTimed DEF Timed, TimerFields
  <2>2. Registered(tm) = Registered(m) /\ \A e : Adv(tm, e) = Adv(m, e)
    <3>1. SameBut(tm, m, {"in_signal_time", "current_hrtcnt", "hrt", "hrt_left", "hrt_request",
                        "systim_offset", "monotonic_evttim"})
      BY <2>1 DEF SameBut, TimerFields
    <3> QED BY <1>1, <2>1, <3>1, GoodSame
  <2> QED BY <1>1, <2>1, <2>2
<1>5. /\ tm.hrt = start_hrt /\ tm.current_hrtcnt = start_hrt /\ tm.systim_offset = 0
      /\ tm.monotonic_evttim = 0 /\ tm.current_evttim = 0
  <2>1. /\ m.hrt = start_hrt /\ m.current_hrtcnt = start_hrt /\ m.systim_offset = 0
        /\ m.monotonic_evttim = 0 /\ m.current_evttim = 0
    BY <1>1 DEF SameBut, Heap, NoEvents, TmGood, TmType, TmFields
  <2> QED BY <2>1, <1>1, <1>3, <1>4 DEF SameBut, TimerFields, TmGood, TmType, TmFields
<1>6. hrtcnt_advance(tm) = 0
  BY <1>3, <1>5, ElapsedType
<1>7. lag(tm) = 0 /\ system_time(tm) = 0
  <2>1. W \in Nat \ {0} /\ SYSTIM_MOD \in Nat \ {0} /\ 0 - 0 = 0 /\ 0 + 0 = 0 /\ 0 \in 0 .. W - 1 /\ 0 \in 0 .. SYSTIM_MOD - 1
    BY TimeEventAssumption, Constants
  <2>2. 0 % W = 0 /\ 0 % SYSTIM_MOD = 0
    BY <2>1, RemainderNear
  <2> QED BY <2>1, <2>2, <1>5 DEF lag, system_time
<1>8. TimeOf(tm) = 0 /\ LagOf(tm) = 0
  BY <1>3, <1>6, <1>7, SoundViewable, JustRead
<1>9. LeftOf(tm) = [c \in TA_STA |-> cycphs[c]]
  <2>1. \A c \in TA_STA : Adv(tm, c) - Margin - 0 = cycphs[c]
    BY <1>4, Constants, TimesFit, NotificationAssumption
  <2> QED BY <1>4, <1>6, <2>1 DEF LeftOf
<1> QED BY <1>2, <1>8, <1>9, ServiceTerms DEF Service!ServiceInit

(* Nothing is called early or before an earlier event, periods do not      *)
(* drift, and the system time runs backwards in set_tim only: Notification *)
(* implements TimerService, wherever HRTCNT_BOUND bounds what the timer    *)
(* counts between two readings.                                            *)
THEOREM TimerImplemented == ASSUME BoundKept PROVE NoteSpec => TimerPromised
<1>1. NoteInit => Service!ServiceInit /\ Quiet
  <2>1. NoteInit => Quiet
    BY DEF NoteInit, Quiet
  <2> QED BY <2>1, InitialView
<1>2. NoteInv /\ Quiet /\ [NoteNext]_noteVars => Steps
  <2> SUFFICES ASSUME NoteInv, Quiet, [NoteNext]_noteVars PROVE Steps
    OBVIOUS
  <2>1. CASE NoteNext
    BY <2>1, TimeCallStep, AdjustingStep, SignalStep, TickStep DEF NoteNext
  <2>2. CASE UNCHANGED noteVars
    <3>1. tm' = tm /\ sig' = sig
      BY <2>2 DEF noteVars
    <3>2. Seen(tm', tm, LeftOf(tm))
      BY <3>1 DEF Seen, SameClock
    <3> QED BY <3>1, <3>2, SameStep DEF Steps
  <2> QED BY <2>1, <2>2
<1>3. NoteInv /\ Quiet /\ [NoteNext]_noteVars => Quiet'
  BY QuietStep
<1> QED BY <1>1, <1>2, <1>3, TimeManaged, PTL DEF NoteSpec, TimerPromised, Service!ServiceSpec, Steps
=============================================================================
