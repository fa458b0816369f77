SPECIFICATION TurnsFairSpec
CONSTANTS
  c1 = c1
  a1 = a1
  w1 = w1
  TMEVTB = {c1, a1, w1}
  Cyclic = {c1}
  Alarm = {a1}
  Timeout = {w1}
  cyctim <- MCcyctim
  cycphs <- MCcycphs
  TA_STA = {c1}
  W = 6
  BOUNDARY_MARGIN = 2
  HRTCNT_MOD = 7
  TCYC_HRTCNT = 6
  HRTCNT_BOUND = 3
  Null = Null
  TSTEP_HRTCNT = 1
  TMAX_ADJTIM = 1
  SYSTIM_MOD = 12
  RELTIM = {0, 1}
  SetTim <- MCSetTim
  start_hrt = 5
  MaxLate = 1
INVARIANTS
  RegisteredWhileActive
  InterruptArmed
PROPERTIES
  TimerPromised
  EventuallyCalled
CHECK_DEADLOCK FALSE
