SPECIFICATION CheckedSpec
CONSTANTS
  c1 = c1
  TMEVTB = {c1}
  Cyclic = {c1}
  Alarm = {}
  Timeout = {}
  cyctim <- MCcyctim
  cycphs <- MCcycphs
  TA_STA = {c1}
  W = 8
  BOUNDARY_MARGIN = 3
  HRTCNT_MOD = 8
  TCYC_HRTCNT = 8
  HRTCNT_BOUND = 4
  Null = Null
  TSTEP_HRTCNT = 1
  TMAX_ADJTIM = 1
  SYSTIM_MOD = 16
  RELTIM = {}
  SetTim = {}
  start_hrt = 5
  MaxLate = 1
INVARIANTS
  NeverTraps
CHECK_DEADLOCK FALSE
