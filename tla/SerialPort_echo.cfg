SPECIFICATION FairSpec
CONSTANTS
  t1 = t1
  t2 = t2
  Task = {t2}
  LF = "LF"
  CR = "CR"
  Char = {"b", "LF", "CR"}
  FC_START = "START"
  FC_STOP = "STOP"
  NoChar = NoChar
  sendBufferSize = 2
  receiveBufferSize = 3
  Arriving = {"LF"}
  Managers = {t2}
  Texts <- MCTexts
  Lengths <- MCLengths
  Controls <- MCControls
PROPERTY ReadersServed
CHECK_DEADLOCK FALSE
