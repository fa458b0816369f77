SPECIFICATION PeerSpec
CONSTANTS
  t1 = t1
  Task = {t1}
  LF = "LF"
  CR = "CR"
  Char = {"b", "LF", "CR"}
  FC_START = "START"
  FC_STOP = "STOP"
  NoChar = NoChar
  sendBufferSize = 2
  receiveBufferSize = 3
  Arriving = {"LF"}
  Managers = {t1}
  Texts <- MCTexts
  Lengths <- MCLengths
  Controls = {}
INVARIANT PeerToldRight
CHECK_DEADLOCK FALSE
