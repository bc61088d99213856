SPECIFICATION Spec
CONSTANTS
  wpm = wpm
  wa = wa
  wb = wb
  Words <- MCWords
  pmanager <- MCpmanager
  Colon = Colon
  Semi = Semi
  Pad = Pad
  NULL = NULL
  MSG_ADD = MSG_ADD
  MSG_REMOVE = MSG_REMOVE
  MSG_INFO = MSG_INFO
  MSG_ERROR = MSG_ERROR
  MSG_SUCCESS = MSG_SUCCESS
  MSG_LIST = MSG_LIST
  MSG_SPAWN = MSG_SPAWN
  Script <- RefusedScript
  MaxPid <- RefusedPids
  UserSignals = {}
  ForkMayFail = FALSE
  Interactive = FALSE
INVARIANT MessageFromWaited
CHECK_DEADLOCK FALSE
