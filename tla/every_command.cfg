SPECIFICATION Spec
CONSTANTS
  wpm = wpm
  wa = wa
  wb = wb
  Words <- MCWords
  pmanager <- MCpmanager
  Colon = Colon
  Semi = Semi
  Pad = Pad
  NULL = NULL
  MSG_ADD = MSG_ADD
  MSG_REMOVE = MSG_REMOVE
  MSG_INFO = MSG_INFO
  MSG_ERROR = MSG_ERROR
  MSG_SUCCESS = MSG_SUCCESS
  MSG_LIST = MSG_LIST
  MSG_SPAWN = MSG_SPAWN
  Script <- AnyScript
  MaxPid <- AnyPids
  UserSignals = {}
  ForkMayFail = TRUE
  Interactive = FALSE
INVARIANT TypeOK SingleReader ReadsItsMessage QuietAtPrompt InfoCurrent NamesUnique TreeAccurate HangExplained
PROPERTY RegistrySpec PrmallEndsAll
CHECK_DEADLOCK FALSE
