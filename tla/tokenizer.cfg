SPECIFICATION Spec
CONSTANTS
  word = word
  Words <- MCWords
  Colon = Colon
  Semi = Semi
  Pad = Pad
  NULL = NULL
  MSG_ADD = MSG_ADD
  MSG_REMOVE = MSG_REMOVE
  MSG_INFO = MSG_INFO
  MSG_ERROR = MSG_ERROR
  MSG_SUCCESS = MSG_SUCCESS
  MSG_LIST = MSG_LIST
  MSG_SPAWN = MSG_SPAWN
  Unset = Unset
  MaxLen = 6
INVARIANT TokensRight WithinArray RoundTrips
CHECK_DEADLOCK FALSE
