SPECIFICATION Spec
CONSTANTS
  NoUser = NoUser
  Empty = Empty
  Torn = Torn
  Keys = {ann}
  Fields = {maildir}
  Data = {0, 1}
  Requests = {r1, r2}
  QueueCap = 2
  Debounce = 5
  Sleep = 1
  Editing = FALSE
  Crashing = FALSE
  Apart = {}
INVARIANTS SavesAreCurrent
CHECK_DEADLOCK FALSE
