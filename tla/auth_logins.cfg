SPECIFICATION Spec
CONSTANTS
  NoUser = NoUser
  Empty = Empty
  Torn = Torn
  Keys = {ann}
  Fields = {maildir}
  Data = {0, 1}
  Requests = {r1}
  QueueCap = 2
  Debounce = 5
  Sleep = 1
  Editing = TRUE
  Crashing = FALSE
  Apart = {"requests", "edits", "start"}
INVARIANTS LoginsFollowTheFile
