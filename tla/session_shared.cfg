SPECIFICATION FairSpec
CONSTANTS
  s1 = s1
  s2 = s2
  ann = ann
  bob = bob
  noUser = noUser
  boxA = boxA
  boxB = boxB
  Sessions = {s1, s2}
  Users = {ann}
  NoUser = noUser
  Maildirs = {boxA}
  MaildirOf <- SharedMaildir
  Files = {1, 2}
  MaxAuthAttempts = 1
  AttemptBound = 1
  MaxCrashes = 1
INVARIANTS ExpungedStaysGone
PROPERTIES ByeIsKept LoginsEnd ImplementsMaildrop
