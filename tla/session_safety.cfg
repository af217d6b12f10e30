SPECIFICATION Spec
CONSTANTS
  s1 = s1
  s2 = s2
  ann = ann
  bob = bob
  noUser = noUser
  boxA = boxA
  boxB = boxB
  Sessions = {s1, s2}
  Users = {ann, bob}
  NoUser = noUser
  Maildirs = {boxA, boxB}
  MaildirOf <- OwnMaildirs
  Files = {1, 2}
  MaxAuthAttempts = 2
  AttemptBound = 3
  MaxCrashes = 0
SYMMETRY SessionSymmetry
INVARIANTS TypeOK SessionInv GuessesAreBounded HandlersNeverPanic MarksStayInTheirMailbox
PROPERTIES OnlyQuitExpunges ListingStableWhenAlone
