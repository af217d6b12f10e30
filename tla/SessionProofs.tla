---------------------------- MODULE SessionProofs ----------------------------
(***************************************************************************)
(* What TLAPS proves of Session, for every set of connections, accounts,   *)
(* maildirs and files and every value of the limits.                       *)
(***************************************************************************)
EXTENDS Session, TLAPS, FiniteSetTheorems

\* Before the first connection the invariant holds.
LEMMA InitInv == Init => SessionInv
  BY BoundsAssumption
  DEF Init, SessionInv, TypeOK, StandsWhereItShould, GuessesAreBounded,
      HandlersNeverPanic, MarksStayInTheirMailbox, ExpungedStaysGone, InOnePlace,
      Live, Ended, States, NoOne

\* The state machine admits a login in AUTHORIZATION only, and the commands about
\* messages in TRANSACTION only (protocol/state.rs, is_valid_command).
LEMMA LoginCommands ==
  ASSUME NEW s \in Sessions, TypeOK, NEW c \in {"USER", "PASS", "APOP"}, Receive(s, c)
  PROVE  pc[s] = "ready" /\ state[s] = "Authorization"
  BY DEF Receive, Valid, TypeOK, States

\* The commands about messages are let through in TRANSACTION only.
LEMMA MailCommands ==
  ASSUME NEW s \in Sessions, TypeOK, 
         NEW c \in {"STAT", "LIST", "RETR", "DELE", "NOOP", "RSET", "UIDL", "TOP"},
         Receive(s, c)
  PROVE  pc[s] = "ready" /\ state[s] = "Transaction"
  BY DEF Receive, Valid, TypeOK, States

\* Every step of every session, delivery and crash preserves the invariant.
LEMMA InvStep == SessionInv /\ [Next]_vars => SessionInv'
<1> SUFFICES ASSUME SessionInv, [Next]_vars PROVE SessionInv'
  OBVIOUS
<1> USE UsersAssumption, BoundsAssumption, MaildirOfAssumption 
  DEF SessionInv, TypeOK, StandsWhereItShould, GuessesAreBounded, HandlersNeverPanic,
      MarksStayInTheirMailbox, ExpungedStaysGone, InOnePlace, Mailbox, Listing,
      Live, Ended, States, NoOne, conn, dirs, ReplyEnds
<1>1. ASSUME NEW s \in Sessions, Accept(s) PROVE SessionInv'
  BY <1>1 DEF Accept
<1>2. ASSUME NEW s \in Sessions, Command(s) PROVE SessionInv'
  <2>1. ASSUME NEW u \in Users, HandleUser(s, u) PROVE SessionInv'
    BY <2>1 DEF HandleUser, Receive, Valid
  <2>2. CASE PassWithoutUser(s) \/ HandleApop(s) \/ HandleCapa(s) \/ HandleStat(s)
             \/ HandleList(s) \/ HandleRetr(s) \/ HandleNoop(s) \/ HandleUidl(s)
             \/ HandleTop(s) \/ RefuseCommand(s)
    <3>1. Reply(s)
      BY <2>2 DEF PassWithoutUser, HandleApop, HandleCapa, HandleStat, HandleList,
                  HandleRetr, HandleNoop, HandleUidl, HandleTop, RefuseCommand
    <3> QED BY <3>1 DEF Reply
  <2>3. CASE PassTooMany(s)
    <3>1. state[s] = "Authorization" /\ pc[s] = "ready"
      BY <2>3, LoginCommands DEF PassTooMany, Attempt
    <3> QED BY <2>3, <3>1 DEF PassTooMany, Attempt, AfterLoop
  <2>4. CASE PassRejected(s)
    BY <2>4 DEF PassRejected, Authenticate, Attempt, TooMany, Receive, Valid
  <2>5. CASE PassStorageError(s)
    BY <2>5 DEF PassStorageError, Authenticate, Attempt, TooMany, Receive, Valid
  <2>6. CASE PassAccepted(s)
    <3>1. state[s] = "Authorization" /\ pc[s] = "ready"
      BY <2>6, LoginCommands DEF PassAccepted, Authenticate, Attempt
    <3> QED BY <2>6, <3>1 DEF PassAccepted, Authenticate, Attempt, TooMany
  <2>7. ASSUME NEW n \in 1..(Cardinality(Files) + 1), HandleDele(s, n) PROVE SessionInv'
    <3>1. state[s] = "Transaction" /\ pc[s] = "ready"
      BY <2>7, MailCommands DEF HandleDele
    <3>2. user[s] \in Users /\ Mailbox(s) \in Maildirs
      BY <3>1
    <3> QED BY <2>7, <3>1, <3>2 DEF HandleDele
  <2>8. CASE HandleRset(s)
    BY <2>8 DEF HandleRset, Receive, Valid
  <2>9. CASE HandleQuit(s)
    BY <2>9 DEF HandleQuit, Receive, Valid, AfterLoop
  <2> QED BY <1>2, <2>1, <2>2, <2>3, <2>4, <2>5, <2>6, <2>7, <2>8, <2>9 DEF Command
<1>3. ASSUME NEW s \in Sessions, Opening(s) PROVE SessionInv'
  <2>1. ASSUME NEW f \in Files, OpenMove(s, f) PROVE SessionInv'
    BY <2>1 DEF OpenMove
  <2>2. CASE OpenError(s)
    BY <2>2 DEF OpenError
  <2>3. CASE OpenDone(s)
    BY <2>3 DEF OpenDone
  <2> QED BY <1>3, <2>1, <2>2, <2>3 DEF Opening
<1>4. ASSUME NEW s \in Sessions, Committing(s) PROVE SessionInv'
  <2>1. ASSUME NEW f \in Files, Expunge(s, f) PROVE SessionInv'
    BY <2>1 DEF Expunge
  <2>2. CASE CommitDone(s)
    BY <2>2 DEF CommitDone
  <2> QED BY <1>4, <2>1, <2>2 DEF Committing
<1>5. ASSUME NEW s \in Sessions, Disconnect(s) \/ IdleTimeout(s) \/ Unstall(s) \/ Farewell(s)
      PROVE SessionInv'
  BY <1>5 DEF Disconnect, IdleTimeout, Unstall, Farewell, Leave, AfterLoop
<1>6. ASSUME NEW m \in Maildirs, NEW f \in Files, Deliver(m, f) PROVE SessionInv'
  BY <1>6 DEF Deliver
<1>7. CASE Crash
  BY <1>7 DEF Crash
<1>8. CASE UNCHANGED vars
  BY <1>8 DEF vars
<1> QED
  BY <1>1, <1>2, <1>3, <1>4, <1>5, <1>6, <1>7, <1>8 DEF Next, SessionStep

-----------------------------------------------------------------------------
(* The invariants *)

\* The strengthened invariant holds of every state the sessions reach.
THEOREM SessionInvariant == Spec => []SessionInv
  BY InitInv, InvStep, PTL DEF Spec

\* Every variable keeps to its type: no mark for a message that does not exist.
THEOREM TypeCorrect == Spec => []TypeOK
  BY SessionInvariant, PTL DEF SessionInv

\* No connection has more than max_auth_attempts passwords verified.
THEOREM AuthAttemptsBounded == Spec => []GuessesAreBounded
  BY SessionInvariant, PTL DEF SessionInv

\* The unwrap() calls of the TRANSACTION handlers never panic.
THEOREM NoHandlerPanics == Spec => []HandlersNeverPanic
  BY SessionInvariant, PTL DEF SessionInv

\* The marks of a session are about the mailbox it logged in to.
THEOREM MarksAreLocal == Spec => []MarksStayInTheirMailbox
  BY SessionInvariant, PTL DEF SessionInv

\* A deleted message is not found in new/ or cur/ again.
THEOREM NoResurrection == Spec => []ExpungedStaysGone
  BY SessionInvariant, PTL DEF SessionInv

-----------------------------------------------------------------------------
(* What a step may do to the directories *)

\* Three steps touch a directory: a login moving a file, a commit removing one and
\* a delivery.  All others leave them alone.
LEMMA DirSteps ==
  ASSUME [Next]_vars
  PROVE  \/ UNCHANGED dirs
         \/ \E s \in Sessions, f \in Files : OpenMove(s, f) \/ Expunge(s, f)
         \/ \E m \in Maildirs, f \in Files : Deliver(m, f)
<1>1. ASSUME NEW s \in Sessions, Command(s) PROVE UNCHANGED dirs
  BY <1>1 DEF Command, HandleUser, PassWithoutUser, PassTooMany, PassRejected,
     PassStorageError, PassAccepted, HandleApop, HandleCapa, HandleStat, HandleList,
     HandleRetr, HandleNoop, HandleUidl, HandleTop, HandleDele, HandleRset,
     HandleQuit, RefuseCommand, Reply
<1>2. ASSUME NEW s \in Sessions,
             Accept(s) \/ OpenError(s) \/ OpenDone(s) \/ CommitDone(s) \/ Disconnect(s)
               \/ IdleTimeout(s) \/ Unstall(s) \/ Farewell(s)
      PROVE  UNCHANGED dirs
  BY <1>2 DEF Accept, OpenError, OpenDone, CommitDone, Disconnect, IdleTimeout,
     Unstall, Farewell, Leave
<1>3. CASE Crash \/ UNCHANGED vars
  BY <1>3 DEF Crash, vars
<1> QED
  BY <1>1, <1>2, <1>3 DEF Next, SessionStep, Opening, Committing

\* A step that takes mail out of a mailbox is the Expunge of a session that quit.
LEMMA OnlyQuitStep ==
  ASSUME SessionInv, [Next]_vars,
         NEW m \in Maildirs, NEW f \in newDir[m] \cup curDir[m],
         f \notin newDir'[m] \cup curDir'[m]
  PROVE  \E s \in Sessions :
            quit[s] /\ user[s] # NoUser /\ Mailbox(s) = m /\ f \in marked[s]
<1> USE DEF SessionInv, TypeOK, dirs
<1>1. CASE UNCHANGED dirs
  BY <1>1
<1>2. ASSUME NEW s \in Sessions, NEW g \in Files, OpenMove(s, g) PROVE FALSE
  BY <1>2 DEF OpenMove
<1>3. ASSUME NEW s \in Sessions, NEW g \in Files, Expunge(s, g)
      PROVE  quit[s] /\ user[s] # NoUser /\ Mailbox(s) = m /\ f \in marked[s]
  BY <1>3 DEF Expunge, StandsWhereItShould, MarksStayInTheirMailbox, Listing
<1>4. ASSUME NEW b \in Maildirs, NEW g \in Files, Deliver(b, g) PROVE FALSE
  BY <1>4 DEF Deliver
<1> QED BY <1>1, <1>2, <1>3, <1>4, DirSteps

\* Mail leaves a mailbox only by the commit of a session that marked it and quit.
THEOREM MailLeavesByQuitOnly == Spec => OnlyQuitExpunges
<1>1. SessionInv /\ [Next]_vars =>
        [\A m \in Maildirs : \A f \in newDir[m] \cup curDir[m] :
            f \notin newDir'[m] \cup curDir'[m] =>
              \E s \in Sessions : /\ quit[s]
                                  /\ user[s] # NoUser
                                  /\ Mailbox(s) = m
                                  /\ f \in marked[s]]_vars
  BY OnlyQuitStep
<1> QED BY <1>1, SessionInvariant, PTL DEF Spec, OnlyQuitExpunges

\* A step that changes cur/ is that of a session at work on the mailbox.
LEMMA ListingStep ==
  ASSUME SessionInv, [Next]_vars, NEW s \in Sessions, InTransaction(s), Alone(s)
  PROVE  curDir'[Mailbox(s)] = curDir[Mailbox(s)]
<1> USE MaildirOfAssumption DEF SessionInv, TypeOK, dirs, Live, Ended, NoOne
<1>0. user[s] \in Users /\ Mailbox(s) \in Maildirs
  BY DEF InTransaction, HandlersNeverPanic, Mailbox
<1>1. CASE UNCHANGED dirs
  BY <1>1
<1>2. ASSUME NEW t \in Sessions, NEW f \in Files, OpenMove(t, f)
      PROVE  curDir'[Mailbox(s)] = curDir[Mailbox(s)]
  <2>1. t # s
    BY <1>2 DEF OpenMove, StandsWhereItShould, InTransaction
  <2>2. MaildirOf[pending[t]] # Mailbox(s)
    BY <1>2, <2>1 DEF OpenMove, Alone, AtWorkOn
  <2> QED BY <1>0, <1>2, <2>2 DEF OpenMove
<1>3. ASSUME NEW t \in Sessions, NEW f \in Files, Expunge(t, f)
      PROVE  curDir'[Mailbox(s)] = curDir[Mailbox(s)]
  <2>1. t # s
    BY <1>3 DEF Expunge, StandsWhereItShould, InTransaction
  <2>2. user[t] # NoUser
    BY <1>3 DEF Expunge, StandsWhereItShould
  <2>3. Mailbox(t) # Mailbox(s)
    BY <1>3, <2>1, <2>2 DEF Expunge, Alone, AtWorkOn
  <2> QED BY <1>0, <1>3, <2>3 DEF Expunge
<1>4. ASSUME NEW m \in Maildirs, NEW f \in Files, Deliver(m, f)
      PROVE  curDir'[Mailbox(s)] = curDir[Mailbox(s)]
  BY <1>4 DEF Deliver
<1> QED BY <1>1, <1>2, <1>3, <1>4, DirSteps

\* The listing of a session that is alone on its mailbox does not change under it.
THEOREM ListingStability == Spec => ListingStableWhenAlone
<1>1. SessionInv /\ [Next]_vars =>
        [\A s \in Sessions : InTransaction(s) /\ Alone(s) =>
            curDir'[Mailbox(s)] = curDir[Mailbox(s)]]_vars
  BY ListingStep
<1> QED BY <1>1, SessionInvariant, PTL DEF Spec, ListingStableWhenAlone
=============================================================================
