--------------------------- MODULE MaildropProofs ---------------------------
(***************************************************************************)
(* Session implements Maildrop: every step of the server, a timeout, an    *)
(* error or a crash included, is a step of the abstract mailbox or leaves  *)
(* it as it is.                                                            *)
(***************************************************************************)
EXTENDS SessionProofs

\* A number of a listing belongs to one message: DELE n marks at most one.
LEMMA NumbersAreUnique ==
  ASSUME NEW S \in SUBSET Files, NEW f \in S, NEW g \in S,
         NumberIn(S, f) = NumberIn(S, g)
  PROVE  f = g
<1>1. IsFiniteSet(S) /\ S \subseteq Nat
  BY FilesAssumption, FS_Subset
<1>2. ASSUME NEW a \in S, NEW b \in S, a < b PROVE NumberIn(S, a) # NumberIn(S, b)
  <2> DEFINE A == {y \in S : y <= a}
             B == {y \in S : y <= b}
  <2>1. A \subseteq B
    <3> SUFFICES ASSUME NEW y \in S, y <= a PROVE y <= b
      OBVIOUS
    <3> a \in Nat /\ b \in Nat /\ y \in Nat
      BY <1>1
    <3> QED BY <1>2
  <2>2. b \in B /\ b \notin A
    <3> a \in Nat /\ b \in Nat
      BY <1>1
    <3> QED BY <1>2
  <2>3. IsFiniteSet(B)
    BY <1>1, FS_Subset
  <2> HIDE DEF A, B
  <2>4. Cardinality(A) # Cardinality(B)
    BY <2>1, <2>2, <2>3, FS_Subset
  <2> QED BY <2>4 DEF NumberIn, A, B
<1>3. f < g \/ g < f \/ f = g
  BY <1>1
<1> QED BY <1>2, <1>3

\* The abstract state a session contributes.
BoxOf(s) == IF Phase(s) = "shut" THEN NoBox ELSE Mailbox(s)
MarksOf(s) == IF Phase(s) = "shut" THEN {} ELSE marked[s]


\* A session, and every mailbox, is to the abstract specification what it was.
Stays(s) ==
  Phase(s)' = Phase(s) /\ BoxOf(s)' = BoxOf(s) /\ MarksOf(s)' = MarksOf(s)
MailStays ==
  /\ [m \in Maildirs |-> newDir[m] \cup curDir[m]]' =
     [m \in Maildirs |-> newDir[m] \cup curDir[m]]
  /\ expunged' = expunged

\* A step that leaves every session and all mail as they are is a stutter.
LEMMA Stutters ==
  ASSUME MailStays, \A s \in Sessions : Stays(s)
  PROVE  UNCHANGED Drop!vars
  BY DEF MailStays, Stays, Drop!vars, BoxOf, MarksOf

\* Ending some of the sessions is a step of the abstract specification.
LEMMA Ends ==
  ASSUME MailStays, NEW S \in SUBSET Sessions,
         \A s \in S : Phase(s)' = "shut",
         \A s \in Sessions \ S : Stays(s)
  PROVE  Drop!Next
<1>1. Drop!End(S)
  BY DEF MailStays, Stays, Drop!End, BoxOf, MarksOf
<1> QED BY <1>1 DEF Drop!Next

\* A step of session s leaves the other sessions as they are.
LEMMA OthersStay ==
  ASSUME NEW t \in Sessions,
         pc'[t] = pc[t], state'[t] = state[t], user'[t] = user[t], marked'[t] = marked[t]
  PROVE  Stays(t)
  BY DEF Stays, Phase, BoxOf, MarksOf, Mailbox

\* The general case: a session ends or goes on as it was, and no mail moves.
LEMMA EndsOrStays ==
  ASSUME MailStays, NEW s \in Sessions,
         \A t \in Sessions \ {s} : Stays(t),
         Stays(s) \/ Phase(s)' = "shut"
  PROVE  [Drop!Next]_Drop!vars
<1>1. CASE Stays(s)
  BY <1>1, Stutters
<1>2. CASE Phase(s)' = "shut"
  BY <1>2, Ends, {s} \in SUBSET Sessions
<1> QED BY <1>1, <1>2

-----------------------------------------------------------------------------
(* Steps of one session *)

\* Steps that change nothing the abstraction sees but where the session stands: it
\* goes on as it was, or its task ends and it is shut.
LEMMA QuietSteps ==
  ASSUME TypeOK, NEW s \in Sessions, UNCHANGED <<state, user, marked, dirs>>,
         NEW p \in Live \cup Ended, pc' = [pc EXCEPT ![s] = p],
         pc[s] \in Live
  PROVE  [Drop!Next]_Drop!vars
<1> USE DEF TypeOK, dirs
<1>1. \A t \in Sessions \ {s} : Stays(t)
  BY OthersStay
<1>2. MailStays
  BY DEF MailStays
<1>3. CASE p \in Ended
  <2>1. Phase(s)' = "shut"
    BY <1>3 DEF Phase
  <2> QED BY <1>1, <1>2, <2>1, EndsOrStays
<1>4. CASE p \in Live
  <2>1. pc[s] \notin Ended /\ p \notin Ended
    BY <1>4 DEF Live, Ended
  <2>2. Stays(s)
    BY <2>1 DEF Stays, Phase, BoxOf, MarksOf, Mailbox
  <2> QED BY <1>1, <1>2, <2>2, EndsOrStays
<1> QED BY <1>3, <1>4

\* A session with no user is shut, whatever its handler does before the login.
LEMMA ShutSteps ==
  ASSUME NEW s \in Sessions, UNCHANGED <<user, dirs>>, user[s] = NoUser,
         \A t \in Sessions \ {s} :
            pc'[t] = pc[t] /\ state'[t] = state[t] /\ marked'[t] = marked[t]
  PROVE  [Drop!Next]_Drop!vars
<1>1. \A t \in Sessions \ {s} : Stays(t)
  BY OthersStay
<1>2. MailStays
  BY DEF MailStays, dirs
<1>3. Phase(s)' = "shut"
  BY DEF Phase
<1> QED BY <1>1, <1>2, <1>3, EndsOrStays

\* The handlers: USER to CAPA do nothing the abstraction sees, DELE marks at most one
\* message, RSET takes the marks back, QUIT closes the mailbox.
LEMMA CommandSteps ==
  ASSUME SessionInv, NEW s \in Sessions, Command(s)
  PROVE  [Drop!Next]_Drop!vars
<1> USE DEF SessionInv, TypeOK
<1>1. ASSUME NEW u \in Users, HandleUser(s, u) PROVE [Drop!Next]_Drop!vars
  BY <1>1, QuietSteps DEF HandleUser, Receive, Live, ReplyEnds, Ended
<1>2. CASE PassWithoutUser(s) \/ HandleApop(s) \/ HandleCapa(s) \/ HandleStat(s)
           \/ HandleList(s) \/ HandleRetr(s) \/ HandleNoop(s) \/ HandleUidl(s)
           \/ HandleTop(s) \/ RefuseCommand(s)
  <2>1. Reply(s) /\ pc[s] = "ready"
    BY <1>2 DEF PassWithoutUser, HandleApop, HandleCapa, HandleStat, HandleList,
                HandleRetr, HandleNoop, HandleUidl, HandleTop, RefuseCommand, Receive
  <2> QED BY <2>1, QuietSteps DEF Reply, conn, Live, ReplyEnds, Ended
<1>3. CASE PassTooMany(s) \/ PassRejected(s) \/ PassStorageError(s) \/ PassAccepted(s)
  <2>1. state[s] = "Authorization"
    BY <1>3, LoginCommands
       DEF PassTooMany, PassRejected, PassStorageError, PassAccepted, Authenticate, Attempt
  <2>2. user[s] = NoUser
    BY <2>1 DEF StandsWhereItShould
  <2> QED
    BY <1>3, <2>2, ShutSteps
       DEF PassTooMany, PassRejected, PassStorageError, PassAccepted, Authenticate, Attempt
<1>4. ASSUME NEW n \in 1..(Cardinality(Files) + 1), HandleDele(s, n)
      PROVE  [Drop!Next]_Drop!vars
  <2>1. state[s] = "Transaction" /\ pc[s] = "ready"
    BY <1>4, MailCommands DEF HandleDele
  <2>2. user[s] \in Users /\ Mailbox(s) \in Maildirs
    BY <2>1, MaildirOfAssumption DEF HandlersNeverPanic, Mailbox, NoOne
  <2>3. Phase(s) = "open"
    BY <2>1, <2>2, UsersAssumption DEF Phase, Ended
  <2>4. MailStays /\ \A t \in Sessions \ {s} : Stays(t)
    BY <1>4, OthersStay DEF HandleDele, MailStays, dirs
  <2> DEFINE hit == {f \in Listing(s) : NumberIn(Listing(s), f) = n}
  <2>5. PICK r \in ReplyEnds : pc' = [pc EXCEPT ![s] = r]
    BY <1>4 DEF HandleDele
  <2>6. CASE r = "aborted"
    <3>1. Phase(s)' = "shut"
      BY <2>5, <2>6 DEF Phase, Ended
    <3> QED BY <2>4, <3>1, EndsOrStays
  <2>7. CASE r # "aborted" /\ hit = {}
    <3>1. marked' = marked
      BY <1>4, <2>7 DEF HandleDele
    <3> QED BY <1>4, <2>1, <2>5, <3>1, QuietSteps DEF HandleDele, Live, ReplyEnds, Ended
  <2>8. CASE r # "aborted" /\ hit # {}
    <3>1. PICK f \in hit : TRUE
      BY <2>8
    <3>2. Listing(s) \in SUBSET Files
      BY <2>2 DEF Listing
    <3>3. hit = {f}
      BY <3>1, <3>2, NumbersAreUnique
    <3>4. marked' = [marked EXCEPT ![s] = @ \cup {f}]
      BY <1>4, <3>3 DEF HandleDele
    <3>5. Phase(s)' = "open" /\ user' = user
      BY <1>4, <2>1, <2>2, <2>5, <2>8, UsersAssumption DEF HandleDele, Phase, Ended, ReplyEnds
    <3>6. Drop!Mark(s, f)
      BY <2>2, <2>3, <2>4, <3>1, <3>2, <3>4, <3>5
         DEF Drop!Mark, Stays, MailStays, BoxOf, MarksOf, Mailbox, Listing
    <3>7. f \in Files
      BY <3>1, <3>2
    <3> QED BY <3>6, <3>7 DEF Drop!Next
  <2> QED BY <2>6, <2>7, <2>8
<1>5. CASE HandleRset(s)
  <2>1. state[s] = "Transaction" /\ pc[s] = "ready" /\ user[s] # NoUser
    BY <1>5, MailCommands DEF HandleRset, HandlersNeverPanic
  <2>2. MailStays /\ \A t \in Sessions \ {s} : Stays(t)
    BY <1>5, OthersStay DEF HandleRset, MailStays, dirs
  <2>3. PICK r \in ReplyEnds : pc' = [pc EXCEPT ![s] = r]
    BY <1>5 DEF HandleRset
  <2>4. CASE r = "aborted"
    <3>1. Phase(s)' = "shut"
      BY <2>3, <2>4 DEF Phase, Ended
    <3> QED BY <2>2, <3>1, EndsOrStays
  <2>5. CASE r # "aborted"
    <3>1. Phase(s) = "open" /\ Phase(s)' = "open" /\ user' = user
      BY <1>5, <2>1, <2>3, <2>5 DEF HandleRset, Phase, Ended, ReplyEnds
    <3>2. Drop!UnmarkAll(s)
      BY <1>5, <2>2, <3>1
         DEF HandleRset, Drop!UnmarkAll, Stays, MailStays, BoxOf, MarksOf, Mailbox
    <3> QED BY <3>2 DEF Drop!Next
  <2> QED BY <2>4, <2>5
<1>6. CASE HandleQuit(s)
  <2>1. state[s] \in {"Authorization", "Transaction"} /\ pc[s] = "ready"
    BY <1>6 DEF HandleQuit, Receive, Valid, States
  <2>2. MailStays /\ \A t \in Sessions \ {s} : Stays(t)
    BY <1>6, OthersStay DEF HandleQuit, MailStays, dirs
  <2>3. PICK r \in ReplyEnds :
          pc' = [pc EXCEPT ![s] = IF r = "ready" THEN AfterLoop("Update") ELSE r]
    BY <1>6 DEF HandleQuit
  <2>4. CASE r = "aborted" \/ user[s] = NoUser
    <3>1. Phase(s)' = "shut"
      BY <1>6, <2>3, <2>4 DEF HandleQuit, Phase, Ended
    <3> QED BY <2>2, <3>1, EndsOrStays
  <2>5. CASE r # "aborted" /\ user[s] # NoUser
    <3>1. Phase(s) = "open"
      BY <2>1, <2>5 DEF Phase, Ended
    <3>2. Phase(s)' = "closing" /\ user' = user /\ marked' = marked
      BY <1>6, <2>3, <2>5 DEF HandleQuit, Phase, Ended, ReplyEnds, AfterLoop
    <3>3. Drop!Close(s)
      BY <2>2, <3>1, <3>2 DEF Drop!Close, Stays, MailStays, BoxOf, MarksOf, Mailbox
    <3> QED BY <3>3 DEF Drop!Next
  <2> QED BY <2>4, <2>5
<1> QED BY <1>1, <1>2, <1>3, <1>4, <1>5, <1>6, Command(s) DEF Command

\* The login's loop over new/: the files it moves stay in the mailbox.
LEMMA OpeningSteps ==
  ASSUME SessionInv, NEW s \in Sessions, Opening(s)
  PROVE  [Drop!Next]_Drop!vars
<1> USE DEF SessionInv, TypeOK
<1>0. pc[s] = "opening" /\ user[s] = NoUser /\ pending[s] \in Users
      /\ state[s] = "Authorization" /\ MaildirOf[pending[s]] \in Maildirs
  BY MaildirOfAssumption
     DEF Opening, OpenMove, OpenError, OpenDone, StandsWhereItShould, NoOne
<1>1. ASSUME NEW f \in Files, OpenMove(s, f) PROVE [Drop!Next]_Drop!vars
  <2>1. MailStays
    BY <1>0, <1>1 DEF OpenMove, MailStays
  <2>2. \A t \in Sessions : Stays(t)
    BY <1>1, OthersStay DEF OpenMove, conn
  <2> QED BY <2>1, <2>2, Stutters
<1>2. CASE OpenError(s)
  BY <1>0, <1>2, ShutSteps DEF OpenError, conn
<1>3. CASE OpenDone(s)
  <2>1. MailStays /\ \A t \in Sessions \ {s} : Stays(t)
    BY <1>3, OthersStay DEF OpenDone, MailStays, dirs
  <2>2. PICK r \in ReplyEnds : pc' = [pc EXCEPT ![s] = r]
    BY <1>3 DEF OpenDone
  <2>3. CASE r = "aborted"
    <3>1. Phase(s)' = "shut"
      BY <2>2, <2>3 DEF Phase, Ended
    <3> QED BY <2>1, <3>1, EndsOrStays
  <2>4. CASE r # "aborted"
    <3> DEFINE m == MaildirOf[pending[s]]
    <3>1. Phase(s) = "shut" /\ MarksOf(s) = {}
      BY <1>0 DEF Phase, MarksOf
    <3>2. Phase(s)' = "open" /\ BoxOf(s)' = m
      BY <1>0, <1>3, <2>2, <2>4, UsersAssumption
         DEF OpenDone, Phase, Ended, ReplyEnds, BoxOf, Mailbox
    <3>3. MarksOf(s)' = {}
      BY <1>0, <1>3 DEF OpenDone, MarksOf, StandsWhereItShould
    <3>4. Drop!Open(s, m)
      BY <2>1, <3>1, <3>2, <3>3 DEF Drop!Open, Stays, MailStays, BoxOf, MarksOf
    <3> QED BY <1>0, <3>4 DEF Drop!Next
  <2> QED BY <2>3, <2>4
<1> QED BY <1>1, <1>2, <1>3, Opening(s) DEF Opening

\* The commit: a removal that fails is a step the abstraction does not see.
LEMMA CommittingSteps ==
  ASSUME SessionInv, NEW s \in Sessions, Committing(s)
  PROVE  [Drop!Next]_Drop!vars
<1> USE DEF SessionInv, TypeOK
<1>0. pc[s] = "committing" /\ state[s] = "Update" /\ todo[s] \subseteq marked[s]
  BY DEF Committing, Expunge, CommitDone, StandsWhereItShould
<1>1. ASSUME NEW f \in Files, Expunge(s, f) PROVE [Drop!Next]_Drop!vars
  <2>1. f \in marked[s] /\ user[s] # NoUser
    BY <1>0, <1>1 DEF Expunge, StandsWhereItShould
  <2>2. Mailbox(s) \in Maildirs
    BY <2>1, MaildirOfAssumption DEF Mailbox, NoOne
  <2>3. \A t \in Sessions : Stays(t)
    BY <1>1, OthersStay DEF Expunge, conn
  <2>4. CASE UNCHANGED <<curDir, expunged>>
    <3>1. MailStays
      BY <1>1, <2>4 DEF Expunge, MailStays
    <3> QED BY <2>3, <3>1, Stutters
  <2>5. CASE /\ f \in Listing(s)
             /\ curDir' = [curDir EXCEPT ![Mailbox(s)] = @ \ {f}]
             /\ expunged' = [expunged EXCEPT ![Mailbox(s)] = @ \cup {f}]
    <3>1. Phase(s) = "closing"
      BY <1>0, <2>1 DEF Phase, Ended
    <3>2. newDir' = newDir /\ f \notin newDir[Mailbox(s)]
      BY <1>1, <2>2, <2>5 DEF Expunge, InOnePlace, Listing
    <3>3. [m \in Maildirs |-> newDir[m] \cup curDir[m]]' =
            [[m \in Maildirs |-> newDir[m] \cup curDir[m]]
               EXCEPT ![Mailbox(s)] = @ \ {f}]
      BY <2>2, <2>5, <3>2
    <3>4. Drop!Remove(s, f)
      BY <2>1, <2>2, <2>3, <2>5, <3>1, <3>3
         DEF Drop!Remove, Stays, BoxOf, MarksOf, Listing
    <3> QED BY <3>4 DEF Drop!Next
  <2> QED BY <1>1, <2>4, <2>5 DEF Expunge
<1>2. CASE CommitDone(s)
  <2>1. MailStays /\ \A t \in Sessions \ {s} : Stays(t)
    BY <1>2, OthersStay DEF CommitDone, MailStays, dirs
  <2>2. Phase(s)' = "shut"
    BY <1>2 DEF CommitDone, Phase, Ended
  <2> QED BY <2>1, <2>2, EndsOrStays
<1> QED BY <1>1, <1>2, Committing(s) DEF Committing

\* Accepting a connection, and the ends of a session outside its handlers.
LEMMA OtherSteps ==
  ASSUME SessionInv, NEW s \in Sessions,
         Accept(s) \/ Disconnect(s) \/ IdleTimeout(s) \/ Unstall(s) \/ Farewell(s)
  PROVE  [Drop!Next]_Drop!vars
<1> USE DEF SessionInv, TypeOK
<1>1. CASE Accept(s)
  <2>1. MailStays /\ \A t \in Sessions \ {s} : Stays(t)
    BY <1>1, OthersStay DEF Accept, MailStays, dirs
  <2>2. Phase(s)' = "shut"
    BY <1>1 DEF Accept, Phase
  <2> QED BY <2>1, <2>2, EndsOrStays
<1>2. CASE Disconnect(s) \/ IdleTimeout(s) \/ Unstall(s) \/ Farewell(s)
  <2>1. pc[s] \in Live /\ UNCHANGED <<state, user, marked, dirs>>
    BY <1>2 DEF Disconnect, IdleTimeout, Unstall, Farewell, Leave, Live, conn
  <2>2. \E p \in Live \cup Ended : pc' = [pc EXCEPT ![s] = p]
    BY <1>2
       DEF Disconnect, IdleTimeout, Unstall, Farewell, Leave, AfterLoop, Live, Ended
  <2> QED BY <2>1, <2>2, QuietSteps
<1> QED BY <1>1, <1>2

\* A delivery into new/ is a delivery to the mailbox.
LEMMA DeliverSteps ==
  ASSUME SessionInv, NEW b \in Maildirs, NEW f \in Files, Deliver(b, f)
  PROVE  [Drop!Next]_Drop!vars
<1> USE DEF SessionInv, TypeOK
<1>1. \A t \in Sessions : Stays(t)
  BY OthersStay DEF Deliver, conn
<1>2. [m \in Maildirs |-> newDir[m] \cup curDir[m]]' =
        [[m \in Maildirs |-> newDir[m] \cup curDir[m]] EXCEPT ![b] = @ \cup {f}]
  BY DEF Deliver
<1>3. Drop!Deliver(b, f)
  BY <1>1, <1>2 DEF Deliver, Drop!Deliver, Stays, BoxOf, MarksOf
<1> QED BY <1>3 DEF Drop!Next

\* A crash ends every live session.
LEMMA CrashSteps ==
  ASSUME SessionInv, Crash
  PROVE  [Drop!Next]_Drop!vars
<1> USE DEF SessionInv, TypeOK
<1> DEFINE S == {s \in Sessions : pc[s] \in Live}
<1>1. MailStays
  BY DEF Crash, MailStays, dirs
<1>2. \A s \in S : Phase(s)' = "shut"
  BY DEF Crash, Phase, Ended
<1>3. \A s \in Sessions \ S : Stays(s)
  BY OthersStay DEF Crash, conn
<1> QED BY <1>1, <1>2, <1>3, Ends, S \in SUBSET Sessions

-----------------------------------------------------------------------------
\* The initial state maps to the initial state of Maildrop.
LEMMA InitMaps == Init => Drop!Init
  BY DEF Init, Drop!Init, Phase, Ended

\* Every step maps to a step of Maildrop or a stutter.
LEMMA NextMaps == SessionInv /\ [Next]_vars => [Drop!Next]_Drop!vars
<1> SUFFICES ASSUME SessionInv, [Next]_vars PROVE [Drop!Next]_Drop!vars
  OBVIOUS
<1>1. ASSUME NEW s \in Sessions, SessionStep(s) PROVE [Drop!Next]_Drop!vars
  BY <1>1, CommandSteps, OpeningSteps, CommittingSteps, OtherSteps DEF SessionStep
<1>2. CASE UNCHANGED vars
  <2>1. MailStays /\ \A t \in Sessions : Stays(t)
    BY <1>2, OthersStay DEF vars, conn, dirs, MailStays
  <2> QED BY <2>1, Stutters
<1> QED BY <1>1, <1>2, DeliverSteps, CrashSteps DEF Next

\* The server keeps the promise: whatever times out, fails, is cut off or crashes,
\* what happens to mail is what Maildrop allows.
THEOREM SessionImplementsMaildrop == Spec => ImplementsMaildrop
  BY InitMaps, NextMaps, SessionInvariant, PTL DEF Spec, Drop!Spec, ImplementsMaildrop
=============================================================================
