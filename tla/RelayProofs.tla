---------------------------- MODULE RelayProofs ----------------------------
(***************************************************************************)
(* MailForward implements Relay: every step of the workers, of the queues, *)
(* of a POP3 session and of a crash is a step of the abstract relay, or    *)
(* leaves it as it is.                                                     *)
(***************************************************************************)
EXTENDS MailForwardProofs

PlaceOf(f) == IF f \in curDir THEN "read" ELSE IF f \in newDir THEN "unread"
              ELSE IF f \in delivered THEN "gone" ELSE "away"
InHand == {msg[w] : w \in {v \in Workers : step[v] \in Working}}
Server == {f \in Files : copies[f] > 0}

\* A message of the maildir has arrived and is in one of its directories.
Placed ==
  /\ newDir \cup curDir \subseteq delivered
  /\ newDir \cap curDir = {}

RelayInv == TypeOK /\ Stored /\ Placed

\* Mail is moved from one directory to the other, never copied.
LEMMA PlacedNext == RelayInv /\ [Next]_vars => Placed'
<1> SUFFICES ASSUME RelayInv, [Next]_vars PROVE Placed'
  OBVIOUS
<1> USE DEF dirs, queues, work, history, Placed, RelayInv
<1>1. CASE UNCHANGED <<newDir, curDir, delivered>>
  BY <1>1
<1>2. ASSUME NEW w \in Workers, Forward(w) PROVE Placed'
  BY <1>2 DEF Forward, Connect, AppendMessage, Logout, File
<1>3. ASSUME NEW f \in Files, Deliver(f) \/ OpenMove(f) \/ Expunge(f) PROVE Placed'
  BY <1>3 DEF Deliver, OpenMove, Expunge
<1> QED
  BY <1>1, <1>2, <1>3
     DEF Next, vars, StartScan, StartWatch, Send, Receive, Visit, Read, ScanEnds, Crash

\* RelayInv is an invariant.
LEMMA RelayInvariant == Spec => []RelayInv
<1>1. Init => Stored /\ Placed
  BY DEF Init, Stored, Placed, Workers, Working, Past
<1> QED BY <1>1, TypeInit, TypeNext, StoredNext, PlacedNext, PTL DEF Spec, RelayInv

-----------------------------------------------------------------------------
(* The steps, by what they do to the three things Relay tells apart *)

\* Mail stays where it is.
PlacesStay == UNCHANGED <<newDir, curDir, delivered>>

\* No worker takes a message up or lets go of one.
KeepsHand == \A w \in Workers : (step'[w] \in Working <=> step[w] \in Working)
                             /\ (step[w] \in Working => msg'[w] = msg[w])

\* Where nothing of it changes, Relay does not move.
LEMMA Stutters ==
  ASSUME PlacesStay, UNCHANGED copies, KeepsHand
  PROVE  UNCHANGED Promise!vars
<1>1. InHand' = InHand
  BY DEF KeepsHand, InHand
<1>2. [f \in Files |-> PlaceOf(f)]' = [f \in Files |-> PlaceOf(f)] /\ Server' = Server
  BY DEF PlacesStay, PlaceOf, Server
<1> QED BY <1>1, <1>2 DEF Promise!vars, InHand, PlaceOf, Server

\* A worker that lets go of its message leaves the others theirs.
LEMMA HandAfterGiveUp ==
  ASSUME TypeOK, NEW w \in Workers, step[w] \in Working, GiveUp(w)
  PROVE  InHand' \in {InHand, InHand \ {msg[w]}}
<1> USE DEF TypeOK
<1>1. \A v \in Workers \ {w} : step'[v] = step[v] /\ msg'[v] = msg[v]
  BY DEF GiveUp, Goto
<1>2. step'[w] \notin Working
  BY DEF GiveUp, Goto, Working
<1>3. InHand' = {msg[v] : v \in {u \in Workers \ {w} : step[u] \in Working}}
  BY <1>1, <1>2 DEF InHand
<1>4. InHand = InHand' \cup {msg[w]}
  BY <1>3 DEF InHand
<1> QED BY <1>4

\* A worker that moves on keeps its message.
LEMMA HandAfterGoto ==
  ASSUME TypeOK, NEW w \in Workers, step[w] \in Working, NEW where \in Working,
         Goto(w, where), UNCHANGED msg
  PROVE  KeepsHand /\ InHand' = InHand
<1>1. KeepsHand
  BY DEF TypeOK, Goto, KeepsHand
<1> QED BY <1>1 DEF KeepsHand, InHand

\* To drop messages is a step of Relay.
LEMMA Drops ==
  ASSUME PlacesStay, UNCHANGED copies, NEW F \in SUBSET Files, InHand' = InHand \ F
  PROVE  Promise!Next
<1>1. [f \in Files |-> PlaceOf(f)]' = [f \in Files |-> PlaceOf(f)] /\ Server' = Server
  BY DEF PlacesStay, PlaceOf, Server
<1>2. Promise!Drop(F)
  BY <1>1 DEF Promise!Drop, InHand, PlaceOf, Server
<1> QED BY <1>2 DEF Promise!Next

\* A worker that gives up, before its append or after it, drops its message or leaves
\* it in the hand of the other.
LEMMA GiveUpDrops ==
  ASSUME TypeOK, NEW w \in Workers, step[w] \in Working, GiveUp(w),
         PlacesStay, UNCHANGED copies
  PROVE  Promise!Next
<1>1. msg[w] \in Files
  BY ForwardConstants DEF TypeOK
<1>2. InHand' = InHand \ {} \/ InHand' = InHand \ {msg[w]}
  BY HandAfterGiveUp
<1> QED BY <1>1, <1>2, Drops, {} \in SUBSET Files, {msg[w]} \in SUBSET Files

\* To take up an unread message is a step of Relay.
LEMMA ReadSteps ==
  ASSUME RelayInv, NEW w \in Workers, NEW f \in Files, step[w] = "idle", Read(w, f)
  PROVE  [Promise!Next]_Promise!vars
<1> USE DEF RelayInv, TypeOK, Placed, Read, dirs
<1>1. PlacesStay /\ UNCHANGED copies
  BY DEF PlacesStay
<1>2. CASE UNCHANGED <<step, msg>>
  BY <1>1, <1>2, Stutters DEF KeepsHand
<1>3. CASE f \in newDir /\ Goto(w, "connecting") /\ msg' = [msg EXCEPT ![w] = f]
  <2>1. \A v \in Workers \ {w} : step'[v] = step[v] /\ msg'[v] = msg[v]
    BY <1>3 DEF Goto
  <2>2. step'[w] \in Working /\ msg'[w] = f /\ step[w] \notin Working
    BY <1>3 DEF Goto, Working
  <2>3. InHand' = InHand \cup {f}
    BY <2>1, <2>2 DEF InHand
  <2>4. PlaceOf(f) = "unread"
    BY <1>3 DEF PlaceOf
  <2>5. [g \in Files |-> PlaceOf(g)]' = [g \in Files |-> PlaceOf(g)] /\ Server' = Server
    BY <1>1 DEF PlacesStay, PlaceOf, Server
  <2>6. Promise!TakeUp(f)
    BY <2>3, <2>4, <2>5 DEF Promise!TakeUp, InHand, PlaceOf, Server
  <2> QED BY <2>6 DEF Promise!Next
<1> QED BY <1>2, <1>3

\* The append stores a message in hand, or fails, and then lets it go.
LEMMA AppendSteps ==
  ASSUME RelayInv, NEW w \in Workers, AppendMessage(w)
  PROVE  [Promise!Next]_Promise!vars
<1> USE DEF RelayInv, TypeOK
<1>1. step[w] \in Working /\ PlacesStay
  BY DEF AppendMessage, Working, PlacesStay, dirs
<1>2. PICK f \in InHand : f = msg[w] /\ f \in Files
  BY <1>1, ForwardConstants DEF InHand
<1>3. CASE copies' = [copies EXCEPT ![f] = @ + 1]
  <2>1. Server' = Server \cup {f}
    BY <1>2, <1>3 DEF Server
  <2>2. InHand' \in {InHand, InHand \ {f}}
    <3>1. GiveUp(w) \/ (Goto(w, "loggingOut") /\ UNCHANGED msg)
      BY DEF AppendMessage
    <3> QED BY <1>1, <1>2, <3>1, HandAfterGiveUp, HandAfterGoto DEF Working
  <2>3. [g \in Files |-> PlaceOf(g)]' = [g \in Files |-> PlaceOf(g)]
    BY <1>1 DEF PlacesStay, PlaceOf
  <2>4. Promise!Store(f)
    BY <1>2, <2>1, <2>2, <2>3 DEF Promise!Store, Promise!MayDrop, InHand, PlaceOf, Server
  <2> QED BY <1>2, <2>4 DEF Promise!Next
<1>4. CASE GiveUp(w) /\ UNCHANGED copies
  BY <1>1, <1>4, GiveUpDrops
<1> QED BY <1>2, <1>3, <1>4 DEF AppendMessage

\* A message moves: what Relay sees of the maildir changes for it alone.
LEMMA Moved ==
  ASSUME Placed, NEW f \in Files, NEW to,
         \A g \in Files \ {f} : /\ g \in newDir' <=> g \in newDir
                                /\ g \in curDir' <=> g \in curDir
                                /\ g \in delivered' <=> g \in delivered,
         PlaceOf(f)' = to
  PROVE  Promise!Move(f, PlaceOf(f), to)
<1>1. \A g \in Files \ {f} : PlaceOf(g)' = PlaceOf(g)
  BY DEF PlaceOf
<1>2. [g \in Files |-> PlaceOf(g)]' = [[g \in Files |-> PlaceOf(g)] EXCEPT ![f] = to]
  BY <1>1
<1> QED BY <1>2 DEF Promise!Move, PlaceOf

\* What is filed is in hand and on the server.
LEMMA FileSteps ==
  ASSUME RelayInv, NEW w \in Workers, File(w)
  PROVE  [Promise!Next]_Promise!vars
<1> USE DEF RelayInv, TypeOK, Placed
<1>1. step[w] \in Working /\ GiveUp(w) /\ UNCHANGED <<copies, delivered>>
  BY DEF File, Working
<1>2. PICK f \in InHand : f = msg[w] /\ f \in Files
  BY <1>1, ForwardConstants DEF InHand
<1>3. CASE UNCHANGED dirs
  BY <1>1, <1>3, GiveUpDrops DEF PlacesStay, dirs
<1>4. CASE f \in newDir /\ newDir' = newDir \ {f}
           /\ (UNCHANGED curDir \/ curDir' = curDir \cup {f})
  <2>1. f \in Server /\ Server' = Server
    BY <1>1, <1>2 DEF Server, Stored, File, Past
  <2>2. InHand' \in {InHand, InHand \ {f}}
    BY <1>1, <1>2, HandAfterGiveUp
  <2>3. PlaceOf(f) = "unread" /\ PlaceOf(f)' \in {"read", "gone"}
    BY <1>1, <1>2, <1>4 DEF PlaceOf
  <2>4. Promise!Move(f, "unread", "read") \/ Promise!Move(f, "unread", "gone")
    BY <1>1, <1>2, <1>4, <2>3, Moved
  <2>5. Promise!PutAway(f)
    BY <1>2, <2>1, <2>2, <2>4 DEF Promise!PutAway, Promise!MayDrop, InHand, Server
  <2> QED BY <1>2, <2>5 DEF Promise!Next
<1> QED BY <1>2, <1>3, <1>4 DEF File, dirs

\* The other steps of a worker keep its message or let it go.
LEMMA WorkerSteps ==
  ASSUME RelayInv, NEW w \in Workers, Forward(w)
  PROVE  [Promise!Next]_Promise!vars
<1>1. CASE Connect(w) \/ Logout(w)
  <2>1. step[w] \in Working /\ PlacesStay /\ UNCHANGED copies
    BY <1>1 DEF Connect, Logout, Working, PlacesStay, dirs, history
  <2>2. GiveUp(w) \/ (UNCHANGED msg /\ \E where \in Working : Goto(w, where))
    BY <1>1 DEF Connect, Logout, Working
  <2> QED BY <2>1, <2>2, GiveUpDrops, HandAfterGoto, Stutters DEF RelayInv
<1> QED BY <1>1, AppendSteps, FileSteps DEF Forward

\* Mail arrives, and is fetched and deleted by POP3 sessions.
LEMMA MailSteps ==
  ASSUME RelayInv, NEW f \in Files, Deliver(f) \/ OpenMove(f) \/ Expunge(f)
  PROVE  [Promise!Next]_Promise!vars
<1> USE DEF RelayInv, TypeOK, Placed
<1>1. InHand' = InHand /\ Server' = Server
  BY DEF Deliver, OpenMove, Expunge, InHand, Server, work
<1>2. CASE Deliver(f)
  <2>1. PlaceOf(f) = "away" /\ PlaceOf(f)' = "unread"
    BY <1>2 DEF Deliver, PlaceOf
  <2>2. Promise!Move(f, PlaceOf(f), "unread")
    BY <1>2, <2>1, Moved DEF Deliver
  <2>3. Promise!Arrive(f)
    BY <1>1, <2>1, <2>2 DEF Promise!Arrive, InHand, Server
  <2> QED BY <2>3 DEF Promise!Next
<1>3. CASE OpenMove(f)
  <2>1. PlaceOf(f) = "unread" /\ PlaceOf(f)' = "read"
    BY <1>3 DEF OpenMove, PlaceOf
  <2>2. Promise!Fetch(f)
    BY <1>1, <1>3, <2>1, Moved DEF OpenMove, Promise!Fetch, InHand, Server
  <2> QED BY <2>2 DEF Promise!Next
<1>4. CASE Expunge(f)
  <2>1. PlaceOf(f) = "read" /\ PlaceOf(f)' = "gone"
    BY <1>4 DEF Expunge, PlaceOf
  <2>2. Promise!Delete(f)
    BY <1>1, <1>4, <2>1, Moved DEF Expunge, Promise!Delete, InHand, Server
  <2> QED BY <2>2 DEF Promise!Next
<1> QED BY <1>2, <1>3, <1>4

\* A crash drops whatever is in hand.
LEMMA CrashSteps == RelayInv /\ Crash => Promise!Next
<1> SUFFICES ASSUME RelayInv, Crash PROVE Promise!Next
  OBVIOUS
<1>1. InHand' = {}
  BY DEF Crash, InHand, Working
<1>2. InHand \in SUBSET Files
  BY ForwardConstants DEF RelayInv, TypeOK, InHand
<1>3. PlacesStay /\ UNCHANGED copies
  BY DEF Crash, PlacesStay, dirs
<1>4. InHand' = InHand \ InHand
  BY <1>1
<1> HIDE DEF InHand
<1> QED BY <1>2, <1>3, <1>4, Drops

-----------------------------------------------------------------------------
\* The initial states map to the initial state of Relay.
LEMMA InitMaps == Init => Promise!Init
  BY DEF Init, Promise!Init, Workers, Working

\* Every step maps to a step of Relay or a stutter.
LEMMA NextMaps == RelayInv /\ [Next]_vars => [Promise!Next]_Promise!vars
<1> SUFFICES ASSUME RelayInv, [Next]_vars PROVE [Promise!Next]_Promise!vars
  OBVIOUS
<1> USE DEF work, queues, dirs, history, PlacesStay
<1>1. CASE StartScan \/ StartWatch \/ Send \/ ScanEnds \/ UNCHANGED vars
  <2>1. PlacesStay /\ UNCHANGED <<copies, msg>>
    BY <1>1 DEF StartScan, StartWatch, Send, ScanEnds, vars
  <2>2. \A w \in Workers : step'[w] \in Working <=> step[w] \in Working
    BY <1>1
       DEF StartScan, StartWatch, Send, ScanEnds, vars, Goto, RelayInv, TypeOK, Workers, Working
  <2> QED BY <2>1, <2>2, Stutters DEF KeepsHand
<1>2. CASE Receive
  <2>1. Head(channel) \in Files
    BY <1>2 DEF Receive, RelayInv, TypeOK
  <2> QED BY <1>2, <2>1, ReadSteps DEF Receive, Workers
<1>3. ASSUME NEW f \in Files, Visit(f) PROVE [Promise!Next]_Promise!vars
  BY <1>3, ReadSteps DEF Visit, Workers
<1> QED BY <1>1, <1>2, <1>3, WorkerSteps, MailSteps, CrashSteps DEF Next

\* Forwarding keeps its promise: for any number of messages, whatever fails, dies or is
\* moved away in between, what happens to mail is what Relay allows.
THEOREM ForwardImplementsRelay == Spec => ImplementsRelay
  BY InitMaps, NextMaps, RelayInvariant, PTL DEF Spec, Promise!Spec, ImplementsRelay
=============================================================================
