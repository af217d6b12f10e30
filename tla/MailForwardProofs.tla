-------------------------- MODULE MailForwardProofs --------------------------
(***************************************************************************)
(* Forwarding loses no mail, and stores a message twice only after a       *)
(* failure, for any number of messages, crashes and places in the channel. *)
(*                                                                         *)
(* What makes the two properties inductive is where a message can be while *)
(* a worker is at it: past the append it has been stored, and before the   *)
(* append it has not, but for an earlier failure.  The second needs that   *)
(* no two workers are at work at a time, which the caller grants (inTurn). *)
(***************************************************************************)
EXTENDS MailForward, TLAPS

Past == {"loggingOut", "filing"}
Before == {"connecting", "appending"}

\* A worker past the append has its message stored; whatever it handles has arrived.
Stored ==
  /\ newDir \subseteq delivered
  /\ \A w \in Workers : step[w] \in Working => msg[w] \in delivered
  /\ \A w \in Workers : step[w] \in Past => copies[msg[w]] > 0
  /\ \A f \in Files : copies[f] > 0 => f \in delivered

\* The watch does not run beside the scan.
InTurn == step["watch"] # "off" => step["scan"] = "returned"

\* With workers that take turns a message of new/ is not stored yet, or at a worker
\* past the append, or one with which something went wrong.
Apart ==
  /\ \A f \in Files : copies[f] > 1 => f \in unfiled
  /\ \A f \in newDir : copies[f] > 0 /\ f \notin unfiled =>
       \E w \in Workers : step[w] \in Past /\ msg[w] = f
  /\ \A w \in Workers : step[w] \in Before /\ copies[msg[w]] > 0 => msg[w] \in unfiled

-----------------------------------------------------------------------------
\* The workers start without a message.
LEMMA TypeInit == Init => TypeOK
BY ForwardConstants DEF Init, TypeOK, Workers, Steps, Working, Settings

\* Events about files are appended to the kernel's queue or dropped.
LEMMA RaiseType ==
  ASSUME TypeOK, NEW s \in Seq(Files), Raise(s)
  PROVE  events' \in Seq(Files)
BY DEF TypeOK, Raise

\* A worker that takes up f keeps its types and those of what it writes.
LEMMA ReadType ==
  ASSUME TypeOK, NEW w \in Workers, NEW f \in Files, step[w] = "idle", Read(w, f)
  PROVE  /\ step' \in [Workers -> Steps]
         /\ msg' \in [Workers -> Files \cup {NoFile}]
         /\ \A v \in Workers : step'[v] \in Working <=> msg'[v] # NoFile
         /\ tried' \subseteq Files
         /\ UNCHANGED <<config, events, dirs, copies, delivered, popped, expunged, unfiled, crashes>>
<1> USE ForwardConstants DEF TypeOK, Read, Goto
<1>1. CASE UNCHANGED <<step, msg>>
  BY <1>1
<1>2. CASE step' = [step EXCEPT ![w] = "connecting"] /\ msg' = [msg EXCEPT ![w] = f]
  BY <1>2 DEF Steps, Working
<1> QED BY <1>1, <1>2

Moves(w) ==
  \/ GiveUp(w)
  \/ UNCHANGED msg /\ \E where \in Working : Goto(w, where)

\* A step of a worker moves it on with its message, or back to its loop without.
LEMMA MoveType ==
  ASSUME TypeOK, NEW w \in Workers, step[w] \in Working,
         Moves(w)
  PROVE  /\ step' \in [Workers -> Steps]
         /\ msg' \in [Workers -> Files \cup {NoFile}]
         /\ \A v \in Workers : step'[v] \in Working <=> msg'[v] # NoFile
         /\ msg[w] \in Files
<1> USE ForwardConstants DEF TypeOK, Goto, GiveUp
<1>1. CASE GiveUp(w)
  BY <1>1 DEF Steps, Working
<1>2. CASE UNCHANGED msg /\ \E where \in Working : Goto(w, where)
  BY <1>2 DEF Steps
<1> QED BY <1>1, <1>2 DEF Moves

\* A step of a worker, of a queue or of the mail keeps every type.
LEMMA TypeNext == TypeOK /\ [Next]_vars => TypeOK'
<1> SUFFICES ASSUME TypeOK, [Next]_vars PROVE TypeOK'
  OBVIOUS
<1> USE ForwardConstants DEF dirs, queues, work, history
<1>1. CASE StartScan
  BY <1>1 DEF TypeOK, StartScan, Goto, Workers, Steps, Working
<1>2. CASE StartWatch
  <2>1. PICK where \in {"returned", "idle"} : Goto("watch", where)
    BY <1>2 DEF StartWatch
  <2> QED BY <1>2, <2>1 DEF TypeOK, StartWatch, Goto, Workers, Steps, Working
<1>3. CASE Send
  <2>1. events' \in Seq(Files) /\ Head(events) \in Files
    BY <1>3 DEF TypeOK, Send
  <2>2. channel' \in Seq(Files) /\ Len(channel') = Len(channel) + 1 /\ Len(channel) \in Nat
    BY <1>3, <2>1 DEF TypeOK, Send
  <2>3. Len(channel') <= ChannelCap
    BY <1>3, <2>2 DEF Send
  <2> QED BY <1>3, <2>1, <2>2, <2>3 DEF TypeOK, Send
<1>4. CASE Receive
  <2>1. Head(channel) \in Files /\ channel' \in Seq(Files) /\ Len(channel') <= ChannelCap
    BY <1>4 DEF TypeOK, Receive
  <2>2. "watch" \in Workers
    BY DEF Workers
  <2> QED BY <1>4, <2>1, <2>2, ReadType DEF TypeOK, Receive
<1>5. CASE ScanEnds
  BY <1>5 DEF TypeOK, ScanEnds, Goto, Workers, Steps, Working
<1>6. ASSUME NEW w \in Workers, Connect(w) PROVE TypeOK'
  <2>1. step[w] \in Working /\ Moves(w)
    BY <1>6 DEF Connect, Working, Moves
  <2> QED BY <1>6, <2>1, MoveType DEF TypeOK, Connect
<1>7. ASSUME NEW w \in Workers, AppendMessage(w) PROVE TypeOK'
  <2>1. step[w] \in Working /\ Moves(w)
    BY <1>7 DEF AppendMessage, Working, Moves
  <2>2. msg[w] \in Files
    BY <2>1, MoveType
  <2>3. unfiled' \subseteq Files
    BY <1>7, <2>2 DEF TypeOK, AppendMessage
  <2>4. copies' \in [Files -> Nat]
    <3>1. copies' = copies \/ copies' = [copies EXCEPT ![msg[w]] = @ + 1]
      BY <1>7 DEF AppendMessage
    <3>2. copies \in [Files -> Nat] /\ copies[msg[w]] + 1 \in Nat
      BY <2>2 DEF TypeOK
    <3> QED BY <3>1, <3>2
  <2> QED BY <1>7, <2>1, <2>3, <2>4, MoveType DEF TypeOK, AppendMessage
<1>8. ASSUME NEW w \in Workers, Logout(w) PROVE TypeOK'
  <2>1. step[w] \in Working /\ Moves(w)
    BY <1>8 DEF Logout, Working, Moves
  <2>2. msg[w] \in Files
    BY <2>1, MoveType
  <2> QED BY <1>8, <2>1, <2>2, MoveType DEF TypeOK, Logout
<1>9. ASSUME NEW w \in Workers, File(w) PROVE TypeOK'
  <2>1. step[w] \in Working /\ Moves(w)
    BY <1>9 DEF File, Working, Moves
  <2>2. msg[w] \in Files
    BY <2>1, MoveType
  <2>3. events' \in Seq(Files)
    <3>1. <<msg[w]>> \in Seq(Files)
      BY <2>2
    <3> QED BY <1>9, <3>1, RaiseType DEF File, TypeOK
  <2>4. newDir' \subseteq Files /\ curDir' \subseteq Files /\ unfiled' \subseteq Files
    BY <1>9, <2>2 DEF TypeOK, File
  <2> QED BY <1>9, <2>1, <2>3, <2>4, MoveType DEF TypeOK, File
<1>10. ASSUME NEW f \in Files, Visit(f) PROVE TypeOK'
  <2>1. "scan" \in Workers
    BY DEF Workers
  <2> QED BY <1>10, <2>1, ReadType DEF TypeOK, Visit
<1>11. ASSUME NEW f \in Files, Deliver(f) PROVE TypeOK'
  <2>1. <<f>> \in Seq(Files) /\ <<f, f>> \in Seq(Files)
    OBVIOUS
  <2>2. events' \in Seq(Files)
    BY <1>11, <2>1, RaiseType DEF Deliver
  <2> QED BY <1>11, <2>2 DEF TypeOK, Deliver
<1>12. ASSUME NEW f \in Files, OpenMove(f) PROVE TypeOK'
  <2>1. <<f>> \in Seq(Files)
    OBVIOUS
  <2>2. events' \in Seq(Files)
    BY <1>12, <2>1, RaiseType DEF OpenMove
  <2> QED BY <1>12, <2>2 DEF TypeOK, OpenMove
<1>13. ASSUME NEW f \in Files, Expunge(f) PROVE TypeOK'
  BY <1>13 DEF TypeOK, Expunge
<1>14. CASE Crash
  <2>1. unfiled' \subseteq Files
    BY <1>14 DEF TypeOK, Crash, Working
  <2>2. crashes' \in 0..MaxCrashes
    BY <1>14 DEF TypeOK, Crash
  <2> QED BY <1>14, <2>1, <2>2 DEF TypeOK, Crash, Steps, Working
<1>15. CASE UNCHANGED vars
  BY <1>15 DEF TypeOK, vars
<1> QED
  BY <1>1, <1>2, <1>3, <1>4, <1>5, <1>6, <1>7, <1>8, <1>9, <1>10, <1>11, <1>12, <1>13,
     <1>14, <1>15 DEF Next, Forward

-----------------------------------------------------------------------------
(* Nothing is lost *)

\* Only the append takes a worker past the append.
LEMMA StoredNext == TypeOK /\ Stored /\ [Next]_vars => Stored'
<1> SUFFICES ASSUME TypeOK, Stored, [Next]_vars PROVE Stored'
  OBVIOUS
<1> USE DEF dirs, queues, work, history, Stored, Past
<1>0. /\ copies \in [Files -> Nat] /\ newDir \subseteq Files
      /\ step \in [Workers -> Steps] /\ msg \in [Workers -> Files \cup {NoFile}]
      /\ \A w \in Workers : step[w] \in Working => msg[w] \in Files
  BY ForwardConstants DEF TypeOK
<1>1. CASE StartScan
  BY <1>0, <1>1 DEF StartScan, Goto, Workers, Working
<1>2. CASE StartWatch
  BY <1>0, <1>2 DEF StartWatch, Goto, Workers, Working
<1>3. CASE Send
  BY <1>3 DEF Send
<1>4. ASSUME NEW w \in Workers, NEW f \in Files, Read(w, f) PROVE Stored'
  BY <1>0, <1>4 DEF Read, Goto, Working
<1>5. CASE ScanEnds
  BY <1>0, <1>5 DEF ScanEnds, Goto, Workers, Working
<1>6. ASSUME NEW w \in Workers, Connect(w) PROVE Stored'
  BY <1>0, <1>6 DEF Connect, Goto, GiveUp, Working
<1>7. ASSUME NEW w \in Workers, AppendMessage(w) PROVE Stored'
  <2>1. msg[w] \in Files /\ msg[w] \in delivered
    BY <1>0, <1>7 DEF AppendMessage, Working
  <2>2. \/ UNCHANGED copies
        \/ copies' = [copies EXCEPT ![msg[w]] = @ + 1]
    BY <1>7 DEF AppendMessage
  <2>3. /\ \A f \in Files : copies[f] > 0 => copies'[f] > 0
        /\ \A f \in Files : copies'[f] > 0 => copies[f] > 0 \/ f = msg[w]
        /\ ~ UNCHANGED copies => copies'[msg[w]] > 0
    BY <1>0, <2>1, <2>2
  <2>4. \A v \in Workers \ {w} : step'[v] = step[v] /\ msg'[v] = msg[v]
    BY <1>0, <1>7 DEF AppendMessage, Goto, GiveUp
  <2>5. \/ step'[w] = "idle"
        \/ step'[w] = "loggingOut" /\ msg'[w] = msg[w] /\ copies' = [copies EXCEPT ![msg[w]] = @ + 1]
    BY <1>0, <1>7 DEF AppendMessage, Goto, GiveUp
  <2>6. ASSUME NEW v \in Workers, step'[v] \in Working PROVE msg'[v] \in delivered
    BY <1>0, <2>1, <2>4, <2>5, <2>6 DEF Working
  <2>7. copies' = [copies EXCEPT ![msg[w]] = @ + 1] => copies'[msg[w]] > 0
    BY <1>0, <2>1
  <2>8. ASSUME NEW v \in Workers, step'[v] \in Past PROVE copies'[msg'[v]] > 0
    <3>1. CASE v = w
      BY <3>1, <2>5, <2>7, <2>8
    <3>2. CASE v # w
      BY <3>2, <1>0, <2>3, <2>4, <2>8 DEF Working
    <3> QED BY <3>1, <3>2
  <2>9. newDir' = newDir /\ delivered' = delivered
    BY <1>7 DEF AppendMessage
  <2> QED BY <2>1, <2>3, <2>6, <2>8, <2>9
<1>8. ASSUME NEW w \in Workers, Logout(w) PROVE Stored'
  BY <1>0, <1>8 DEF Logout, Goto, GiveUp, Working
<1>9. ASSUME NEW w \in Workers, File(w) PROVE Stored'
  BY <1>0, <1>9 DEF File, Goto, GiveUp, Working
<1>10. ASSUME NEW f \in Files, Deliver(f) PROVE Stored'
  BY <1>0, <1>10 DEF Deliver
<1>11. ASSUME NEW f \in Files, OpenMove(f) PROVE Stored'
  BY <1>0, <1>11 DEF OpenMove
<1>12. ASSUME NEW f \in Files, Expunge(f) PROVE Stored'
  BY <1>12 DEF Expunge
<1>13. CASE Crash
  BY <1>13 DEF Crash, Working
<1>14. CASE UNCHANGED vars
  BY <1>14 DEF vars
<1>15. CASE Receive
  <2>1. Head(channel) \in Files
    BY <1>15 DEF Receive, TypeOK
  <2> QED BY <1>4, <1>15, <2>1 DEF Receive, Workers
<1>16. ASSUME NEW f \in Files, Visit(f) PROVE Stored'
  BY <1>4, <1>16 DEF Visit, Workers
<1> QED
  BY <1>1, <1>2, <1>3, <1>5, <1>6, <1>7, <1>8, <1>9, <1>10, <1>11, <1>12, <1>13, <1>14,
     <1>15, <1>16 DEF Next, Forward

\* Only filing, which comes after the append, and POP3 sessions take mail away.
LEMMA LostNext == TypeOK /\ Stored /\ NothingIsLost /\ [Next]_vars => NothingIsLost'
<1> SUFFICES ASSUME TypeOK, Stored, NothingIsLost, [Next]_vars PROVE NothingIsLost'
  OBVIOUS
<1> USE DEF dirs, queues, work, history, NothingIsLost
<1>0. /\ copies \in [Files -> Nat] /\ delivered \subseteq Files
      /\ \A w \in Workers : step[w] \in Working => msg[w] \in Files
  BY ForwardConstants DEF TypeOK
<1>1. ASSUME UNCHANGED <<newDir, curDir, copies, delivered, popped, expunged>>
      PROVE  NothingIsLost'
  BY <1>1
<1>2. CASE StartScan \/ StartWatch \/ Send \/ Receive \/ ScanEnds \/ Crash \/ UNCHANGED vars
  BY <1>1, <1>2
     DEF StartScan, StartWatch, Send, Receive, Read, ScanEnds, Crash, vars
<1>3. ASSUME NEW w \in Workers, Connect(w) \/ Logout(w) PROVE NothingIsLost'
  BY <1>1, <1>3 DEF Connect, Logout
<1>4. ASSUME NEW w \in Workers, AppendMessage(w) PROVE NothingIsLost'
  <2>1. msg[w] \in Files
    BY <1>0, <1>4 DEF AppendMessage, Working
  <2>2. \A f \in Files : copies[f] > 0 => copies'[f] > 0
    BY <1>0, <1>4, <2>1 DEF AppendMessage
  <2> QED BY <1>0, <1>4, <2>2 DEF AppendMessage
<1>5. ASSUME NEW w \in Workers, File(w) PROVE NothingIsLost'
  <2>1. msg[w] \in Files /\ copies[msg[w]] > 0
    BY <1>0, <1>5 DEF File, Working, Stored, Past
  <2> QED BY <1>5, <2>1 DEF File
<1>6. ASSUME NEW f \in Files, Visit(f) PROVE NothingIsLost'
  BY <1>1, <1>6 DEF Visit, Read
<1>7. ASSUME NEW f \in Files, Deliver(f) PROVE NothingIsLost'
  BY <1>7 DEF Deliver
<1>8. ASSUME NEW f \in Files, OpenMove(f) PROVE NothingIsLost'
  BY <1>8 DEF OpenMove
<1>9. ASSUME NEW f \in Files, Expunge(f) PROVE NothingIsLost'
  BY <1>9 DEF Expunge
<1> QED
  BY <1>2, <1>3, <1>4, <1>5, <1>6, <1>7, <1>8, <1>9 DEF Next, Forward

\* Every variable keeps its type, and the channel its capacity.
THEOREM ForwardTypes == Spec => []TypeOK
BY TypeInit, TypeNext, PTL DEF Spec

\* Whatever fails, dies or is moved away in between, a message that arrived is in
\* the maildir, stored on the IMAP server or deleted by a POP3 client.
THEOREM NoMailIsLost == Spec => []NothingIsLost
<1>1. Init => Stored /\ NothingIsLost
  BY DEF Init, Stored, NothingIsLost, Workers, Working, Past
<1> QED BY <1>1, TypeInit, TypeNext, StoredNext, LostNext, PTL DEF Spec

-----------------------------------------------------------------------------
(* Nothing is stored twice without a failure *)

\* A worker takes up a message only when no worker is at it, if they take turns.
LEMMA TurnNext == TypeOK /\ config.inTurn /\ InTurn /\ [Next]_vars => InTurn' /\ config'.inTurn
<1> SUFFICES ASSUME TypeOK, config.inTurn, InTurn, [Next]_vars PROVE InTurn' /\ config'.inTurn
  OBVIOUS
<1> USE DEF dirs, queues, work, history, InTurn, Goto
<1>0. "scan" \in Workers /\ "watch" \in Workers /\ step \in [Workers -> Steps]
  BY DEF Workers, TypeOK
<1>1. ASSUME UNCHANGED <<config, step>> PROVE InTurn' /\ config'.inTurn
  BY <1>1
<1>2. CASE Send \/ UNCHANGED vars
  BY <1>1, <1>2 DEF Send, vars
<1>3. CASE StartScan
  BY <1>0, <1>3 DEF StartScan
<1>4. CASE StartWatch
  BY <1>0, <1>4 DEF StartWatch
<1>5. CASE Receive
  BY <1>0, <1>5 DEF Receive, Read
<1>6. CASE ScanEnds
  BY <1>0, <1>6 DEF ScanEnds
<1>7. ASSUME NEW w \in Workers, Forward(w) PROVE InTurn' /\ config'.inTurn
  <2>1. step[w] \in Working /\ config' = config
    BY <1>7 DEF Forward, Connect, AppendMessage, Logout, File, Working
  <2>2. \E where \in Working \cup {"idle"} : step' = [step EXCEPT ![w] = where]
    BY <1>7 DEF Forward, Connect, AppendMessage, Logout, File, GiveUp, Working
  <2>3. w = "scan" => step["watch"] = "off"
    BY <1>0, <2>1 DEF Working
  <2>4. CASE w = "scan"
    <3>1. step'["watch"] = "off"
      BY <1>0, <2>2, <2>3, <2>4
    <3> QED BY <2>1, <3>1
  <2>5. CASE w = "watch"
    <3>1. step["scan"] = "returned"
      BY <2>1, <2>5 DEF Working
    <3>2. step'["scan"] = "returned"
      BY <1>0, <2>2, <2>5, <3>1
    <3> QED BY <2>1, <3>2
  <2> QED BY <2>4, <2>5 DEF Workers
<1>8. ASSUME NEW f \in Files, Visit(f) PROVE InTurn' /\ config'.inTurn
  BY <1>0, <1>8 DEF Visit, Read
<1>9. ASSUME NEW f \in Files, Deliver(f) \/ OpenMove(f) \/ Expunge(f)
      PROVE InTurn' /\ config'.inTurn
  BY <1>1, <1>9 DEF Deliver, OpenMove, Expunge
<1>10. CASE Crash
  BY <1>0, <1>10 DEF Crash
<1> QED
  BY <1>2, <1>3, <1>4, <1>5, <1>6, <1>7, <1>8, <1>9, <1>10 DEF Next

\* Where the workers take turns, only the one that takes a step is at work.
LEMMA OthersRest ==
  ASSUME TypeOK, InTurn, NEW w \in Workers, step[w] \in {"idle"} \cup Working
  PROVE  \A v \in Workers \ {w} : step[v] \notin Working
BY DEF TypeOK, InTurn, Workers, Working

\* Only the append stores a message, and only filing ends what comes after it.
LEMMA ApartNext ==
  TypeOK /\ Stored /\ InTurn /\ Apart /\ [Next]_vars => Apart'
<1> SUFFICES ASSUME TypeOK, Stored, InTurn, Apart, [Next]_vars PROVE Apart'
  OBVIOUS
<1> USE DEF dirs, queues, work, history, Apart, Past, Before
<1>0. /\ copies \in [Files -> Nat] /\ newDir \subseteq Files
      /\ step \in [Workers -> Steps] /\ msg \in [Workers -> Files \cup {NoFile}]
      /\ \A w \in Workers : step[w] \in Working => msg[w] \in Files
  BY ForwardConstants DEF TypeOK
<1>1. CASE StartScan
  BY <1>0, <1>1 DEF StartScan, Goto, Workers
<1>2. CASE StartWatch
  BY <1>0, <1>2 DEF StartWatch, Goto, Workers
<1>3. CASE Send \/ UNCHANGED vars
  BY <1>3 DEF Send, vars
<1>4. ASSUME NEW w \in Workers, NEW f \in Files, step[w] = "idle", Read(w, f)
      PROVE  Apart'
  <2>1. \A v \in Workers : step[v] \notin Working
    BY <1>4, OthersRest DEF Working
  <2>2. f \in newDir /\ copies[f] > 0 => f \in unfiled
    BY <2>1 DEF Working
  <2> QED BY <1>0, <1>4, <2>1, <2>2 DEF Read, Goto, Working
<1>5. CASE ScanEnds
  BY <1>0, <1>5 DEF ScanEnds, Goto, Workers
<1>6. ASSUME NEW w \in Workers, Connect(w) PROVE Apart'
  BY <1>0, <1>6 DEF Connect, Goto, GiveUp
<1>7. ASSUME NEW w \in Workers, AppendMessage(w) PROVE Apart'
  <2> DEFINE f == msg[w]
  <2>1. f \in Files /\ step[w] \in Before
    BY <1>0, <1>7 DEF AppendMessage, Working
  <2>2. copies[f] > 0 => f \in unfiled
    BY <2>1
  <2>3. \A v \in Workers \ {w} : step[v] \notin Working
    BY <2>1, OthersRest DEF Working
  <2>4. \A v \in Workers \ {w} : step'[v] = step[v] /\ msg'[v] = msg[v]
    BY <1>0, <1>7 DEF AppendMessage, Goto, GiveUp
  <2>5. newDir' = newDir
    BY <1>7 DEF AppendMessage
  <2>6. CASE /\ copies' = [copies EXCEPT ![f] = @ + 1]
             /\ step' = [step EXCEPT ![w] = "loggingOut"]
             /\ UNCHANGED <<msg, unfiled>>
    <3>1. \A g \in Files \ {f} : copies'[g] = copies[g]
      BY <1>0, <2>1, <2>6
    <3>2. copies'[f] > 1 => f \in unfiled
      BY <1>0, <2>1, <2>2, <2>6
    <3>3. step'[w] \in Past /\ msg'[w] = f
      BY <1>0, <2>6
    <3>4. \A g \in Files : copies'[g] > 1 => g \in unfiled'
      BY <2>6, <3>1, <3>2
    <3>5. ASSUME NEW g \in newDir', copies'[g] > 0, g \notin unfiled'
          PROVE  \E v \in Workers : step'[v] \in Past /\ msg'[v] = g
      BY <1>0, <2>3, <2>5, <2>6, <3>1, <3>3, <3>5 DEF Working
    <3>6. ASSUME NEW v \in Workers PROVE step'[v] \notin Before
      BY <2>3, <2>4, <3>3 DEF Working
    <3> QED BY <3>4, <3>5, <3>6
  <2>7. CASE /\ copies' = [copies EXCEPT ![f] = @ + 1]
             /\ step' = [step EXCEPT ![w] = "idle"]
             /\ unfiled' = unfiled \cup {f}
    <3>1. \A g \in Files \ {f} : copies'[g] = copies[g]
      BY <1>0, <2>1, <2>7
    <3>2. \A v \in Workers : step'[v] \notin Before
      BY <1>0, <2>3, <2>4, <2>7 DEF Working
    <3>3. \A g \in newDir' : copies'[g] > 0 => g \in unfiled'
      BY <1>0, <2>1, <2>3, <2>5, <2>7, <3>1 DEF Working
    <3>4. \A g \in Files : copies'[g] > 1 => g \in unfiled'
      BY <2>7, <3>1
    <3> QED BY <3>2, <3>3, <3>4
  <2>8. CASE UNCHANGED <<copies, unfiled>> /\ step' = [step EXCEPT ![w] = "idle"]
    <3>1. \A v \in Workers : step'[v] \notin Before
      BY <1>0, <2>3, <2>4, <2>8 DEF Working
    <3>2. \A g \in newDir' : copies'[g] > 0 => g \in unfiled'
      BY <1>0, <2>1, <2>3, <2>5, <2>8 DEF Working
    <3> QED BY <2>8, <3>1, <3>2
  <2> QED BY <1>7, <2>6, <2>7, <2>8 DEF AppendMessage, Goto, GiveUp
<1>8. ASSUME NEW w \in Workers, Logout(w) PROVE Apart'
  BY <1>0, <1>8 DEF Logout, Goto, GiveUp
<1>9. ASSUME NEW w \in Workers, File(w) PROVE Apart'
  BY <1>0, <1>9 DEF File, Goto, GiveUp
<1>10. ASSUME NEW f \in Files, Deliver(f) PROVE Apart'
  BY <1>0, <1>10 DEF Deliver, Stored
<1>11. ASSUME NEW f \in Files, OpenMove(f) PROVE Apart'
  BY <1>0, <1>11 DEF OpenMove
<1>12. ASSUME NEW f \in Files, Expunge(f) PROVE Apart'
  BY <1>12 DEF Expunge
<1>13. CASE Crash
  BY <1>0, <1>13 DEF Crash
<1>14. CASE Receive
  <2>1. Head(channel) \in Files
    BY <1>14 DEF Receive, TypeOK
  <2> QED BY <1>4, <1>14, <2>1 DEF Receive, Workers
<1>15. ASSUME NEW f \in Files, Visit(f) PROVE Apart'
  BY <1>4, <1>15 DEF Visit, Workers
<1> QED
  BY <1>1, <1>2, <1>3, <1>5, <1>6, <1>7, <1>8, <1>9, <1>10, <1>11, <1>12, <1>13, <1>14,
     <1>15 DEF Next, Forward

\* The caller's settings do not change.
LEMMA ConfigStays == [Next]_vars => config' = config
<1> SUFFICES ASSUME [Next]_vars PROVE config' = config
  OBVIOUS
<1>1. ASSUME NEW w \in Workers, Forward(w) PROVE config' = config
  BY <1>1 DEF Forward, Connect, AppendMessage, Logout, File
<1> QED
  BY <1>1 DEF Next, vars, StartScan, StartWatch, Send, Receive, Visit, Read, ScanEnds,
              Deliver, OpenMove, Expunge, Crash

\* A caller that runs the scan before the watch has no message stored twice, however
\* many events there are for it, unless an earlier attempt failed after the append.
THEOREM DuplicatesHaveACause == Spec => []DuplicatesNeedAFailure
<1> DEFINE Turns == config.inTurn => InTurn /\ Apart
<1>1. Init => Stored /\ Turns
  BY DEF Init, Stored, Workers, Working, Past, Before, InTurn, Apart
<1>2. TypeOK /\ Stored /\ Turns /\ [Next]_vars => Turns'
  BY TurnNext, ApartNext, ConfigStays
<1>3. Turns => DuplicatesNeedAFailure
  BY DEF Apart, DuplicatesNeedAFailure
<1> HIDE DEF Turns
<1> QED BY <1>1, <1>2, <1>3, TypeInit, TypeNext, StoredNext, PTL DEF Spec
=============================================================================
