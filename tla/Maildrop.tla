------------------------------ MODULE Maildrop ------------------------------
(***************************************************************************)
(* What the server promises about mail, with no protocol in sight.         *)
(*                                                                         *)
(* A mailbox gains a message when one is delivered, and loses one in a     *)
(* single way: a session that had opened that mailbox marked the message,  *)
(* closed the mailbox on purpose, and only then removed it.  A session     *)
(* that ends in any other way takes its marks with it.  Removed messages   *)
(* do not come back.  Session implements this (Session!ImplementsMaildrop) *)
(***************************************************************************)
CONSTANTS Sessions, Boxes, NoBox, Messages

VARIABLES
  mail,   \* the messages of each mailbox
  gone,   \* the messages removed from each mailbox
  box,    \* the mailbox a session has opened
  marks,  \* the messages a session has marked for removal
  phase   \* "shut", "open", or "closing": removing what was marked

vars == <<mail, gone, box, marks, phase>>

Init ==
  /\ mail = [b \in Boxes |-> {}]
  /\ gone = [b \in Boxes |-> {}]
  /\ box = [s \in Sessions |-> NoBox]
  /\ marks = [s \in Sessions |-> {}]
  /\ phase = [s \in Sessions |-> "shut"]

Deliver(b, f) ==
  /\ \A c \in Boxes : f \notin mail[c] \cup gone[c]
  /\ mail' = [mail EXCEPT ![b] = @ \cup {f}]
  /\ UNCHANGED <<gone, box, marks, phase>>

Open(s, b) ==
  /\ phase[s] = "shut"
  /\ phase' = [phase EXCEPT ![s] = "open"]
  /\ box' = [box EXCEPT ![s] = b]
  /\ UNCHANGED <<mail, gone, marks>>

Mark(s, f) ==
  /\ phase[s] = "open"
  /\ f \in mail[box[s]]
  /\ marks' = [marks EXCEPT ![s] = @ \cup {f}]
  /\ UNCHANGED <<mail, gone, box, phase>>

UnmarkAll(s) ==
  /\ phase[s] = "open"
  /\ marks' = [marks EXCEPT ![s] = {}]
  /\ UNCHANGED <<mail, gone, box, phase>>

Close(s) ==
  /\ phase[s] = "open"
  /\ phase' = [phase EXCEPT ![s] = "closing"]
  /\ UNCHANGED <<mail, gone, box, marks>>

Remove(s, f) ==
  /\ phase[s] = "closing"
  /\ f \in marks[s] \cap mail[box[s]]
  /\ mail' = [mail EXCEPT ![box[s]] = @ \ {f}]
  /\ gone' = [gone EXCEPT ![box[s]] = @ \cup {f}]
  /\ UNCHANGED <<box, marks, phase>>

\* The sessions of S end, at any point.
End(S) ==
  /\ phase' = [s \in Sessions |-> IF s \in S THEN "shut" ELSE phase[s]]
  /\ box' = [s \in Sessions |-> IF s \in S THEN NoBox ELSE box[s]]
  /\ marks' = [s \in Sessions |-> IF s \in S THEN {} ELSE marks[s]]
  /\ UNCHANGED <<mail, gone>>

Next ==
  \/ \E b \in Boxes, f \in Messages : Deliver(b, f)
  \/ \E s \in Sessions :
       \/ \E b \in Boxes : Open(s, b)
       \/ \E f \in Messages : Mark(s, f) \/ Remove(s, f)
       \/ UnmarkAll(s) \/ Close(s)
  \/ \E S \in SUBSET Sessions : End(S)

Spec == Init /\ [][Next]_vars
=============================================================================
