------------------------------- MODULE Relay -------------------------------
(***************************************************************************)
(* What forwarding promises, with no workers, queues or connections in     *)
(* sight.                                                                  *)
(*                                                                         *)
(* A message lies in one place at a time and moves in one direction only.  *)
(* Forwarding takes up unread mail, and none but unread mail, hands the    *)
(* server nothing it has not taken up, and puts a message away only while  *)
(* it has it in hand and the server has it too.  Anything in hand may be   *)
(* dropped at any time: it stays where it lies.  What is put away or       *)
(* fetched by a mail client is never taken up again.  MailForward          *)
(* implements this (MailForward!ImplementsRelay).                          *)
(***************************************************************************)
CONSTANT Messages

VARIABLES
  place,   \* where a message lies: "away", "unread", "read" or "gone"
  server,  \* the messages the IMAP server has
  inHand   \* the messages taken up and not yet done with

vars == <<place, server, inHand>>

Init ==
  /\ place = [f \in Messages |-> "away"]
  /\ server = {}
  /\ inHand = {}

Move(f, from, to) ==
  /\ place[f] = from
  /\ place' = [place EXCEPT ![f] = to]

\* Whoever is done with f may leave it in the hand of another.
MayDrop(f) == inHand' \in {inHand, inHand \ {f}}

Arrive(f) == Move(f, "away", "unread") /\ UNCHANGED <<server, inHand>>

TakeUp(f) ==
  /\ place[f] = "unread"
  /\ inHand' = inHand \cup {f}
  /\ UNCHANGED <<place, server>>

Store(f) ==
  /\ f \in inHand
  /\ server' = server \cup {f}
  /\ MayDrop(f)
  /\ UNCHANGED place

PutAway(f) ==
  /\ f \in inHand \cap server
  /\ Move(f, "unread", "read") \/ Move(f, "unread", "gone")
  /\ MayDrop(f)
  /\ UNCHANGED server

Drop(F) == inHand' = inHand \ F /\ UNCHANGED <<place, server>>

\* A mail client fetches an unread message, and later deletes it.
Fetch(f) == Move(f, "unread", "read") /\ UNCHANGED <<server, inHand>>
Delete(f) == Move(f, "read", "gone") /\ UNCHANGED <<server, inHand>>

Next ==
  \/ \E f \in Messages :
       Arrive(f) \/ TakeUp(f) \/ Store(f) \/ PutAway(f) \/ Fetch(f) \/ Delete(f)
  \/ \E F \in SUBSET Messages : Drop(F)

Spec == Init /\ [][Next]_vars
=============================================================================
