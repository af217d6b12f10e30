----------------------------- MODULE MailForward -----------------------------
(***************************************************************************)
(* Forwarding of one account's mail to an IMAP server                      *)
(* (imap_forward/watcher.rs, imap_forward/forwarder.rs).                   *)
(*                                                                         *)
(* Two workers hand messages of new/ to process_new_message: "scan" is     *)
(* process_existing, which goes through the directory once, and "watch" is *)
(* watch, which takes paths from a channel that notify's thread fills from *)
(* the kernel's events.  A message is read, appended on the IMAP server    *)
(* over a connection of its own, and then filed: deleted or renamed into   *)
(* cur/.  POP3 sessions move files out of new/ meanwhile and expunge them  *)
(* (Session!OpenMove, Session!Expunge), and the process may die anywhere.  *)
(*                                                                         *)
(* The repository has no caller of MailWatcher: whether the two workers    *)
(* run one after the other is up to the caller, and part of its settings.  *)
(***************************************************************************)
EXTENDS Naturals, Sequences

CONSTANTS
  Files,        \* messages of the account, by file name
  NoFile,       \* a worker handles no message
  ChannelCap,   \* capacity of the channel (100 in the code)
  MaxCrashes    \* bound on crashes

ASSUME ForwardConstants ==
  NoFile \notin Files /\ ChannelCap \in Nat \ {0} /\ MaxCrashes \in Nat

VARIABLES
  config,     \* enabled, delete_after_forward, and the caller's inTurn
  step,       \* where each worker stands
  msg,        \* the message a worker handles
  left,       \* what the scan has yet to visit
  events,     \* the kernel's events about new/, by the file they name
  channel,    \* paths sent to the watch worker
  newDir, curDir,
  copies,     \* how often the IMAP server stored each message
  delivered,  \* history: messages that arrived
  tried,      \* history: messages a worker took up
  popped,     \* history: messages a POP3 session moved out of new/
  expunged,   \* history: messages a POP3 session deleted
  unfiled,    \* history: messages stored on the server and then not filed
  crashes     \* crashes so far

work == <<step, msg, left>>
queues == <<events, channel>>
dirs == <<newDir, curDir>>
history == <<delivered, tried, popped, expunged, unfiled>>
vars == <<config, work, queues, dirs, copies, history, crashes>>

Workers == {"scan", "watch"}
Working == {"connecting", "appending", "loggingOut", "filing"}
Steps == {"off", "idle", "returned"} \cup Working
Settings == [enabled : BOOLEAN, delete : BOOLEAN, inTurn : BOOLEAN]

\* The watch on new/ is set up before the worker first waits, and never removed.
Watching == step["watch"] \in {"idle"} \cup Working

\* The kernel reports creations and modifications of new/, renames into it and out
\* of it included, to the watch; removals are reported and left out by the callback.
Raise(paths) == events' = IF Watching THEN events \o paths ELSE events

Goto(w, where) == step' = [step EXCEPT ![w] = where]

-----------------------------------------------------------------------------
(* The two workers *)

StartScan ==
  /\ step["scan"] = "off"
  /\ Goto("scan", IF config.enabled THEN "idle" ELSE "returned")
  /\ left' = IF config.enabled THEN newDir ELSE {}
  /\ UNCHANGED <<config, msg, queues, dirs, copies, history, crashes>>

\* The watch is up, or forwarding is disabled or the watch cannot be set up.
StartWatch ==
  /\ step["watch"] = "off"
  /\ config.inTurn => step["scan"] = "returned"
  /\ \E where \in {"returned"} \cup (IF config.enabled THEN {"idle"} ELSE {}) :
       Goto("watch", where)
  /\ UNCHANGED <<config, msg, left, queues, dirs, copies, history, crashes>>

\* A slip: what does not fit into the channel is dropped.
SendOrDrop ==
  /\ events # <<>>
  /\ channel' = IF Len(channel) < ChannelCap THEN Append(channel, Head(events))
                                             ELSE channel
  /\ events' = Tail(events)
  /\ UNCHANGED <<config, work, dirs, copies, history, crashes>>

\* A slip: the channel has no bound.
SendUnbounded ==
  /\ events # <<>>
  /\ channel' = Append(channel, Head(events))
  /\ events' = Tail(events)
  /\ UNCHANGED <<config, work, dirs, copies, history, crashes>>

\* notify's thread sends a path to the worker, and waits while the channel is full.
Send ==
  /\ events # <<>>
  /\ Len(channel) < ChannelCap
  /\ channel' = Append(channel, Head(events))
  /\ events' = Tail(events)
  /\ UNCHANGED <<config, work, dirs, copies, history, crashes>>

\* Worker w takes up f: reads it, or fails to, as always when f has left new/.
Read(w, f) ==
  /\ tried' = tried \cup {f}
  /\ \/ /\ f \in newDir
        /\ Goto(w, "connecting")
        /\ msg' = [msg EXCEPT ![w] = f]
     \/ UNCHANGED <<step, msg>>
  /\ UNCHANGED <<config, events, dirs, copies, delivered, popped, expunged, unfiled, crashes>>

Visit(f) ==
  /\ step["scan"] = "idle"
  /\ f \in left
  /\ left' = left \ {f}
  /\ Read("scan", f)
  /\ UNCHANGED channel

\* Reading the directory fails on an entry, or every entry was visited.
ScanEnds ==
  /\ step["scan"] = "idle"
  /\ Goto("scan", "returned")
  /\ left' = {}
  /\ UNCHANGED <<config, msg, queues, dirs, copies, history, crashes>>

Receive ==
  /\ step["watch"] = "idle"
  /\ channel # <<>>
  /\ channel' = Tail(channel)
  /\ Read("watch", Head(channel))
  /\ UNCHANGED left

-----------------------------------------------------------------------------
(* process_new_message and the forwarder *)

\* An error is logged by the worker's loop, which goes on with the next message.
GiveUp(w) ==
  /\ Goto(w, "idle")
  /\ msg' = [msg EXCEPT ![w] = NoFile]

\* The password is in the environment, and the server lets the forwarder log in.
Connect(w) ==
  /\ step[w] = "connecting"
  /\ \/ Goto(w, "appending") /\ UNCHANGED msg
     \/ GiveUp(w)
  /\ UNCHANGED <<config, left, queues, dirs, copies, history, crashes>>

\* A slip: the answer to APPEND is not looked at.
AppendBlindly(w) ==
  /\ step[w] = "appending"
  /\ \/ copies' = [copies EXCEPT ![msg[w]] = @ + 1]
     \/ UNCHANGED copies
  /\ Goto(w, "loggingOut")
  /\ UNCHANGED <<config, msg, left, queues, dirs, history, crashes>>

\* The server stores the message and says so; stores it and the answer is lost;
\* or does not store it.
AppendMessage(w) ==
  /\ step[w] = "appending"
  /\ \/ /\ copies' = [copies EXCEPT ![msg[w]] = @ + 1]
        /\ Goto(w, "loggingOut")
        /\ UNCHANGED <<msg, unfiled>>
     \/ /\ copies' = [copies EXCEPT ![msg[w]] = @ + 1]
        /\ unfiled' = unfiled \cup {msg[w]}
        /\ GiveUp(w)
     \/ GiveUp(w) /\ UNCHANGED <<copies, unfiled>>
  /\ UNCHANGED <<config, left, queues, dirs, delivered, tried, popped, expunged, crashes>>

\* A LOGOUT that fails fails the forwarding, though the message is stored.
Logout(w) ==
  /\ step[w] = "loggingOut"
  /\ \/ Goto(w, "filing") /\ UNCHANGED <<msg, unfiled>>
     \/ GiveUp(w) /\ unfiled' = unfiled \cup {msg[w]}
  /\ UNCHANGED <<config, left, queues, dirs, copies, delivered, tried, popped, expunged, crashes>>

\* A slip: the message is copied into cur/ and stays in new/.
FileACopy(w) ==
  /\ step[w] = "filing"
  /\ curDir' = IF config.delete THEN curDir ELSE curDir \cup {msg[w]}
  /\ newDir' = IF config.delete THEN newDir \ {msg[w]} ELSE newDir
  /\ GiveUp(w)
  /\ UNCHANGED <<config, left, queues, copies, history, crashes>>

\* The message is deleted or renamed into cur/; that fails when it has left new/.
File(w) ==
  /\ step[w] = "filing"
  /\ GiveUp(w)
  /\ \/ /\ msg[w] \in newDir
        /\ newDir' = newDir \ {msg[w]}
        /\ \/ config.delete /\ UNCHANGED <<curDir, events>>
           \/ /\ ~ config.delete
              /\ curDir' = curDir \cup {msg[w]}
              /\ Raise(<<msg[w]>>)
        /\ UNCHANGED unfiled
     \/ unfiled' = unfiled \cup {msg[w]} /\ UNCHANGED <<dirs, events>>
  /\ UNCHANGED <<config, left, channel, copies, delivered, tried, popped, expunged, crashes>>

Forward(w) == Connect(w) \/ AppendMessage(w) \/ Logout(w) \/ File(w)

-----------------------------------------------------------------------------
(* Around the forwarder *)

\* A message arrives in new/, with one event or, say by a creation and a change of
\* its attributes, two.
Deliver(f) ==
  /\ f \notin delivered
  /\ delivered' = delivered \cup {f}
  /\ newDir' = newDir \cup {f}
  /\ Raise(<<f>>) \/ Raise(<<f, f>>)
  /\ UNCHANGED <<config, work, channel, curDir, copies, tried, popped, expunged, unfiled, crashes>>

\* The login of a POP3 session moves a message of new/ into cur/.
OpenMove(f) ==
  /\ f \in newDir
  /\ newDir' = newDir \ {f}
  /\ curDir' = curDir \cup {f}
  /\ popped' = popped \cup {f}
  /\ Raise(<<f>>)
  /\ UNCHANGED <<config, work, channel, copies, delivered, tried, expunged, unfiled, crashes>>

\* The commit of a POP3 session deletes a message.
Expunge(f) ==
  /\ f \in curDir
  /\ curDir' = curDir \ {f}
  /\ expunged' = expunged \cup {f}
  /\ UNCHANGED <<config, work, queues, newDir, copies, delivered, tried, popped, unfiled, crashes>>

\* The process dies: the workers, their channel and the watch are gone.
Crash ==
  /\ crashes < MaxCrashes
  /\ crashes' = crashes + 1
  /\ unfiled' = unfiled \cup {msg[w] : w \in {v \in Workers : step[v] \in {"loggingOut", "filing"}}}
  /\ step' = [w \in Workers |-> "off"]
  /\ msg' = [w \in Workers |-> NoFile]
  /\ left' = {}
  /\ events' = <<>>
  /\ channel' = <<>>
  /\ UNCHANGED <<config, dirs, copies, delivered, tried, popped, expunged>>

-----------------------------------------------------------------------------
Init ==
  /\ config \in Settings
  /\ step = [w \in Workers |-> "off"]
  /\ msg = [w \in Workers |-> NoFile]
  /\ left = {}
  /\ events = <<>>
  /\ channel = <<>>
  /\ newDir = {} /\ curDir = {}
  /\ copies = [f \in Files |-> 0]
  /\ delivered = {} /\ tried = {} /\ popped = {} /\ expunged = {} /\ unfiled = {}
  /\ crashes = 0

Next ==
  \/ StartScan \/ StartWatch \/ Send \/ Receive \/ ScanEnds
  \/ \E w \in Workers : Forward(w)
  \/ \E f \in Files : Visit(f) \/ Deliver(f) \/ OpenMove(f) \/ Expunge(f)
  \/ Crash

Spec == Init /\ [][Next]_vars

\* notify's thread and the worker's task run when they can, and the IMAP server
\* answers or the connection to it breaks: the forwarder itself sets no timeout.
Fairness == WF_vars(Send) /\ WF_vars(Receive) /\ WF_vars(Forward("watch"))
FairSpec == Spec /\ Fairness

-----------------------------------------------------------------------------
(* Properties *)

\* Every variable holds a value of its kind, the channel keeps to its capacity, and
\* a worker has a message exactly while it is at work on one.
TypeOK ==
  /\ config \in Settings
  /\ step \in [Workers -> Steps]
  /\ msg \in [Workers -> Files \cup {NoFile}]
  /\ \A w \in Workers : step[w] \in Working <=> msg[w] # NoFile
  /\ left \subseteq Files
  /\ events \in Seq(Files)
  /\ channel \in Seq(Files) /\ Len(channel) <= ChannelCap
  /\ newDir \subseteq Files /\ curDir \subseteq Files
  /\ copies \in [Files -> Nat]
  /\ delivered \subseteq Files /\ tried \subseteq Files
  /\ popped \subseteq Files /\ expunged \subseteq Files /\ unfiled \subseteq Files
  /\ crashes \in 0..MaxCrashes

\* Mail never gets lost between the maildir and the IMAP server: a message that
\* arrived is in the maildir, or the IMAP server stored it before it was deleted, or
\* a POP3 client deleted it; and no message leaves new/ unforwarded except to a POP3
\* session.
NothingIsLost ==
  \A f \in delivered :
    /\ f \in newDir \cup curDir \cup expunged \/ copies[f] > 0
    /\ f \in newDir \cup popped \/ copies[f] > 0

\* A message is stored twice only after something went wrong between the append and
\* the filing, provided the caller runs the scan before the watch: two events for
\* one file, and the events the renames raise themselves, forward nothing twice.
DuplicatesNeedAFailure ==
  \A f \in Files : config.inTurn /\ copies[f] > 1 => f \in unfiled

\* Forwarding keeps the promise of Relay: read mail is never taken up again, nothing
\* reaches the server that was not taken up unread, and no message is put away that
\* its worker has not seen stored, whatever the order of events, moves and crashes.
Promise == INSTANCE Relay WITH
  Messages <- Files,
  place <- [f \in Files |-> IF f \in curDir THEN "read" ELSE IF f \in newDir THEN "unread"
                            ELSE IF f \in delivered THEN "gone" ELSE "away"],
  server <- {f \in Files : copies[f] > 0},
  inHand <- {msg[w] : w \in {v \in Workers : step[v] \in Working}}
ImplementsRelay == Promise!Spec

\* A path on its way to the watch worker gets there, however full the channel: its
\* message is taken up, unless the process dies first.
Queued == {events[i] : i \in 1..Len(events)} \cup {channel[i] : i \in 1..Len(channel)}
EventsAreTaken ==
  \A f \in Files : f \in Queued ~> f \in tried \/ step["watch"] = "off"
=============================================================================
