------------------------------- MODULE Listener -------------------------------
(***************************************************************************)
(* The accept loop of the POP3 server (server/listener.rs) with its rate   *)
(* limiter (security/rate_limit.rs) and its semaphore of connections.      *)
(*                                                                         *)
(* One loop takes connections in the order they came.  Each must pass the  *)
(* limiter, which is one for all clients, and get one of max_connections   *)
(* permits, or it is closed at once.  A task of its own then does the TLS  *)
(* handshake and runs the session (module Session), and gives the permit   *)
(* back when it ends, in whatever way.                                     *)
(***************************************************************************)
EXTENDS Naturals, Sequences, FiniteSets

CONSTANTS
  Clients,          \* those who connect, each with one connection at a time
  MaxConnections,   \* server.max_connections
  Rate              \* security.rate_limit_per_second: also the limiter's burst

\* Config::validate refuses 0 for both.
ASSUME ListenerConstants ==
  IsFiniteSet(Clients) /\ MaxConnections \in Nat \ {0} /\ Rate \in Nat \ {0}

VARIABLES
  status,    \* where the connection of each client stands
  backlog,   \* connections the kernel has accepted and the loop has not
  permits,   \* connection_semaphore
  cells,     \* what the limiter still admits
  burst      \* history: connections the limiter admitted since its last refill

vars == <<status, backlog, permits, cells, burst>>

Holding == {"handshake", "session"}
Holders == {c \in Clients : status[c] \in Holding}

-----------------------------------------------------------------------------
\* A client connects: the kernel completes the connection.
Connect(c) ==
  /\ status[c] = "closed"
  /\ status' = [status EXCEPT ![c] = "waiting"]
  /\ backlog' = Append(backlog, c)
  /\ UNCHANGED <<permits, cells, burst>>

\* The loop takes the first connection, and closes it or hands it on.
Take(c) == backlog # <<>> /\ c = Head(backlog) /\ backlog' = Tail(backlog)
Close(c) == status' = [status EXCEPT ![c] = "closed"]

\* A slip: the answer of the limiter is not looked at.
AdmitsAll == TRUE

\* RateLimiter::check, which ignores whose connection it is.
Admits == cells > 0

OverTheRate(c) ==
  /\ Take(c)
  /\ ~ Admits
  /\ Close(c)
  /\ UNCHANGED <<permits, cells, burst>>

Admit(c) ==
  /\ Take(c)
  /\ Admits
  /\ cells' = IF cells > 0 THEN cells - 1 ELSE 0
  /\ burst' = burst + 1

\* Every permit is taken: the connection is closed, and was counted by the limiter.
NoPermit(c) ==
  /\ Admit(c)
  /\ permits = 0
  /\ Close(c)
  /\ UNCHANGED permits

Spawn(c) ==
  /\ Admit(c)
  /\ permits > 0
  /\ permits' = permits - 1
  /\ status' = [status EXCEPT ![c] = "handshake"]

\* A slip: the loop waits for a permit.
AcceptWaiting(c) == OverTheRate(c) \/ Spawn(c)

\* A connection is taken up.  When accept fails, the error is logged and the loop goes
\* round again: nothing here changes.
Accept(c) == OverTheRate(c) \/ NoPermit(c) \/ Spawn(c)

\* handle_connection: nothing bounds the time the handshake takes.
Handshake(c) ==
  /\ status[c] = "handshake"
  /\ status' = [status EXCEPT ![c] = "session"]
  /\ UNCHANGED <<backlog, permits, cells, burst>>

\* A slip: only a session gives the permit back.
EndKeepingPermit(c) ==
  /\ status[c] \in Holding
  /\ Close(c)
  /\ permits' = IF status[c] = "session" THEN permits + 1 ELSE permits
  /\ UNCHANGED <<backlog, cells, burst>>

\* A slip: a handshake that fails gives the permit back twice.
EndTwice(c) ==
  /\ status[c] \in Holding
  /\ Close(c)
  /\ permits' = IF status[c] = "session" THEN permits + 1 ELSE permits + 2
  /\ UNCHANGED <<backlog, cells, burst>>

\* The task ends, the handshake or the session over, failed or panicked, and with
\* it goes its permit.
End(c) ==
  /\ status[c] \in Holding
  /\ Close(c)
  /\ permits' = permits + 1
  /\ UNCHANGED <<backlog, cells, burst>>

\* The limiter gets a cell back every 1/Rate seconds.
Refill ==
  /\ cells < Rate
  /\ cells' = cells + 1
  /\ burst' = 0
  /\ UNCHANGED <<status, backlog, permits>>

-----------------------------------------------------------------------------
Init ==
  /\ status = [c \in Clients |-> "closed"]
  /\ backlog = <<>>
  /\ permits = MaxConnections
  /\ cells = Rate
  /\ burst = 0

Next ==
  \/ \E c \in Clients : Connect(c) \/ Accept(c) \/ Handshake(c) \/ End(c)
  \/ Refill

Spec == Init /\ [][Next]_vars

\* The loop never waits but for a connection; accept is taken not to fail for ever, as
\* it does for want of file descriptors.
FairSpec == Spec /\ WF_vars(\E c \in Clients : Accept(c))

-----------------------------------------------------------------------------
(* Properties *)

\* Every variable holds a value of its kind, and the backlog is that of the clients
\* that wait, each once.
TypeOK ==
  /\ status \in [Clients -> {"closed", "waiting"} \cup Holding]
  /\ backlog \in Seq(Clients)
  /\ \A c \in Clients :
       status[c] = "waiting" <=> \E i \in 1..Len(backlog) : backlog[i] = c
  /\ \A i, j \in 1..Len(backlog) : backlog[i] = backlog[j] => i = j
  /\ permits \in 0..MaxConnections
  /\ cells \in 0..Rate
  /\ burst \in Nat

\* Permits are neither lost nor made: at any time the free ones and the connections
\* in a handshake or a session add up to max_connections, however these ended.
PermitsAreConserved == permits + Cardinality(Holders) = MaxConnections

\* Between two refills the limiter lets at most a second's worth of connections
\* through, those counted that found no permit.
BurstIsBounded == burst + cells <= Rate

\* Whatever those with a permit do, and be it nothing for ever, a connection does
\* not wait: it is taken up or closed.
NoOneWaits == \A c \in Clients : status[c] = "waiting" ~> status[c] # "waiting"
=============================================================================
