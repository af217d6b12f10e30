---------------------------- MODULE ListenerProofs ----------------------------
(***************************************************************************)
(* The accept loop keeps its books for any number of clients, permits and  *)
(* cells.  The invariant is the conjunction of the checked ones: the       *)
(* backlog must hold only clients that wait, each once, for a connection   *)
(* the loop closes to have had no permit.                                  *)
(***************************************************************************)
EXTENDS Listener, FiniteSetTheorems, TLAPS

Books == TypeOK /\ PermitsAreConserved /\ BurstIsBounded

\* The holders are finitely many.
LEMMA HoldersFinite ==
  IsFiniteSet(Holders) /\ Cardinality(Holders) \in Nat
<1>1. Holders \subseteq Clients
  BY DEF Holders
<1>2. IsFiniteSet(Holders)
  BY <1>1, FS_Subset, ListenerConstants
<1> QED BY <1>2, FS_CardinalityType

\* A client that gets a permit adds one to the holders.
LEMMA OneMore ==
  ASSUME TypeOK, NEW c \in Clients, status[c] \notin Holding,
         NEW h \in Holding, status' = [status EXCEPT ![c] = h]
  PROVE  Cardinality(Holders') = Cardinality(Holders) + 1
<1>1. Holders' = Holders \cup {c}
  BY DEF TypeOK, Holders, Holding
<1>2. c \notin Holders
  BY DEF Holders
<1> QED BY <1>1, <1>2, FS_AddElement, HoldersFinite

\* One that held a permit and is closed takes one away.
LEMMA OneLess ==
  ASSUME TypeOK, NEW c \in Clients, status[c] \in Holding, Close(c)
  PROVE  /\ Cardinality(Holders') = Cardinality(Holders) - 1
         /\ Cardinality(Holders') \in Nat
<1>1. Holders' = Holders \ {c}
  BY DEF TypeOK, Holders, Holding, Close
<1>2. c \in Holders
  BY DEF Holders
<1>3. Cardinality(Holders \ {c}) = Cardinality(Holders) - 1
  BY <1>2, FS_RemoveElement, HoldersFinite
<1>4. Cardinality(Holders \ {c}) \in Nat
  BY FS_Subset, FS_CardinalityType, HoldersFinite, Holders \ {c} \subseteq Holders
<1> QED BY <1>1, <1>3, <1>4

\* The holders stay the same when a client is neither before nor after.
LEMMA NoneMore ==
  ASSUME TypeOK, NEW c \in Clients, NEW w, status' = [status EXCEPT ![c] = w],
         status[c] \in Holding <=> w \in Holding
  PROVE  Holders' = Holders
BY DEF TypeOK, Holders

-----------------------------------------------------------------------------
(* The backlog *)

\* The backlog part of the type invariant.
Backlog ==
  /\ backlog \in Seq(Clients)
  /\ \A c \in Clients :
       status[c] = "waiting" <=> \E i \in 1..Len(backlog) : backlog[i] = c
  /\ \A i, j \in 1..Len(backlog) : backlog[i] = backlog[j] => i = j

\* Who connects is put at the end, and was not in the backlog.
LEMMA Queues ==
  ASSUME TypeOK, NEW c \in Clients, Connect(c)
  PROVE  Backlog'
<1> USE DEF TypeOK, Connect
<1>1. backlog' \in Seq(Clients) /\ Len(backlog') = Len(backlog) + 1 /\ Len(backlog) \in Nat
  OBVIOUS
<1>2. \A i \in 1..Len(backlog) : backlog'[i] = backlog[i] /\ backlog[i] # c
  OBVIOUS
<1>3. backlog'[Len(backlog) + 1] = c
  OBVIOUS
<1>4. \A i \in 1..Len(backlog') : i \in 1..Len(backlog) \/ i = Len(backlog) + 1
  BY <1>1
<1>5. \A d \in Clients \ {c} : status'[d] = status[d]
  OBVIOUS
<1>6. status'[c] = "waiting"
  OBVIOUS
<1>7. 1..Len(backlog) \subseteq 1..Len(backlog') /\ Len(backlog) + 1 \in 1..Len(backlog')
  BY <1>1
<1>8. ASSUME NEW d \in Clients
      PROVE  status'[d] = "waiting" <=> \E i \in 1..Len(backlog') : backlog'[i] = d
  <2>1. CASE d = c
    BY <2>1, <1>3, <1>6, <1>7
  <2>2. CASE d # c
    BY <2>2, <1>2, <1>3, <1>4, <1>5, <1>7
  <2> QED BY <2>1, <2>2
<1>9. \A i, j \in 1..Len(backlog') : backlog'[i] = backlog'[j] => i = j
  BY <1>2, <1>3, <1>4
<1> QED BY <1>1, <1>8, <1>9 DEF Backlog

\* Who is taken waited, leaves the backlog, and the others stay in it.
LEMMA Takes ==
  ASSUME TypeOK, NEW c \in Clients, Take(c),
         NEW w, w # "waiting", status' = [status EXCEPT ![c] = w]
  PROVE  status[c] = "waiting" /\ Backlog'
<1> USE DEF TypeOK, Take
<1>1. /\ backlog' \in Seq(Clients) /\ Len(backlog) \in Nat \ {0}
      /\ Len(backlog') = Len(backlog) - 1 /\ c = backlog[1]
  OBVIOUS
<1>2. \A i \in 1..Len(backlog') : backlog'[i] = backlog[i + 1] /\ i + 1 \in 1..Len(backlog)
  BY <1>1
<1>3. status[c] = "waiting" /\ 1 \in 1..Len(backlog)
  BY <1>1
<1>4. \A i \in 1..Len(backlog) : i # 1 =>
         i - 1 \in 1..Len(backlog') /\ backlog'[i - 1] = backlog[i] /\ backlog[i] # c
  BY <1>1, <1>2, <1>3
<1>5. \A d \in Clients \ {c} : status'[d] = status[d]
  OBVIOUS
<1>6. status'[c] # "waiting"
  OBVIOUS
<1>7. \A i \in 1..Len(backlog') : backlog'[i] # c
  BY <1>1, <1>2, <1>4
<1>8. ASSUME NEW d \in Clients
      PROVE  status'[d] = "waiting" <=> \E i \in 1..Len(backlog') : backlog'[i] = d
  <2>1. CASE d = c
    BY <2>1, <1>6, <1>7
  <2>2. CASE d # c
    <3>1. status'[d] = "waiting" <=> \E i \in 1..Len(backlog) : backlog[i] = d
      BY <2>2, <1>5
    <3>2. ASSUME NEW i \in 1..Len(backlog), backlog[i] = d
          PROVE  \E j \in 1..Len(backlog') : backlog'[j] = d
      <4>1. i # 1
        BY <2>2, <3>2, <1>1
      <4> QED BY <4>1, <3>2, <1>4
    <3>3. ASSUME NEW i \in 1..Len(backlog'), backlog'[i] = d
          PROVE  \E j \in 1..Len(backlog) : backlog[j] = d
      BY <3>3, <1>2
    <3> QED BY <3>1, <3>2, <3>3
  <2> QED BY <2>1, <2>2
<1>9. \A i, j \in 1..Len(backlog') : backlog'[i] = backlog'[j] => i = j
  BY <1>1, <1>2
<1> QED BY <1>1, <1>3, <1>8, <1>9 DEF Backlog

-----------------------------------------------------------------------------
(* The invariant *)

\* At first all permits are free and the backlog is empty.
LEMMA Opens == Init => Books
<1> SUFFICES ASSUME Init PROVE Books
  OBVIOUS
<1> USE DEF Init
<1>1. Holders = {}
  BY DEF Holders, Holding
<1>2. Cardinality(Holders) = 0
  BY <1>1, FS_EmptySet
<1>3. TypeOK
  BY ListenerConstants DEF TypeOK
<1> QED
  BY <1>2, <1>3, ListenerConstants DEF Books, PermitsAreConserved, BurstIsBounded

\* Every permit taken is that of a connection, and comes back once.
LEMMA Keeps == Books /\ [Next]_vars => Books'
<1> SUFFICES ASSUME Books, [Next]_vars PROVE Books'
  OBVIOUS
<1> USE ListenerConstants DEF Books, PermitsAreConserved, BurstIsBounded
<1>0. Cardinality(Holders) \in Nat /\ TypeOK
  BY HoldersFinite
<1>1. ASSUME NEW c \in Clients, Connect(c) PROVE Books'
  <2>1. Holders' = Holders
    BY <1>0, <1>1, NoneMore DEF Connect, Holding
  <2>2. TypeOK'
    BY <1>0, <1>1, Queues DEF TypeOK, Connect, Backlog
  <2> QED BY <1>1, <2>1, <2>2 DEF Connect
<1>2. ASSUME NEW c \in Clients, OverTheRate(c) PROVE Books'
  <2>1. status[c] = "waiting" /\ Backlog'
    BY <1>0, <1>2, Takes, "closed" # "waiting" DEF OverTheRate, Close
  <2>2. Holders' = Holders
    BY <1>0, <1>2, <2>1, NoneMore DEF OverTheRate, Close, Holding
  <2>3. TypeOK'
    BY <1>0, <1>2, <2>1 DEF TypeOK, OverTheRate, Close, Backlog
  <2> QED BY <1>2, <2>2, <2>3 DEF OverTheRate
<1>3. ASSUME NEW c \in Clients, NoPermit(c) PROVE Books'
  <2>1. status[c] = "waiting" /\ Backlog'
    BY <1>0, <1>3, Takes, "closed" # "waiting" DEF NoPermit, Admit, Close
  <2>2. Holders' = Holders
    BY <1>0, <1>3, <2>1, NoneMore DEF NoPermit, Close, Holding
  <2>3. cells' = cells - 1 /\ cells' \in 0..Rate /\ burst' = burst + 1 /\ burst' \in Nat
    BY <1>0, <1>3 DEF TypeOK, NoPermit, Admit, Admits
  <2>4. TypeOK'
    BY <1>0, <1>3, <2>1, <2>3 DEF TypeOK, NoPermit, Close, Backlog
  <2>5. BurstIsBounded'
    BY <1>0, <2>3 DEF TypeOK
  <2> QED BY <1>3, <2>2, <2>4, <2>5 DEF NoPermit
<1>4. ASSUME NEW c \in Clients, Spawn(c) PROVE Books'
  <2>1. status[c] = "waiting" /\ Backlog'
    BY <1>0, <1>4, Takes, "handshake" # "waiting" DEF Spawn, Admit
  <2>2. Cardinality(Holders') = Cardinality(Holders) + 1
    BY <1>0, <1>4, <2>1, OneMore DEF Spawn, Holding
  <2>3. cells' = cells - 1 /\ cells' \in 0..Rate /\ burst' = burst + 1 /\ burst' \in Nat
    BY <1>0, <1>4 DEF TypeOK, Spawn, Admit, Admits
  <2>4. permits' = permits - 1 /\ permits' \in 0..MaxConnections
    BY <1>0, <1>4 DEF TypeOK, Spawn
  <2>5. TypeOK'
    BY <1>0, <1>4, <2>1, <2>3, <2>4 DEF TypeOK, Spawn, Holding, Backlog
  <2>6. PermitsAreConserved'
    BY <1>0, <2>2, <2>4 DEF TypeOK
  <2>7. BurstIsBounded'
    BY <1>0, <2>3 DEF TypeOK
  <2> QED BY <2>5, <2>6, <2>7
<1>5. ASSUME NEW c \in Clients, Handshake(c) PROVE Books'
  <2>1. Holders' = Holders
    BY <1>0, <1>5, NoneMore DEF Handshake, Holding
  <2>2. TypeOK'
    BY <1>0, <1>5 DEF TypeOK, Handshake, Holding
  <2> QED BY <1>5, <2>1, <2>2 DEF Handshake
<1>6. ASSUME NEW c \in Clients, End(c) PROVE Books'
  <2>1. Cardinality(Holders') = Cardinality(Holders) - 1
    BY <1>0, <1>6, OneLess DEF End
  <2>2. Cardinality(Holders') \in Nat
    BY <1>0, <1>6, OneLess DEF End
  <2>3. permits' = permits + 1 /\ permits' \in 0..MaxConnections
    BY <1>0, <1>6, <2>1, <2>2 DEF TypeOK, End
  <2>4. TypeOK'
    BY <1>0, <1>6, <2>3 DEF TypeOK, End, Close, Holding
  <2>5. PermitsAreConserved'
    BY <1>0, <2>1, <2>3 DEF TypeOK
  <2> QED BY <1>6, <2>4, <2>5 DEF End
<1>7. ASSUME Refill PROVE Books'
  BY <1>0, <1>7 DEF Refill, TypeOK, Holders
<1>8. ASSUME UNCHANGED vars PROVE Books'
  BY <1>0, <1>8 DEF vars, TypeOK, Holders
<1> QED
  BY <1>1, <1>2, <1>3, <1>4, <1>5, <1>6, <1>7, <1>8 DEF Next, Accept

\* Every variable keeps its type: the backlog holds those who wait, each once.
THEOREM ListenerTypes == Spec => []TypeOK
<1>1. Books => TypeOK
  BY DEF Books
<1> QED BY Opens, Keeps, <1>1, PTL DEF Spec

\* No connection loses or makes a permit, whatever its handshake and session do: the
\* free permits and the connections that hold one are max_connections.
THEOREM PermitsConserved == Spec => []PermitsAreConserved
<1>1. Books => PermitsAreConserved
  BY DEF Books
<1> QED BY Opens, Keeps, <1>1, PTL DEF Spec

\* Between two refills no more connections pass the limiter than its burst allows.
THEOREM BurstsBounded == Spec => []BurstIsBounded
<1>1. Books => BurstIsBounded
  BY DEF Books
<1> QED BY Opens, Keeps, <1>1, PTL DEF Spec
=============================================================================
