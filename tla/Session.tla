------------------------------- MODULE Session -------------------------------
(***************************************************************************)
(* POP3 sessions (server/session.rs, protocol/state.rs) over the maildirs  *)
(* they open (storage/maildir.rs, storage/adapter.rs).                     *)
(*                                                                         *)
(* A session is the loop of Session::run: it reads a line, runs one        *)
(* handler, sends one reply.  A handler runs to its reply without giving   *)
(* up control (the file system calls are synchronous), so a handler is one *)
(* step, except for the two loops over files, the login's move of new/     *)
(* into cur/ and the commit of the deletions, which other sessions can see *)
(* half done and a crash can cut: there every file is a step.              *)
(*                                                                         *)
(* A reply can end in three ways.  It is sent; the connection is lost, and *)
(* with it the session (the next send fails too, and run returns through   *)
(* `?`); or the client does not read, the command timeout drops the        *)
(* handler where it stood, and run is left in the send of                  *)
(* "-ERR Command timeout", which no timeout bounds.                        *)
(***************************************************************************)
EXTENDS Naturals, FiniteSets

CONSTANTS
  Sessions,          \* connections
  Users,             \* the accounts AuthStore knows
  NoUser,            \* the None of pending_username and current_user
  Maildirs,          \* directories holding new/ and cur/
  MaildirOf,         \* [Users -> Maildirs], StorageFactory::create_for_user
  Files,             \* message file names, as numbers in the order of names
  MaxAuthAttempts,   \* security.max_auth_attempts
  AttemptBound,      \* bound on auth_attempts, a u32 in the code
  MaxCrashes         \* bound on crashes of the server process

ASSUME UsersAssumption == NoUser \notin Users
ASSUME MaildirOfAssumption == MaildirOf \in [Users -> Maildirs]
ASSUME FilesAssumption == Files \subseteq Nat /\ IsFiniteSet(Files)
ASSUME BoundsAssumption ==
  MaxAuthAttempts \in Nat /\ AttemptBound \in Nat /\ MaxCrashes \in Nat

VARIABLES
  pc,        \* where Session::run stands
  state,     \* state_machine: the SessionState
  pending,   \* pending_username
  user,      \* current_user, and storage: they are set together
  marked,    \* messages_to_delete
  attempts,  \* auth_attempts
  todo,      \* what is left of the files a loop over files goes through
  newDir,    \* the files in new/ of each maildir
  curDir,    \* the files in cur/ of each maildir
  checks,    \* history: passwords this session had AuthStore verify
  quit,      \* history: the client said QUIT and it was let through
  expunged,  \* history: files delete_message removed
  refused,   \* history: marked files delete_message failed to remove
  crashes    \* crashes so far

conn == <<pending, user, marked, attempts, checks, quit>>
dirs == <<newDir, curDir, expunged>>
vars == <<pc, state, conn, todo, dirs, refused, crashes>>

Ended == {"none", "done", "aborted"}          \* no task runs the session
Live == {"ready",       \* in read_line
         "stalled",     \* in a send that no timeout bounds
         "farewell",    \* in the send of "-ERR Idle timeout"
         "opening",     \* in process_new_messages
         "committing"}  \* in commit_deletions
States == {"Authorization", "Transaction", "Update"}
NoOne == Users \cup {NoUser}

Mailbox(s) == MaildirOf[user[s]]

-----------------------------------------------------------------------------
(* Parts of the handlers *)

\* What a reply leaves run in: back in read_line, in an unbounded send, or gone.
ReplyEnds == {"ready", "stalled", "aborted"}

\* A slip: logging in again is let through after the login.
ValidTwice(c, st) ==
  CASE st = "Authorization" -> c \in {"USER", "PASS", "APOP", "QUIT", "CAPA"}
    [] st = "Transaction"   -> c \notin {"APOP"}
    [] st = "Update"        -> FALSE

\* The commands of the protocol, and where the state machine admits them.
Valid(c, st) ==
  CASE st = "Authorization" -> c \in {"USER", "PASS", "APOP", "QUIT", "CAPA"}
    [] st = "Transaction"   -> c \in {"STAT", "LIST", "RETR", "DELE", "NOOP",
                                      "RSET", "UIDL", "TOP", "QUIT", "CAPA"}
    [] st = "Update"        -> FALSE

\* A command the parser and the state machine let through to its handler.
Receive(s, c) == pc[s] = "ready" /\ Valid(c, state[s])

\* The number a listing of the files S gives to f: the list is sorted by name.
NumberIn(S, f) == Cardinality({g \in S : g <= f})

\* list_messages: the messages a session sees are the files in cur/.
Listing(s) == curDir[Mailbox(s)]

\* The reply of a handler that changed nothing.
Reply(s) ==
  /\ \E r \in ReplyEnds : pc' = [pc EXCEPT ![s] = r]
  /\ UNCHANGED <<state, conn, todo, dirs, refused, crashes>>

\* A slip: the state is not looked at before the commit.
AlwaysCommit(st) == "committing"

\* The loop of run ends: the deletions are committed in the state st = Update.
AfterLoop(st) == IF st = "Update" THEN "committing" ELSE "done"
Leave(s) ==
  /\ pc' = [pc EXCEPT ![s] = AfterLoop(state[s])]
  /\ todo' = [todo EXCEPT ![s] = marked[s]]
  /\ UNCHANGED <<state, conn, dirs, refused, crashes>>

-----------------------------------------------------------------------------
(* The AUTHORIZATION state *)

\* A connection is accepted: Session::new, then the greeting.
Accept(s) ==
  /\ pc[s] \in Ended
  /\ \E r \in ReplyEnds : pc' = [pc EXCEPT ![s] = r]
  /\ state' = [state EXCEPT ![s] = "Authorization"]
  /\ pending' = [pending EXCEPT ![s] = NoUser]
  /\ user' = [user EXCEPT ![s] = NoUser]
  /\ marked' = [marked EXCEPT ![s] = {}]
  /\ attempts' = [attempts EXCEPT ![s] = 0]
  /\ checks' = [checks EXCEPT ![s] = 0]
  /\ quit' = [quit EXCEPT ![s] = FALSE]
  /\ todo' = [todo EXCEPT ![s] = {}]
  /\ refused' = [refused EXCEPT ![s] = {}]
  /\ UNCHANGED <<dirs, crashes>>

HandleUser(s, u) ==
  /\ Receive(s, "USER")
  /\ pending' = [pending EXCEPT ![s] = u]
  /\ \E r \in ReplyEnds : pc' = [pc EXCEPT ![s] = r]
  /\ UNCHANGED <<state, user, marked, attempts, checks, quit, todo, dirs, refused, crashes>>

\* PASS with no username pending.
PassWithoutUser(s) ==
  /\ Receive(s, "PASS")
  /\ pending[s] = NoUser
  /\ Reply(s)

\* PASS with a username counts as an attempt, whatever comes of it.
Attempt(s) ==
  /\ Receive(s, "PASS")
  /\ pending[s] # NoUser
  /\ attempts[s] < AttemptBound
  /\ attempts' = [attempts EXCEPT ![s] = @ + 1]

\* A slip: the limit is compared with the count before this attempt.
OneTooLate(s) == attempts[s] > MaxAuthAttempts

\* The attempt is one too many; the session leaves its loop once it said so.
TooMany(s) == attempts[s] + 1 > MaxAuthAttempts
PassTooMany(s) ==
  /\ Attempt(s)
  /\ TooMany(s)
  /\ \E r \in ReplyEnds :
       pc' = [pc EXCEPT ![s] = IF r = "ready" THEN AfterLoop(state[s]) ELSE r]
  /\ UNCHANGED <<state, pending, user, marked, checks, quit, todo, dirs, refused, crashes>>

\* AuthStore::authenticate is asked.
Authenticate(s) ==
  /\ Attempt(s)
  /\ ~ TooMany(s)
  /\ checks' = [checks EXCEPT ![s] = @ + 1]

\* The password is wrong, or the account unknown or disabled.  The username is
\* forgotten only once the client has its answer.
PassRejected(s) ==
  /\ Authenticate(s)
  /\ \E r \in ReplyEnds :
       /\ pc' = [pc EXCEPT ![s] = r]
       /\ pending' = [pending EXCEPT ![s] = IF r = "ready" THEN NoUser ELSE @]
  /\ UNCHANGED <<state, user, marked, quit, todo, dirs, refused, crashes>>

\* A slip: the session enters TRANSACTION before its storage is opened.
TransitionFirst(s) ==
  /\ Authenticate(s)
  /\ \E r \in ReplyEnds : pc' = [pc EXCEPT ![s] = r]
  /\ state' = [state EXCEPT ![s] = "Transaction"]
  /\ UNCHANGED <<pending, user, marked, quit, todo, dirs, refused, crashes>>

\* The password is right, and the storage cannot be opened: create_for_user or
\* read_dir fails and `?` leaves the handler with the username still pending.
PassStorageError(s) ==
  /\ Authenticate(s)
  /\ \E r \in ReplyEnds : pc' = [pc EXCEPT ![s] = r]
  /\ UNCHANGED <<state, pending, user, marked, quit, todo, dirs, refused, crashes>>

\* The password is right: process_new_messages goes through what new/ holds.
PassAccepted(s) ==
  /\ Authenticate(s)
  /\ pc' = [pc EXCEPT ![s] = "opening"]
  /\ todo' = [todo EXCEPT ![s] = newDir[MaildirOf[pending[s]]]]
  /\ UNCHANGED <<state, pending, user, marked, quit, dirs, refused, crashes>>

\* A slip: the file is copied into cur/ and stays in new/.
OpenCopy(s, f) ==
  /\ pc[s] = "opening"
  /\ f \in todo[s]
  /\ todo' = [todo EXCEPT ![s] = @ \ {f}]
  /\ LET m == MaildirOf[pending[s]] IN
       \/ f \in newDir[m] /\ curDir' = [curDir EXCEPT ![m] = @ \cup {f}]
       \/ UNCHANGED curDir
  /\ UNCHANGED <<pc, state, conn, newDir, expunged, refused, crashes>>

\* One file is renamed into cur/, or the rename fails and is only logged: always
\* so for a file that another session's login moved first.
OpenMove(s, f) ==
  /\ pc[s] = "opening"
  /\ f \in todo[s]
  /\ todo' = [todo EXCEPT ![s] = @ \ {f}]
  /\ LET m == MaildirOf[pending[s]] IN
       \/ /\ f \in newDir[m]
          /\ newDir' = [newDir EXCEPT ![m] = @ \ {f}]
          /\ curDir' = [curDir EXCEPT ![m] = @ \cup {f}]
       \/ UNCHANGED <<newDir, curDir>>
  /\ UNCHANGED <<pc, state, conn, expunged, refused, crashes>>

\* Reading the directory fails on an entry: the login fails with files moved.
OpenError(s) ==
  /\ pc[s] = "opening"
  /\ todo[s] # {}
  /\ \E r \in ReplyEnds : pc' = [pc EXCEPT ![s] = r]
  /\ todo' = [todo EXCEPT ![s] = {}]
  /\ UNCHANGED <<state, conn, dirs, refused, crashes>>

\* A slip: the login waits for new/ to be empty.
OpenWhenEmpty(s) ==
  /\ pc[s] = "opening"
  /\ newDir[MaildirOf[pending[s]]] = {}
  /\ user' = [user EXCEPT ![s] = pending[s]]
  /\ state' = [state EXCEPT ![s] = "Transaction"]
  /\ pc' = [pc EXCEPT ![s] = "ready"]
  /\ pending' = [pending EXCEPT ![s] = NoUser]
  /\ UNCHANGED <<marked, attempts, checks, quit, todo, dirs, refused, crashes>>

\* Every file was gone through: the session has its user and its storage.
OpenDone(s) ==
  /\ pc[s] = "opening"
  /\ todo[s] = {}
  /\ user' = [user EXCEPT ![s] = pending[s]]
  /\ state' = [state EXCEPT ![s] = "Transaction"]
  /\ \E r \in ReplyEnds :
       /\ pc' = [pc EXCEPT ![s] = r]
       /\ pending' = [pending EXCEPT ![s] = IF r = "ready" THEN NoUser ELSE @]
  /\ UNCHANGED <<marked, attempts, checks, quit, todo, dirs, refused, crashes>>

HandleApop(s) == Receive(s, "APOP") /\ Reply(s)
HandleCapa(s) == Receive(s, "CAPA") /\ Reply(s)

-----------------------------------------------------------------------------
(* The TRANSACTION state *)

\* A slip: a listing picks up the mail that arrived since the login.
ListWithNew(s) ==
  /\ Receive(s, "LIST")
  /\ pc' = [pc EXCEPT ![s] = "ready"]
  /\ curDir' = [curDir EXCEPT ![Mailbox(s)] = @ \cup newDir[Mailbox(s)]]
  /\ newDir' = [newDir EXCEPT ![Mailbox(s)] = {}]
  /\ UNCHANGED <<state, conn, todo, expunged, refused, crashes>>

\* These read the maildir and change nothing, whether they find the message,
\* refuse the number, or fail because the file went away under them.
HandleStat(s) == Receive(s, "STAT") /\ Reply(s)
HandleList(s) == Receive(s, "LIST") /\ Reply(s)
HandleRetr(s) == Receive(s, "RETR") /\ Reply(s)
HandleNoop(s) == Receive(s, "NOOP") /\ Reply(s)
HandleUidl(s) == Receive(s, "UIDL") /\ Reply(s)
HandleTop(s)  == Receive(s, "TOP")  /\ Reply(s)

\* A slip: the number itself is marked, and not compared with the listing.
DeleByNumber(s, n) ==
  /\ Receive(s, "DELE")
  /\ marked' = [marked EXCEPT ![s] = @ \cup {n}]
  /\ \E r \in ReplyEnds : pc' = [pc EXCEPT ![s] = r]
  /\ UNCHANGED <<state, pending, user, attempts, checks, quit, todo, dirs, refused, crashes>>

\* DELE n marks the n-th message of a listing made now, by its name.
HandleDele(s, n) ==
  /\ Receive(s, "DELE")
  /\ marked' = [marked EXCEPT ![s] =
                  @ \cup {f \in Listing(s) : NumberIn(Listing(s), f) = n}]
  /\ \E r \in ReplyEnds : pc' = [pc EXCEPT ![s] = r]
  /\ UNCHANGED <<state, pending, user, attempts, checks, quit, todo, dirs, refused, crashes>>

HandleRset(s) ==
  /\ Receive(s, "RSET")
  /\ marked' = [marked EXCEPT ![s] = {}]
  /\ \E r \in ReplyEnds : pc' = [pc EXCEPT ![s] = r]
  /\ UNCHANGED <<state, pending, user, attempts, checks, quit, todo, dirs, refused, crashes>>

\* QUIT enters UPDATE before "Bye" is sent; the loop ends once it is sent.
HandleQuit(s) ==
  /\ Receive(s, "QUIT")
  /\ state' = [state EXCEPT ![s] = "Update"]
  /\ \E r \in ReplyEnds :
       /\ pc' = [pc EXCEPT ![s] = IF r = "ready" THEN AfterLoop("Update") ELSE r]
       /\ todo' = [todo EXCEPT ![s] = IF r = "ready" THEN marked[s] ELSE @]
  /\ quit' = [quit EXCEPT ![s] = TRUE]
  /\ UNCHANGED <<pending, user, marked, attempts, checks, dirs, refused, crashes>>

\* A line too long, one that does not parse, or a command of another state.
RefuseCommand(s) == pc[s] = "ready" /\ Reply(s)

-----------------------------------------------------------------------------
(* Ends of a session *)

\* The client closes the connection, or reading from it fails.
Disconnect(s) == pc[s] = "ready" /\ Leave(s)

\* A slip: an idle session is closed as QUIT would close it.
IdleQuits(s) ==
  /\ pc[s] = "ready"
  /\ state' = [state EXCEPT ![s] = "Update"]
  /\ pc' = [pc EXCEPT ![s] = AfterLoop("Update")]
  /\ todo' = [todo EXCEPT ![s] = marked[s]]
  /\ UNCHANGED <<conn, dirs, refused, crashes>>

\* No command for idle_timeout_secs.  The loop ends when the client is told, and
\* the whole of run when it cannot be.
IdleTimeout(s) ==
  /\ pc[s] = "ready"
  /\ \/ Leave(s)
     \/ /\ \E r \in {"farewell", "aborted"} : pc' = [pc EXCEPT ![s] = r]
        /\ UNCHANGED <<state, conn, todo, dirs, refused, crashes>>

\* The client reads again, or is gone.
Unstall(s) ==
  /\ pc[s] = "stalled"
  /\ \E r \in {"ready", "aborted"} : pc' = [pc EXCEPT ![s] = r]
  /\ UNCHANGED <<state, conn, todo, dirs, refused, crashes>>

Farewell(s) ==
  /\ pc[s] = "farewell"
  /\ \/ Leave(s)
     \/ /\ pc' = [pc EXCEPT ![s] = "aborted"]
        /\ UNCHANGED <<state, conn, todo, dirs, refused, crashes>>

\* A slip: the first removal that fails ends the commit.
ExpungeUntilError(s, f) ==
  /\ pc[s] = "committing"
  /\ f \in todo[s]
  /\ \/ /\ f \in Listing(s)
        /\ todo' = [todo EXCEPT ![s] = @ \ {f}]
        /\ curDir' = [curDir EXCEPT ![Mailbox(s)] = @ \ {f}]
        /\ expunged' = [expunged EXCEPT ![Mailbox(s)] = @ \cup {f}]
        /\ UNCHANGED refused
     \/ /\ refused' = [refused EXCEPT ![s] = @ \cup {f}]
        /\ todo' = [todo EXCEPT ![s] = {}]
        /\ UNCHANGED <<curDir, expunged>>
  /\ UNCHANGED <<pc, state, conn, newDir, crashes>>

\* commit_deletions: a marked file is removed, or its removal fails and is only
\* logged: always so for a file that another session has removed.
Expunge(s, f) ==
  /\ pc[s] = "committing"
  /\ f \in todo[s]
  /\ todo' = [todo EXCEPT ![s] = @ \ {f}]
  /\ \/ /\ f \in Listing(s)
        /\ curDir' = [curDir EXCEPT ![Mailbox(s)] = @ \ {f}]
        /\ expunged' = [expunged EXCEPT ![Mailbox(s)] = @ \cup {f}]
        /\ UNCHANGED refused
     \/ /\ refused' = [refused EXCEPT ![s] = @ \cup {f}]
        /\ UNCHANGED <<curDir, expunged>>
  /\ UNCHANGED <<pc, state, conn, newDir, crashes>>

CommitDone(s) ==
  /\ pc[s] = "committing"
  /\ todo[s] = {}
  /\ marked' = [marked EXCEPT ![s] = {}]
  /\ pc' = [pc EXCEPT ![s] = "done"]
  /\ UNCHANGED <<state, pending, user, attempts, checks, quit, todo, dirs, refused, crashes>>

-----------------------------------------------------------------------------
(* The environment *)

\* The mail transfer agent delivers a file of a fresh name into new/.
Deliver(m, f) ==
  /\ \A b \in Maildirs : f \notin newDir[b] \cup curDir[b] \cup expunged[b]
  /\ newDir' = [newDir EXCEPT ![m] = @ \cup {f}]
  /\ UNCHANGED <<pc, state, conn, todo, curDir, expunged, refused, crashes>>

\* The server process dies; the files stay.
Crash ==
  /\ crashes < MaxCrashes
  /\ \E s \in Sessions : pc[s] \in Live
  /\ crashes' = crashes + 1
  /\ pc' = [s \in Sessions |-> IF pc[s] \in Live THEN "aborted" ELSE pc[s]]
  /\ UNCHANGED <<state, conn, todo, dirs, refused>>

-----------------------------------------------------------------------------
Init ==
  /\ pc = [s \in Sessions |-> "none"]
  /\ state = [s \in Sessions |-> "Authorization"]
  /\ pending = [s \in Sessions |-> NoUser]
  /\ user = [s \in Sessions |-> NoUser]
  /\ marked = [s \in Sessions |-> {}]
  /\ attempts = [s \in Sessions |-> 0]
  /\ checks = [s \in Sessions |-> 0]
  /\ quit = [s \in Sessions |-> FALSE]
  /\ todo = [s \in Sessions |-> {}]
  /\ refused = [s \in Sessions |-> {}]
  /\ newDir = [m \in Maildirs |-> {}]
  /\ curDir = [m \in Maildirs |-> {}]
  /\ expunged = [m \in Maildirs |-> {}]
  /\ crashes = 0

\* A line is read and answered.
Command(s) ==
  \/ \E u \in Users : HandleUser(s, u)
  \/ PassWithoutUser(s) \/ PassTooMany(s) \/ PassRejected(s)
  \/ PassStorageError(s) \/ PassAccepted(s)
  \/ HandleApop(s) \/ HandleCapa(s)
  \/ HandleStat(s) \/ HandleList(s) \/ HandleRetr(s) \/ HandleNoop(s)
  \/ HandleUidl(s) \/ HandleTop(s)
  \/ \E n \in 1..(Cardinality(Files) + 1) : HandleDele(s, n)
  \/ HandleRset(s) \/ HandleQuit(s) \/ RefuseCommand(s)

\* A step of a loop over files.
Opening(s) == (\E f \in Files : OpenMove(s, f)) \/ OpenError(s) \/ OpenDone(s)
Committing(s) == (\E f \in Files : Expunge(s, f)) \/ CommitDone(s)

SessionStep(s) ==
  \/ Accept(s) \/ Command(s) \/ Opening(s) \/ Committing(s)
  \/ Disconnect(s) \/ IdleTimeout(s) \/ Unstall(s) \/ Farewell(s)

Next ==
  \/ \E s \in Sessions : SessionStep(s)
  \/ \E m \in Maildirs, f \in Files : Deliver(m, f)
  \/ Crash

Spec == Init /\ [][Next]_vars

\* The loops over files never wait, so the task that runs one gets through it.
Fairness == \A s \in Sessions : WF_vars(Opening(s)) /\ WF_vars(Committing(s))
FairSpec == Spec /\ Fairness

-----------------------------------------------------------------------------
(* Properties *)

\* Every variable holds a value of its kind; a mark or a loop over files is about
\* files that exist, never about a number a client made up (DELE of a number past
\* the end of the listing).
TypeOK ==
  /\ pc \in [Sessions -> Live \cup Ended]
  /\ state \in [Sessions -> States]
  /\ pending \in [Sessions -> NoOne]
  /\ user \in [Sessions -> NoOne]
  /\ marked \in [Sessions -> SUBSET Files]
  /\ attempts \in [Sessions -> 0..AttemptBound]
  /\ checks \in [Sessions -> Nat]
  /\ quit \in [Sessions -> BOOLEAN]
  /\ todo \in [Sessions -> SUBSET Files]
  /\ refused \in [Sessions -> SUBSET Files]
  /\ newDir \in [Maildirs -> SUBSET Files]
  /\ curDir \in [Maildirs -> SUBSET Files]
  /\ expunged \in [Maildirs -> SUBSET Files]
  /\ crashes \in 0..MaxCrashes

\* Where a session stands agrees with what it holds: a login in progress has its
\* username, only a session in UPDATE commits, and what it commits are its marks;
\* before the login there is no user and no mark; UPDATE is entered by QUIT only.
StandsWhereItShould ==
  \A s \in Sessions :
    /\ pc[s] = "opening" => pending[s] # NoUser /\ state[s] = "Authorization"
    /\ pc[s] = "committing" => state[s] = "Update" /\ todo[s] \subseteq marked[s]
    /\ state[s] = "Authorization" => user[s] = NoUser
    /\ user[s] = NoUser => marked[s] = {}
    /\ state[s] = "Update" => quit[s]

\* However PASS is interleaved with USER, stalled replies, storage errors and
\* failed logins, one connection has at most max_auth_attempts passwords verified.
GuessesAreBounded == \A s \in Sessions : checks[s] <= MaxAuthAttempts

\* A session in TRANSACTION has a user and a storage: the unwrap() calls that open
\* every handler of that state cannot panic, on whatever path the login took.
HandlersNeverPanic ==
  \A s \in Sessions : state[s] = "Transaction" => user[s] # NoUser

\* What a session has marked are messages of the mailbox it logged in to, which
\* are there still or have been expunged: marks never follow a session into
\* another mailbox, and no other session's login or commit can turn them stale.
MarksStayInTheirMailbox ==
  \A s \in Sessions : marked[s] # {} =>
     /\ user[s] # NoUser
     /\ marked[s] \subseteq Listing(s) \cup expunged[Mailbox(s)]

\* A message that was deleted is never found in a mailbox again, whatever logins
\* were moving new/ into cur/ or were cut in the middle of it.
ExpungedStaysGone ==
  \A m \in Maildirs : expunged[m] \cap (newDir[m] \cup curDir[m]) = {}

\* A message is in one place: new/ or cur/.
InOnePlace == \A m \in Maildirs : newDir[m] \cap curDir[m] = {}

\* The inductive invariant of the safety theorems: everything above, and the count
\* of verified passwords held against the attempts.
SessionInv ==
  /\ TypeOK
  /\ StandsWhereItShould
  /\ \A s \in Sessions : checks[s] <= attempts[s]
  /\ GuessesAreBounded
  /\ HandlersNeverPanic
  /\ MarksStayInTheirMailbox
  /\ ExpungedStaysGone
  /\ InOnePlace

\* Mail leaves a mailbox only by the commit of a session that logged in to that
\* mailbox, marked that message and said QUIT: not by a lost connection, an idle
\* timeout, a stalled reply, a failed login or a crash.
OnlyQuitExpunges ==
  [][\A m \in Maildirs : \A f \in newDir[m] \cup curDir[m] :
        f \notin newDir'[m] \cup curDir'[m] =>
          \E s \in Sessions : /\ quit[s]
                              /\ user[s] # NoUser
                              /\ Mailbox(s) = m
                              /\ f \in marked[s]]_vars

\* A session at work on mailbox m: logged in to it, or in the middle of logging in.
InTransaction(s) == pc[s] \in Live /\ state[s] = "Transaction"
AtWorkOn(s, m) ==
  \/ pc[s] \in Live /\ user[s] # NoUser /\ Mailbox(s) = m
  \/ pc[s] = "opening" /\ MaildirOf[pending[s]] = m
Alone(s) == \A t \in Sessions \ {s} : ~ AtWorkOn(t, Mailbox(s))

\* Every handler lists cur/ anew, so a message number means what it meant before
\* only if cur/ is left alone: it is, by deliveries and by every other session's
\* work, as long as no other session is at work on the same mailbox.
ListingStableWhenAlone ==
  [][\A s \in Sessions : InTransaction(s) /\ Alone(s) =>
        curDir'[Mailbox(s)] = curDir[Mailbox(s)]]_vars

\* The abstract specification, the mail of a mailbox being that of new/ and cur/.
\* A session counts from the moment its login succeeded until its task ends.
NoBox == NoUser
Phase(s) ==
  IF pc[s] \in Ended \/ user[s] = NoUser THEN "shut"
  ELSE IF state[s] = "Update" THEN "closing" ELSE "open"
Drop == INSTANCE Maildrop WITH
  Boxes <- Maildirs,
  Messages <- Files,
  mail <- [m \in Maildirs |-> newDir[m] \cup curDir[m]],
  gone <- expunged,
  box <- [s \in Sessions |-> IF Phase(s) = "shut" THEN NoBox ELSE Mailbox(s)],
  marks <- [s \in Sessions |-> IF Phase(s) = "shut" THEN {} ELSE marked[s]],
  phase <- [s \in Sessions |-> Phase(s)]

\* The server, with its timeouts, errors and crashes, is a Maildrop.
ImplementsMaildrop == Drop!Spec

\* Once a session commits, every message it marked leaves the mailbox, unless its
\* removal failed (and is only logged) or the server dies first.
ByeIsKept ==
  \A s \in Sessions, f \in Files :
     (pc[s] = "committing" /\ f \in marked[s]) ~>
        \/ \A m \in Maildirs : f \notin curDir[m]
        \/ f \in refused[s]
        \/ pc[s] = "aborted"

\* A login that verified its password gets through new/, however mail arrives
\* meanwhile: it ends up logged in, failed or cut off.
LoginsEnd == \A s \in Sessions : pc[s] = "opening" ~> pc[s] # "opening"

\* RFC 1939, which README.md:7 claims: a message keeps its number for as long as
\* the session that saw it is in TRANSACTION.
NumbersAreKept ==
  [][\A s \in Sessions : InTransaction(s) =>
        \A f \in Listing(s) :
           /\ f \in curDir'[Mailbox(s)]
           /\ NumberIn(curDir'[Mailbox(s)], f) = NumberIn(Listing(s), f)]_vars
=============================================================================
