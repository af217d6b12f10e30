------------------------------- MODULE AuthStore -------------------------------
(***************************************************************************)
(* The account store (auth/store.rs): users.toml, the map the management   *)
(* API reads and changes, the save that follows every change, the watcher  *)
(* that reloads the file, and the second store the POP3 server loads for   *)
(* its logins (server/listener.rs).                                        *)
(*                                                                         *)
(* Requests run on several threads and share the map through a lock they   *)
(* hold for one insertion, one copy or one replacement: each of those is a *)
(* step, and so are the truncation and the filling of the file, the steps  *)
(* of the watcher, and what the one who edits the file by hand does.       *)
(*                                                                         *)
(* A write may fail before the file is open or anywhere after it was cut,  *)
(* the process may be killed anywhere, and the watcher may not start.      *)
(*                                                                         *)
(* Time goes in ticks of 100 ms and passes only when no task can run: what *)
(* is ready to run does so within a tick.  The debounce of the saves makes *)
(* no sense without such an assumption.                                    *)
(***************************************************************************)
EXTENDS Naturals

CONSTANTS
  Keys,        \* account names, as make_key makes them
  Fields,      \* the parts of an account that PUT changes one by one
  Data,        \* the values of a field
  Requests,    \* requests the API serves at a time
  QueueCap,    \* capacity of the watcher's channel (16 in the code)
  Debounce,    \* SAVE_DEBOUNCE_DURATION in ticks (5 in the code)
  Sleep,       \* the watcher's wait before a reload in ticks (1 in the code)
  Editing,     \* whether somebody edits the file by hand
  Crashing,    \* whether the server process may be killed
  Apart,       \* what keeps out of each other's way: "requests" of one another,
               \* "edits" of requests, edits of the "start" of the server
  NoUser,      \* no account under this name
  Empty,       \* the content of a file that was truncated
  Torn         \* the content of a file that does not parse: mixed up by two
               \* writers, or cut off in the middle of an account

Records == [Fields -> Data]
Maps == [Keys -> Records \cup {NoUser}]

ASSUME AuthConstants ==
  /\ NoUser \notin Records
  /\ Empty \notin Maps /\ Torn \notin Maps /\ Empty # Torn
  /\ QueueCap \in Nat \ {0}
  /\ Sleep \in Nat \ {0} /\ Debounce \in Nat /\ Sleep < Debounce
  /\ Editing \in BOOLEAN /\ Crashing \in BOOLEAN /\ Apart \subseteq {"requests", "edits", "start"}

VARIABLES
  up,         \* the server: "down", "loaded" (its accounts), "up" or
              \* "stopping"
  users,      \* AuthStore.users of the API
  logins,     \* AuthStore.users of the POP3 server; Empty before it is loaded
  file,       \* users.toml: one of Maps, Empty or Torn
  age,        \* ticks since last_save_time, up to Debounce; Debounce also for None
  raised,     \* the kernel has a modification event that notify has not read
  queue,      \* events in the watcher's channel
  watcher,    \* where the watcher's task stands; "none" if there is none
  nap,        \* ticks it still sleeps
  got,        \* the map it read from the file
  phase,      \* where each request stands
  copy,       \* the account a request is about; PUT: what it read and is to change
  snap,       \* the map a save has copied
  editor,     \* whether an edit by hand is being written
  writer,     \* history: the last to write the file was a "save", a save "cut"
              \* by an error, or an "other"
  meant,      \* history: what acknowledged requests and edits amount to
  unsaved,    \* history: accounts whose change failed to reach the file
  spoilt,     \* history: a write was cut once the file was truncated, or a save
              \* wrote over an unseen edit, and what was meant is not yet back
  unseen      \* history: there was an edit while no watcher ran

clockVars == <<age, nap>>
watchVars == <<raised, queue, watcher, got>>
apiVars == <<phase, copy, snap>>
excuses == <<unsaved, spoilt, unseen>>
history == <<writer, meant, excuses>>
vars == <<up, users, logins, file, clockVars, watchVars, apiVars, editor, history>>

-----------------------------------------------------------------------------
Free == \A r \in Requests : phase[r] = "free"

\* Nothing is under way: no request, no edit, and no event the watcher has to see.
Settled ==
  Free /\ editor = "idle" /\ watcher \in {"none", "waiting"} /\ queue = 0 /\ ~ raised

\* When a request, and an edit, may begin.  An edit that keeps apart from requests
\* comes when the last save is more than the debounce ago, and requests wait until
\* it was reloaded.
MayRequest(r) ==
  /\ up = "up"
  /\ phase[r] = "free"
  /\ "requests" \in Apart => Free
  /\ "edits" \in Apart => editor = "idle" /\ (Settled \/ age < Debounce)
MayEdit ==
  /\ Editing
  /\ editor = "idle"
  /\ "edits" \in Apart => Free /\ age = Debounce
  /\ "start" \in Apart => up # "loaded"

\* There is a watcher, so that a change of the file raises an event.
Watched == watcher # "none"

\* A request at rest keeps no copy.
NoCopy == [user |-> NoUser]

\* The request's change is in the map; the save comes next.
Changed(r, k, m, intent) ==
  /\ users' = m
  /\ meant' = intent
  /\ phase' = [phase EXCEPT ![r] = "saving"]
  /\ copy' = [copy EXCEPT ![r] = [key |-> k, user |-> NoUser]]

\* The request is answered.
Done(r) ==
  /\ phase' = [phase EXCEPT ![r] = "free"]
  /\ copy' = [copy EXCEPT ![r] = NoCopy]

(* The requests of the management API *)

\* create_user: upsert_user inserts, whether the account exists or not.
PostUser(r, k, u) ==
  /\ MayRequest(r)
  /\ Changed(r, k, [users EXCEPT ![k] = u], [meant EXCEPT ![k] = u])
  /\ UNCHANGED <<up, logins, file, clockVars, watchVars, snap, editor, writer, excuses>>

\* update_user reads a copy of the account.
PutGet(r, k, f, d) ==
  /\ MayRequest(r)
  /\ users[k] # NoUser
  /\ phase' = [phase EXCEPT ![r] = "got"]
  /\ copy' = [copy EXCEPT ![r] = [key |-> k, field |-> f, data |-> d, user |-> users[k]]]
  /\ UNCHANGED <<up, users, logins, file, clockVars, watchVars, snap, editor, history>>

\* ... and upserts the copy with the field changed.
PutUpsert(r) ==
  /\ phase[r] = "got"
  /\ LET c == copy[r] IN
       Changed(r, c.key, [users EXCEPT ![c.key] = [c.user EXCEPT ![c.field] = c.data]],
               IF meant[c.key] = NoUser THEN meant
               ELSE [meant EXCEPT ![c.key][c.field] = c.data])
  /\ UNCHANGED <<up, logins, file, clockVars, watchVars, snap, editor, writer, excuses>>

\* The password cannot be hashed.
PutError(r) ==
  /\ phase[r] = "got"
  /\ Done(r)
  /\ UNCHANGED <<up, users, logins, file, clockVars, watchVars, snap, editor, history>>

\* A slip: the account is removed from the map only.
RemoveUnsaved(r, k) ==
  /\ MayRequest(r)
  /\ users[k] # NoUser
  /\ users' = [users EXCEPT ![k] = NoUser]
  /\ meant' = [meant EXCEPT ![k] = NoUser]
  /\ UNCHANGED <<up, logins, file, clockVars, watchVars, apiVars, editor, writer, excuses>>

\* delete_user: remove_user saves if there was an account to remove.
DeleteUser(r, k) ==
  /\ MayRequest(r)
  /\ users[k] # NoUser
  /\ Changed(r, k, [users EXCEPT ![k] = NoUser], [meant EXCEPT ![k] = NoUser])
  /\ UNCHANGED <<up, logins, file, clockVars, watchVars, snap, editor, writer, excuses>>

(* auto_save *)

\* save copies the map.
Snapshot(r) ==
  /\ phase[r] = "saving"
  /\ phase' = [phase EXCEPT ![r] = "writing"]
  /\ snap' = [snap EXCEPT ![r] = users]
  /\ UNCHANGED <<up, users, logins, file, clockVars, watchVars, copy, editor, history>>

\* fs::write opens the file and truncates it.
Truncate(r) ==
  /\ phase[r] = "writing"
  /\ phase' = [phase EXCEPT ![r] = "filling"]
  /\ file' = Empty
  /\ raised' = Watched
  /\ UNCHANGED <<up, users, logins, clockVars, queue, watcher, got, copy, snap, editor, history>>

\* The file cannot be opened for writing: the error is logged, and the request
\* succeeds.
WriteError(r) ==
  /\ phase[r] = "writing"
  /\ Done(r)
  /\ unsaved' = unsaved \cup {copy[r].key}
  /\ UNCHANGED <<up, users, logins, file, clockVars, watchVars, snap, editor, writer, meant,
                 spoilt, unseen>>

\* What a write of m leaves in the file: m if the file is as the truncation left it
\* or holds the same.  If another writer filled it since, the longer of the two
\* contents keeps its tail: m is there, or what was there is there still, or neither.
Written(m) == IF file \in {Empty, m} THEN {m} ELSE {m, file, Torn}

\* Whether a file of this content shows of account k what m has.
Shows(content, k, m) == content \in Maps /\ content[k] = m[k]

\* ... and writes the content.
Fill(r) ==
  /\ phase[r] = "filling"
  /\ phase' = [phase EXCEPT ![r] = "stamping"]
  /\ file' \in Written(snap[r])
  /\ raised' = Watched
  /\ writer' = "save"
  /\ unsaved' = {k \in unsaved : ~ (Shows(file', k, users) /\ Shows(file', k, meant))}
  /\ spoilt' = ((spoilt \/ unseen) /\ file' # meant)
  /\ UNCHANGED <<up, users, logins, clockVars, queue, watcher, got, copy, snap, editor,
                 meant, unseen>>

\* What is left of m when its end is missing: some of the accounts, unless the file
\* ends in the middle of one or before the first.
Partial(m) ==
  LET first(S) == [k \in Keys |-> IF k \in S THEN m[k] ELSE NoUser]
  IN  {file, Torn} \cup {first(S) : S \in {S \in SUBSET Keys : \E k \in S : m[k] # NoUser}}

\* ... or fails to, the disk being full: no time is kept, the error is logged, and the
\* request succeeds.
FillError(r) ==
  /\ phase[r] = "filling"
  /\ Done(r)
  /\ file' \in Partial(snap[r])
  /\ raised' = Watched
  /\ writer' = "cut"
  /\ unsaved' = unsaved \cup {copy[r].key}
  /\ spoilt' = TRUE
  /\ UNCHANGED <<up, users, logins, clockVars, queue, watcher, got, snap, editor, meant, unseen>>

\* A slip: the time of the save is not kept.
StampForgotten(r) ==
  /\ phase[r] = "stamping"
  /\ Done(r)
  /\ UNCHANGED <<up, users, logins, file, clockVars, watchVars, snap, editor, history>>

\* last_save_time is set, and the request is answered.
Stamp(r) ==
  /\ phase[r] = "stamping"
  /\ Done(r)
  /\ age' = 0
  /\ UNCHANGED <<up, users, logins, file, nap, watchVars, snap, editor, history>>

RequestStep(r) ==
  \/ PutUpsert(r) \/ PutError(r) \/ Snapshot(r) \/ Truncate(r) \/ WriteError(r)
  \/ Fill(r) \/ FillError(r) \/ Stamp(r)

-----------------------------------------------------------------------------
(* The watcher *)

\* A slip: an event is sent to a channel of no limit.
NotifyAlways ==
  /\ raised
  /\ raised' = FALSE
  /\ queue' = queue + 1
  /\ UNCHANGED <<up, users, logins, file, clockVars, watcher, got, apiVars, editor, history>>

\* notify's thread sends an event to the channel, or drops it if that is full.
Notify ==
  /\ raised
  /\ raised' = FALSE
  /\ queue' = IF queue < QueueCap THEN queue + 1 ELSE queue
  /\ UNCHANGED <<up, users, logins, file, clockVars, watcher, got, apiVars, editor, history>>

\* An event is received.
Wake ==
  /\ watcher = "waiting"
  /\ queue > 0
  /\ queue' = queue - 1
  /\ watcher' = "sleeping"
  /\ nap' = Sleep
  /\ UNCHANGED <<up, users, logins, file, age, raised, got, apiVars, editor, history>>

\* After the sleep, the events that came meanwhile are thrown away.
Drain ==
  /\ watcher = "sleeping"
  /\ nap = 0
  /\ watcher' = "checking"
  /\ queue' = 0
  /\ UNCHANGED <<up, users, logins, file, clockVars, raised, got, apiVars, editor, history>>

\* reload does nothing within the debounce of a save.
Check ==
  /\ watcher = "checking"
  /\ watcher' = IF age < Debounce THEN "waiting" ELSE "reading"
  /\ UNCHANGED <<up, users, logins, file, clockVars, raised, queue, got, apiVars, editor, history>>

\* A slip: a file that does not parse ends the watcher's loop.
ReadOrStop ==
  /\ watcher = "reading"
  /\ watcher' = IF file \in Maps THEN "installing" ELSE "stopped"
  /\ got' = IF file \in Maps THEN file ELSE got
  /\ UNCHANGED <<up, users, logins, file, clockVars, raised, queue, apiVars, editor, history>>

\* reload reads the file; if it does not parse the error is logged.
Read ==
  /\ watcher = "reading"
  /\ watcher' = IF file \in Maps THEN "installing" ELSE "waiting"
  /\ got' = IF file \in Maps THEN file ELSE got
  /\ UNCHANGED <<up, users, logins, file, clockVars, raised, queue, apiVars, editor, history>>

\* A slip: the events are thrown away after the reload.
InstallThenDrain ==
  /\ watcher = "installing"
  /\ watcher' = "waiting"
  /\ users' = got
  /\ queue' = 0
  /\ UNCHANGED <<up, logins, file, clockVars, raised, got, apiVars, editor, history>>

\* ... and replaces the map.
Install ==
  /\ watcher = "installing"
  /\ watcher' = "waiting"
  /\ users' = got
  /\ UNCHANGED <<up, logins, file, clockVars, raised, queue, got, apiVars, editor, history>>

WatcherStep == Wake \/ Drain \/ Check \/ Read \/ Install

-----------------------------------------------------------------------------
(* The environment *)

\* Somebody saves users.toml in an editor that writes the file in place.
EditBegin ==
  /\ MayEdit
  /\ editor' = "writing"
  /\ file' = Empty
  /\ raised' = Watched
  /\ writer' = "other"
  /\ UNCHANGED <<up, users, logins, clockVars, queue, watcher, got, apiVars, meant, excuses>>

EditEnd(m) ==
  /\ editor = "writing"
  /\ "start" \in Apart => up # "loaded"
  /\ editor' = "idle"
  /\ file' \in Written(m)
  /\ raised' = Watched
  /\ writer' = "other"
  /\ meant' = m
  /\ unsaved' = {}
  /\ spoilt' = FALSE
  /\ unseen' = (up # "down" /\ ~ Watched)
  /\ UNCHANGED <<up, users, logins, clockVars, queue, watcher, got, apiVars>>

\* A task can run.
Busy ==
  \/ \E r \in Requests : phase[r] # "free"
  \/ raised
  \/ watcher = "waiting" /\ queue > 0
  \/ watcher = "sleeping" /\ nap = 0
  \/ watcher \in {"checking", "reading", "installing"}

\* 100 ms pass.
Tick ==
  /\ ~ Busy
  /\ age < Debounce \/ nap > 0
  /\ age' = IF age < Debounce THEN age + 1 ELSE age
  /\ nap' = IF nap > 0 THEN nap - 1 ELSE nap
  /\ UNCHANGED <<up, users, logins, file, watchVars, apiVars, editor, history>>

\* The process ends; what only memory held is gone, and a save is cut where it is.
Down ==
  /\ up' = "down"
  /\ unsaved' = unsaved \cup
       {copy[r].key : r \in {r \in Requests : phase[r] \in {"saving", "writing", "filling"}}}
  /\ spoilt' = (spoilt \/ \E r \in Requests : phase[r] = "filling")
  /\ unseen' = FALSE
  /\ phase' = [r \in Requests |-> "free"]
  /\ copy' = [r \in Requests |-> NoCopy]
  /\ raised' = FALSE
  /\ queue' = 0
  /\ watcher' = "none"
  /\ nap' = 0
  /\ age' = Debounce
  /\ UNCHANGED <<users, logins, file, got, snap, editor, writer, meant>>

Crash == Crashing /\ up # "down" /\ Down

\* main loads the file.  With a file that does not parse the server does not start.
Boot ==
  /\ up = "down"
  /\ file \in Maps
  /\ up' = "loaded"
  /\ users' = file
  /\ logins' = Empty
  /\ writer' = "other"
  /\ meant' = [k \in Keys |-> IF k \in unsaved THEN file[k] ELSE meant[k]]
  /\ unsaved' = {}
  /\ UNCHANGED <<file, clockVars, watchVars, apiVars, editor, spoilt, unseen>>

\* ... and then starts the watcher and the API: a change in between raises no event.
StartWatcher ==
  /\ up = "loaded"
  /\ up' = "up"
  /\ watcher' = "waiting"
  /\ UNCHANGED <<users, logins, file, clockVars, raised, queue, got, apiVars, editor, history>>

\* ... or, if the watcher cannot be had, a warning is logged and the server goes on
\* without one.
StartWatcherError ==
  /\ up = "loaded"
  /\ up' = "up"
  /\ UNCHANGED <<users, logins, file, clockVars, watchVars, apiVars, editor, history>>

\* Pop3Server::new loads the file for itself, once.
PopLoad ==
  /\ up = "up"
  /\ logins = Empty
  /\ file \in Maps
  /\ logins' = file
  /\ UNCHANGED <<up, users, file, clockVars, watchVars, apiVars, editor, history>>

\* ... or finds it half written, and main returns the error.
PopLoadError ==
  /\ up = "up"
  /\ logins = Empty
  /\ file \notin Maps
  /\ up' = "stopping"
  /\ UNCHANGED <<users, logins, file, clockVars, watchVars, apiVars, editor, history>>

\* The runtime drops its tasks, which it can wherever they await something: not in
\* the middle of fs::write.
Exit ==
  /\ up = "stopping"
  /\ \A r \in Requests : phase[r] # "filling"
  /\ Down

-----------------------------------------------------------------------------
Init ==
  /\ up = "down"
  /\ file \in Maps
  /\ users = file
  /\ logins = Empty
  /\ age = Debounce
  /\ raised = FALSE
  /\ queue = 0
  /\ watcher = "none"
  /\ nap = 0
  /\ got = file
  /\ phase = [r \in Requests |-> "free"]
  /\ copy = [r \in Requests |-> NoCopy]
  /\ snap = [r \in Requests |-> file]
  /\ editor = "idle"
  /\ writer = "other"
  /\ meant = file
  /\ unsaved = {}
  /\ spoilt = FALSE
  /\ unseen = FALSE

NewRequest(r) ==
  \E k \in Keys :
    \/ \E u \in Records : PostUser(r, k, u)
    \/ \E f \in Fields, d \in Data : PutGet(r, k, f, d)
    \/ DeleteUser(r, k)

Next ==
  \/ \E r \in Requests : NewRequest(r) \/ RequestStep(r)
  \/ Notify \/ WatcherStep \/ Tick
  \/ EditBegin \/ \E m \in Maps : EditEnd(m)
  \/ Crash \/ Boot \/ StartWatcher \/ StartWatcherError \/ PopLoad \/ PopLoadError \/ Exit

Spec == Init /\ [][Next]_vars

\* What runs gets on, and time passes.
Fairness ==
  /\ \A r \in Requests : WF_vars(RequestStep(r))
  /\ WF_vars(Notify) /\ WF_vars(WatcherStep) /\ WF_vars(Tick)
FairSpec == Spec /\ Fairness

-----------------------------------------------------------------------------
(* Properties *)

\* Every variable holds a value of its kind; the channel holds no more events than
\* it has room for.
TypeOK ==
  /\ up \in {"down", "loaded", "up", "stopping"}
  /\ users \in Maps /\ got \in Maps /\ meant \in Maps
  /\ logins \in Maps \cup {Empty}
  /\ file \in Maps \cup {Empty, Torn}
  /\ age \in 0..Debounce
  /\ nap \in 0..Sleep
  /\ raised \in BOOLEAN
  /\ queue \in 0..QueueCap
  /\ watcher \in {"none", "waiting", "sleeping", "checking", "reading", "installing"}
  /\ phase \in [Requests -> {"free", "got", "saving", "writing", "filling", "stamping"}]
  /\ DOMAIN copy = Requests
  /\ \A r \in Requests : phase[r] = "got" =>
       copy[r] \in [key : Keys, field : Fields, data : Data, user : Records]
  /\ \A r \in Requests : phase[r] \in {"saving", "writing", "filling"} => copy[r].key \in Keys
  /\ snap \in [Requests -> Maps]
  /\ editor \in {"idle", "writing"}
  /\ writer \in {"save", "cut", "other"}
  /\ unsaved \subseteq Keys /\ spoilt \in BOOLEAN /\ unseen \in BOOLEAN

(* What holds when requests, edits and the start keep apart: SteadyInv. *)

\* Events that may still bring the watcher to read the file, or have done so.
Pending == raised \/ queue > 0 \/ watcher \in {"sleeping", "checking", "reading"}

\* No request has begun to write.
Unwritten == \A r \in Requests : phase[r] \in {"free", "got", "saving", "writing"}

\* What was meant is in the file or on its way to it, and no edit went past the watcher.
Sound == ~ spoilt /\ ~ unseen

\* A request has the store for itself: what it read, copied and truncated is still so.
RequestsAlone ==
  /\ \A q, r \in Requests : phase[q] # "free" /\ phase[r] # "free" => q = r
  /\ ~ Free => editor = "idle" /\ up \in {"up", "stopping"}
  /\ \A r \in Requests :
       /\ phase[r] = "got" => users[copy[r].key] = copy[r].user
       /\ phase[r] \in {"got", "saving", "writing", "filling"} /\ Sound => users = meant
       /\ phase[r] \in {"writing", "filling"} => snap[r] = users
       /\ phase[r] = "filling" => file = Empty
       /\ phase[r] = "stamping" => writer = "save"

\* The watcher never reads while a request runs: a request comes when it waits, or
\* within the debounce.  Where there is none there are no events, and an edit is unseen.
WatcherApart ==
  /\ watcher \in {"reading", "installing"} => Free /\ writer # "save" /\ age = Debounce
  /\ ~ Free /\ age = Debounce =>
       watcher \in {"none", "waiting"} \/ (watcher = "sleeping" /\ nap = Sleep)
  /\ up \in {"down", "loaded"} => ~ Watched
  /\ ~ Watched => queue = 0 /\ ~ raised
  /\ unseen => ~ Watched /\ up \in {"up", "stopping"}

\* The events of a save reach the watcher within the debounce.
OwnEventsInTime ==
  writer = "save" /\ Unwritten =>
    /\ raised => age = 0
    /\ watcher \in {"waiting", "checking"} /\ queue > 0 => age = 0
    /\ watcher = "sleeping" => age + nap <= Sleep
    /\ watcher = "checking" => age <= Sleep

\* An edit comes when no request runs, and the events of one that is not loaded yet
\* are on their way, with no request before they arrive.
EditsArrive ==
  /\ editor = "writing" => Free /\ age = Debounce /\ writer = "other" /\ file = Empty
  /\ writer = "cut" => spoilt
  /\ up = "up" /\ editor = "idle" /\ Sound =>
       /\ Unwritten /\ writer = "other" /\ Pending => Free /\ age = Debounce /\ file = meant
       /\ users # meant =>
            /\ Free /\ age = Debounce /\ writer = "other" /\ Watched
            /\ Pending \/ (watcher = "installing" /\ got = meant)
       /\ watcher = "installing" /\ got # meant => raised \/ queue > 0

\* A change of the account is on its way to the file.
OnTheWay(k) == \E r \in Requests : phase[r] \in {"saving", "writing"} /\ copy[r].key = k

\* The file shows of every account what was meant, unless its change is still on the
\* way or failed to be saved, and unless a write was cut or the file is being written.
FileIsMeant ==
  ~ spoilt /\ editor = "idle" =>
    /\ up = "loaded" => users = meant /\ file = meant
    /\ (\A r \in Requests : phase[r] # "filling") =>
         file \in Maps /\ \A k \in Keys \ unsaved : file[k] = meant[k] \/ OnTheWay(k)

\* README.md:125, 132, docs/SPECIFICATION.md:148: while requests, edits and the start
\* keep apart, requests work on the accounts that the file and the answers before them
\* made, completed saves are ignored in time, and an edit that is not loaded is about
\* to be.
SteadyInv ==
  /\ RequestsAlone /\ WatcherApart /\ OwnEventsInTime /\ EditsArrive /\ FileIsMeant

\* README.md:132, docs/SPECIFICATION.md:162: once nothing is under way, the map the
\* API works on is what users.toml says, whichever of the two was changed last, and
\* with events coming before, during and after a reload, or dropped at the limit of
\* the channel.  A change that failed to be saved is in the map alone, and what a write
\* that was cut leaves is anything.
InSync ==
  up = "up" /\ Watched /\ Settled /\ ~ spoilt => \A k \in Keys \ unsaved : Shows(file, k, users)

\* README.md:125, docs/SPECIFICATION.md:148: once nothing is under way, each account in
\* users.toml is as acknowledged requests and edits left it, over kills and restarts;
\* except one whose own last change failed to be saved, and except that a write cut
\* after the truncation spoils the file until what was meant is written again.
AckedIsOnDisk == Settled /\ ~ spoilt => \A k \in Keys \ unsaved : Shows(file, k, meant)


\* docs/SPECIFICATION.md:148: when every request was answered, and the last to write
\* the file was a save, what the map holds is in the file, if it can be read at all.
SavesAreCurrent ==
  up = "up" /\ Free /\ writer = "save" /\ ~ spoilt /\ unsaved = {} /\ file \in Maps =>
    file = users

\* README.md:139: the store never reloads the file because of a save it completed.  One
\* that failed after the truncation left no time behind: the watcher reads what it left.
StampedSavesAreIgnored == watcher \in {"reading", "installing"} => writer # "save"

\* README.md:138: an edit by hand reaches the map of a server that has a watcher, unless
\* the file is written again, a write of the store's own fails, or the server dies; also
\* an edit whose first half the watcher read.
EditsReachTheStore ==
  \A m \in Maps :
    (up = "up" /\ Watched /\ editor = "idle" /\ file = m) ~>
        (users = m \/ file # m \/ unsaved # {} \/ spoilt \/ up # "up")

\* README.md:15: what was changed is in force without a restart: the store that
\* logins ask is the store the API and the file show.
LoginsFollowTheFile ==
  up = "up" /\ Watched /\ Settled /\ ~ spoilt /\ unsaved = {} /\ logins # Empty => logins = users
=============================================================================
