--------------------------- MODULE AuthStoreProofs ---------------------------
(***************************************************************************)
(* What holds of AuthStore for every number of accounts, fields, requests, *)
(* ticks and places in the channel.  The types are kept in any case; the   *)
(* rest is proved for requests, edits by hand and starts of the server     *)
(* that keep out of each other's way, as in the run auth_apart, and rests  *)
(* on SteadyInv, which every action keeps.                                 *)
(***************************************************************************)
EXTENDS AuthStore, TLAPS

\* Every step keeps the types.
LEMMA TypeStep ==
  ASSUME AuthConstants, TypeOK, [Next]_vars
  PROVE  TypeOK'
  <1> USE DEF TypeOK, Maps, Watched, Done, NoCopy
  <1>1. ASSUME NEW r \in Requests, NEW k \in Keys, NEW u \in Records, PostUser(r, k, u)
        PROVE TypeOK'
    BY <1>1 DEF PostUser, MayRequest, Changed, AuthConstants, clockVars, watchVars,
       apiVars, history, excuses
  <1>2. ASSUME NEW r \in Requests, NEW k \in Keys, NEW f \in Fields, NEW d \in Data,
       PutGet(r, k, f, d) PROVE TypeOK'
    <2>1. users[k] \in Records
      BY <1>2 DEF PutGet
    <2>2. [key |-> k, field |-> f, data |-> d, user |-> users[k]]
            \in [key : Keys, field : Fields, data : Data, user : Records]
      BY <2>1
    <2>3. \A q \in Requests : phase'[q] = "got" =>
            copy'[q] \in [key : Keys, field : Fields, data : Data, user : Records]
      <3>1. copy' = [copy EXCEPT ![r] = [key |-> k, field |-> f, data |-> d,
                                             user |-> users[k]]]
            /\ phase' = [phase EXCEPT ![r] = "got"]
        BY <1>2 DEF PutGet
      <3>2. copy'[r] \in [key : Keys, field : Fields, data : Data, user : Records]
        BY <2>2, <3>1
      <3>3. \A q \in Requests \ {r} : phase'[q] = phase[q] /\ copy'[q] = copy[q]
        BY <3>1
      <3> QED BY <3>2, <3>3
    <2> QED BY <1>2, <2>3 DEF PutGet, clockVars, watchVars, history, excuses
  <1>3. ASSUME NEW r \in Requests, PutUpsert(r) PROVE TypeOK'
    <2> DEFINE c == copy[r]
    <2>1. c.key \in Keys /\ c.field \in Fields /\ c.data \in Data /\ c.user \in Records
      BY <1>3 DEF PutUpsert
    <2>2. [c.user EXCEPT ![c.field] = c.data] \in Records
      BY <2>1 DEF Records
    <2>3. users' \in Maps
      BY <1>3, <2>1, <2>2 DEF PutUpsert, Changed
    <2>4. meant' \in Maps
      <3>1. CASE meant[c.key] = NoUser
        BY <1>3, <3>1 DEF PutUpsert, Changed
      <3>2. CASE meant[c.key] # NoUser
        <4>1. meant[c.key] \in Records
          BY <2>1, <3>2
        <4>2. [meant[c.key] EXCEPT ![c.field] = c.data] \in Records
          BY <2>1, <4>1 DEF Records
        <4>3. meant' = [meant EXCEPT ![c.key] = [meant[c.key] EXCEPT ![c.field] = c.data]]
          BY <1>3, <3>2 DEF PutUpsert, Changed
        <4> QED BY <2>1, <4>2, <4>3
      <3> QED BY <3>1, <3>2
    <2>5. /\ phase' \in [Requests -> {"free", "got", "saving", "writing", "filling",
                                  "stamping"}]
          /\ \A q \in Requests : phase'[q] = "got" => phase[q] = "got" /\ copy'[q] = copy[q]
      BY <1>3 DEF PutUpsert, Changed
    <2>6. /\ DOMAIN copy' = Requests
          /\ \A q \in Requests : phase'[q] \in {"saving", "writing", "filling"} =>
               copy'[q].key \in Keys
      BY <1>3, <2>1 DEF PutUpsert, Changed
    <2> QED BY <1>3, <2>3, <2>4, <2>5, <2>6 DEF PutUpsert, Changed, clockVars, watchVars, excuses
  <1>4. ASSUME NEW r \in Requests, PutError(r) PROVE TypeOK'
    BY <1>4 DEF PutError, AuthConstants, clockVars, watchVars, apiVars, history, excuses
  <1>5. ASSUME NEW r \in Requests, NEW k \in Keys, DeleteUser(r, k) PROVE TypeOK'
    BY <1>5 DEF DeleteUser, MayRequest, Changed, AuthConstants, clockVars, watchVars,
       apiVars, history, excuses
  <1>6. ASSUME NEW r \in Requests, Snapshot(r) PROVE TypeOK'
    BY <1>6 DEF Snapshot, AuthConstants, clockVars, watchVars, apiVars, history, excuses
  <1>7. ASSUME NEW r \in Requests, Truncate(r) PROVE TypeOK'
    BY <1>7 DEF Truncate, AuthConstants, clockVars, watchVars, apiVars, history, excuses
  <1>8. ASSUME NEW r \in Requests, WriteError(r) PROVE TypeOK'
    BY <1>8 DEF WriteError, AuthConstants, clockVars, watchVars, apiVars, history, excuses
  <1>9. ASSUME NEW r \in Requests, Fill(r) PROVE TypeOK'
    <2>1. unsaved' \subseteq Keys
      BY <1>9 DEF Fill
    <2>2. raised' \in BOOLEAN /\ spoilt' \in BOOLEAN
      BY <1>9, Zenon DEF Fill
    <2>3. file' \in Maps \cup {Empty, Torn}
      BY <1>9 DEF Fill, Written
    <2>4. /\ phase' = [phase EXCEPT ![r] = "stamping"]
          /\ writer' = "save"
          /\ UNCHANGED <<up, users, logins, age, nap, queue, watcher, got, copy, snap, editor,
                         meant, unseen>>
      BY <1>9 DEF Fill, clockVars
    <2> QED BY <2>1, <2>2, <2>3, <2>4
  <1>10. ASSUME NEW r \in Requests, Stamp(r) PROVE TypeOK'
    BY <1>10 DEF Stamp, AuthConstants, clockVars, watchVars, apiVars, history, excuses
  <1>11. CASE Notify
    <2>1. queue' \in 0..QueueCap
      BY <1>11 DEF Notify, AuthConstants
    <2>2. raised' \in BOOLEAN
      BY <1>11 DEF Notify
    <2>3. UNCHANGED <<up, users, logins, file, age, nap, watcher, got, phase, copy, snap,
                      editor, writer, meant, unsaved, spoilt, unseen>>
      BY <1>11 DEF Notify, clockVars, apiVars, history, excuses
    <2> QED BY <2>1, <2>2, <2>3
  <1>12. CASE Wake
    BY <1>12 DEF Wake, AuthConstants, clockVars, watchVars, apiVars, history, excuses
  <1>13. CASE Drain
    BY <1>13 DEF Drain, AuthConstants, clockVars, watchVars, apiVars, history, excuses
  <1>14. CASE Check
    BY <1>14 DEF Check, AuthConstants, clockVars, watchVars, apiVars, history, excuses
  <1>15. CASE Read
    BY <1>15 DEF Read, AuthConstants, clockVars, watchVars, apiVars, history, excuses
  <1>16. CASE Install
    BY <1>16 DEF Install, AuthConstants, clockVars, watchVars, apiVars, history, excuses
  <1>17. CASE EditBegin
    BY <1>17 DEF EditBegin, MayEdit, AuthConstants, clockVars, watchVars, apiVars, history, excuses
  <1>18. ASSUME NEW m \in Maps, EditEnd(m) PROVE TypeOK'
    BY <1>18 DEF EditEnd, Written, AuthConstants, clockVars, watchVars, apiVars, history, excuses
  <1>19. CASE Tick
    BY <1>19 DEF Tick, AuthConstants, clockVars, watchVars, apiVars, history, excuses
  <1>20. CASE Down
    <2>1. unsaved' \subseteq Keys
      BY <1>20 DEF Down
    <2>4. spoilt' \in BOOLEAN
      BY <1>20, Zenon DEF Down
    <2>2. nap' \in 0..Sleep /\ age' \in 0..Debounce /\ queue' \in 0..QueueCap
      BY <1>20 DEF Down, AuthConstants
    <2>3. \A r \in Requests : phase'[r] = "free"
      BY <1>20 DEF Down
    <2> QED BY <1>20, <2>1, <2>2, <2>3, <2>4 DEF Down
  <1>21. CASE Boot
    BY <1>21 DEF Boot, AuthConstants, clockVars, watchVars, apiVars, history, excuses
  <1>22. CASE StartWatcher
    BY <1>22 DEF StartWatcher, AuthConstants, clockVars, watchVars, apiVars, history, excuses
  <1>23. CASE PopLoad
    BY <1>23 DEF PopLoad, AuthConstants, clockVars, watchVars, apiVars, history, excuses
  <1>24. CASE PopLoadError
    BY <1>24 DEF PopLoadError, AuthConstants, clockVars, watchVars, apiVars, history, excuses
  <1>25. ASSUME NEW r \in Requests, FillError(r) PROVE TypeOK'
    <2>1. Partial(snap[r]) \subseteq Maps \cup {file, Torn}
      BY DEF Partial
    <2>2. copy[r].key \in Keys
      BY <1>25 DEF FillError
    <2> QED BY <1>25, <2>1, <2>2 DEF FillError, clockVars
  <1>26. CASE StartWatcherError
    BY <1>26 DEF StartWatcherError, clockVars, watchVars, apiVars, history, excuses
  <1>27. CASE UNCHANGED vars
    BY <1>27 DEF vars, clockVars, watchVars, apiVars, history, excuses
  <1> QED BY <1>1, <1>2, <1>3, <1>4, <1>5, <1>6, <1>7, <1>8, <1>9, <1>10, <1>11, <1>12,
       <1>13, <1>14, <1>15, <1>16, <1>17, <1>18, <1>19, <1>20, <1>21, <1>22, <1>23, <1>24,
            <1>25, <1>26, <1>27 DEF Next, NewRequest, RequestStep, WatcherStep, Crash, Exit

-----------------------------------------------------------------------------
(* Requests, edits and the start keep apart. *)
AllApart == {"requests", "edits", "start"} \subseteq Apart

\* What a request finds when it begins.
LEMMA RequestMay ==
  ASSUME AuthConstants, AllApart, TypeOK, SteadyInv, NEW r \in Requests, MayRequest(r)
  PROVE  /\ Free /\ editor = "idle" /\ up = "up" /\ (Sound => users = meant)
         /\ watcher \notin {"reading", "installing"}
         /\ age = Debounce => watcher \in {"none", "waiting"} /\ queue = 0 /\ ~ raised
  <1>1. Free /\ editor = "idle" /\ up = "up" /\ (Settled \/ age < Debounce)
    BY DEF MayRequest, AllApart
  <1>2. age \in Nat /\ Debounce \in Nat /\ queue \in Nat
    BY DEF TypeOK, AuthConstants
  <1> QED BY <1>1, <1>2 DEF SteadyInv, EditsArrive, WatcherApart, Settled, Pending

\* Each action keeps each part of the invariant.  POST changes the map and begins a save.
LEMMA PostUserSteady ==
  ASSUME AuthConstants, AllApart, TypeOK, SteadyInv, NEW r \in Requests, NEW k \in Keys,
         NEW u \in Records, PostUser(r, k, u)
  PROVE  SteadyInv'
  <1>0. /\ Free /\ editor = "idle" /\ up = "up" /\ (Sound => users = meant)
        /\ watcher \notin {"reading", "installing"}
        /\ age = Debounce => watcher \in {"none", "waiting"} /\ queue = 0 /\ ~ raised
    BY RequestMay DEF PostUser
  <1> USE DEF SteadyInv, TypeOK, Free, AuthConstants, clockVars, watchVars, apiVars, history,
          excuses, Sound, Watched, Done, NoCopy
  <1>1. RequestsAlone'
    BY <1>0 DEF PostUser, Changed, RequestsAlone, EditsArrive
  <1>2. WatcherApart'
    BY <1>0 DEF PostUser, Changed, WatcherApart, OwnEventsInTime, EditsArrive,
       RequestsAlone, Unwritten
  <1>3. OwnEventsInTime'
    BY <1>0 DEF PostUser, Changed, OwnEventsInTime, Unwritten, WatcherApart, RequestsAlone
  <1>4. EditsArrive'
    <2>1. Sound => users' = meant'
      BY <1>0 DEF PostUser, Changed
    <2>2. Sound /\ Unwritten /\ writer = "other" => ~ Pending
      BY <1>0 DEF EditsArrive, Pending
    <2>3. watcher # "installing" /\ phase'[r] = "saving"
      BY <1>0 DEF PostUser, Changed
    <2> QED BY <1>0, <2>1, <2>2, <2>3 DEF PostUser, Changed, EditsArrive, Pending, Unwritten
  <1>5. FileIsMeant'
    BY <1>0 DEF PostUser, Changed, FileIsMeant, OnTheWay, RequestsAlone, EditsArrive
  <1> QED BY <1>1, <1>2, <1>3, <1>4, <1>5 DEF SteadyInv

\* PUT has read the account and changed nothing.
LEMMA PutGetSteady ==
  ASSUME AuthConstants, AllApart, TypeOK, SteadyInv, NEW r \in Requests, NEW k \in Keys,
         NEW f \in Fields, NEW d \in Data, PutGet(r, k, f, d)
  PROVE  SteadyInv'
  <1>0. /\ Free /\ editor = "idle" /\ up = "up" /\ (Sound => users = meant)
        /\ watcher \notin {"reading", "installing"}
        /\ age = Debounce => watcher \in {"none", "waiting"} /\ queue = 0 /\ ~ raised
    BY RequestMay DEF PutGet
  <1> USE DEF SteadyInv, TypeOK, Free, AuthConstants, clockVars, watchVars, apiVars, history,
          excuses, Sound, Watched, Done, NoCopy
  <1>1. RequestsAlone'
    BY <1>0 DEF PutGet, RequestsAlone, EditsArrive
  <1>2. WatcherApart'
    BY <1>0 DEF PutGet, WatcherApart, OwnEventsInTime, EditsArrive, RequestsAlone, Unwritten
  <1>3. OwnEventsInTime'
    BY <1>0 DEF PutGet, OwnEventsInTime, Unwritten, WatcherApart, RequestsAlone
  <1>4. EditsArrive'
    BY <1>0 DEF PutGet, EditsArrive, Pending, Unwritten, RequestsAlone, WatcherApart,
       FileIsMeant, OwnEventsInTime
  <1>5. FileIsMeant'
    BY <1>0 DEF PutGet, FileIsMeant, OnTheWay, RequestsAlone, EditsArrive
  <1> QED BY <1>1, <1>2, <1>3, <1>4, <1>5 DEF SteadyInv

\* PUT writes back what it read, which no other request has changed.
LEMMA PutUpsertSteady ==
  ASSUME AuthConstants, AllApart, TypeOK, SteadyInv, NEW r \in Requests, PutUpsert(r)
  PROVE  SteadyInv'
  <1> USE DEF SteadyInv, TypeOK, Free, AuthConstants, clockVars, watchVars, apiVars, history,
          excuses, Sound, Watched, Done, NoCopy
  <1>0. ASSUME Sound PROVE users' = meant'
    <2> DEFINE c == copy[r]
    <2>1. users = meant /\ users[c.key] = c.user
      BY <1>0 DEF PutUpsert, RequestsAlone
    <2>2. c.key \in Keys /\ c.user \in Records /\ c.user # NoUser
      BY DEF PutUpsert
    <2>3. meant' = [meant EXCEPT ![c.key] = [meant[c.key] EXCEPT ![c.field] = c.data]]
      BY <2>1, <2>2 DEF PutUpsert, Changed
    <2> QED BY <2>1, <2>3 DEF PutUpsert, Changed
  <1>1. RequestsAlone'
    BY <1>0 DEF PutUpsert, Changed, RequestsAlone, EditsArrive
  <1>2. WatcherApart'
    BY DEF PutUpsert, Changed, WatcherApart, OwnEventsInTime, EditsArrive, RequestsAlone,
       Unwritten
  <1>3. OwnEventsInTime'
    BY DEF PutUpsert, Changed, OwnEventsInTime, Unwritten, WatcherApart, RequestsAlone
  <1>4. EditsArrive'
    BY <1>0 DEF PutUpsert, Changed, EditsArrive, Pending, Unwritten, RequestsAlone,
       WatcherApart, FileIsMeant, OwnEventsInTime
  <1>5. FileIsMeant'
    BY DEF PutUpsert, Changed, FileIsMeant, OnTheWay, RequestsAlone, EditsArrive
  <1> QED BY <1>1, <1>2, <1>3, <1>4, <1>5 DEF SteadyInv

\* A PUT that fails leaves nothing behind.
LEMMA PutErrorSteady ==
  ASSUME AuthConstants, AllApart, TypeOK, SteadyInv, NEW r \in Requests, PutError(r)
  PROVE  SteadyInv'
  <1> USE DEF SteadyInv, TypeOK, Free, AuthConstants, clockVars, watchVars, apiVars, history,
          excuses, Sound, Watched, Done, NoCopy
  <1>1. RequestsAlone'
    BY DEF PutError, RequestsAlone, EditsArrive
  <1>2. WatcherApart'
    BY DEF PutError, WatcherApart, OwnEventsInTime, EditsArrive, RequestsAlone, Unwritten
  <1>3. OwnEventsInTime'
    BY DEF PutError, OwnEventsInTime, Unwritten, WatcherApart, RequestsAlone
  <1>4. EditsArrive'
    BY DEF PutError, EditsArrive, Pending, Unwritten, RequestsAlone, WatcherApart,
       FileIsMeant, OwnEventsInTime
  <1>5. FileIsMeant'
    BY DEF PutError, FileIsMeant, OnTheWay, RequestsAlone, EditsArrive
  <1> QED BY <1>1, <1>2, <1>3, <1>4, <1>5 DEF SteadyInv

\* DELETE changes the map and begins a save.
LEMMA DeleteUserSteady ==
  ASSUME AuthConstants, AllApart, TypeOK, SteadyInv, NEW r \in Requests, NEW k \in Keys,
         DeleteUser(r, k)
  PROVE  SteadyInv'
  <1>0. /\ Free /\ editor = "idle" /\ up = "up" /\ (Sound => users = meant)
        /\ watcher \notin {"reading", "installing"}
        /\ age = Debounce => watcher \in {"none", "waiting"} /\ queue = 0 /\ ~ raised
    BY RequestMay DEF DeleteUser
  <1> USE DEF SteadyInv, TypeOK, Free, AuthConstants, clockVars, watchVars, apiVars, history,
          excuses, Sound, Watched, Done, NoCopy
  <1>1. RequestsAlone'
    BY <1>0 DEF DeleteUser, Changed, RequestsAlone, EditsArrive
  <1>2. WatcherApart'
    BY <1>0 DEF DeleteUser, Changed, WatcherApart, OwnEventsInTime, EditsArrive,
       RequestsAlone, Unwritten
  <1>3. OwnEventsInTime'
    BY <1>0 DEF DeleteUser, Changed, OwnEventsInTime, Unwritten, WatcherApart, RequestsAlone
  <1>4. EditsArrive'
    <2>1. Sound => users' = meant'
      BY <1>0 DEF DeleteUser, Changed
    <2>2. Sound /\ Unwritten /\ writer = "other" => ~ Pending
      BY <1>0 DEF EditsArrive, Pending
    <2>3. watcher # "installing" /\ phase'[r] = "saving"
      BY <1>0 DEF DeleteUser, Changed
    <2> QED BY <1>0, <2>1, <2>2, <2>3 DEF DeleteUser, Changed, EditsArrive, Pending, Unwritten
  <1>5. FileIsMeant'
    BY <1>0 DEF DeleteUser, Changed, FileIsMeant, OnTheWay, RequestsAlone, EditsArrive
  <1> QED BY <1>1, <1>2, <1>3, <1>4, <1>5 DEF SteadyInv

\* The copy a save takes is the map.
LEMMA SnapshotSteady ==
  ASSUME AuthConstants, AllApart, TypeOK, SteadyInv, NEW r \in Requests, Snapshot(r)
  PROVE  SteadyInv'
  <1> USE DEF SteadyInv, TypeOK, Free, AuthConstants, clockVars, watchVars, apiVars, history,
          excuses, Sound, Watched, Done, NoCopy
  <1>1. RequestsAlone'
    BY DEF Snapshot, RequestsAlone, EditsArrive
  <1>2. WatcherApart'
    BY DEF Snapshot, WatcherApart, OwnEventsInTime, EditsArrive, RequestsAlone, Unwritten
  <1>3. OwnEventsInTime'
    BY DEF Snapshot, OwnEventsInTime, Unwritten, WatcherApart, RequestsAlone
  <1>4. EditsArrive'
    BY DEF Snapshot, EditsArrive, Pending, Unwritten, RequestsAlone, WatcherApart,
       FileIsMeant, OwnEventsInTime
  <1>5. FileIsMeant'
    BY DEF Snapshot, FileIsMeant, OnTheWay, RequestsAlone, EditsArrive
  <1> QED BY <1>1, <1>2, <1>3, <1>4, <1>5 DEF SteadyInv

\* A save is the only writer when it truncates the file.
LEMMA TruncateSteady ==
  ASSUME AuthConstants, AllApart, TypeOK, SteadyInv, NEW r \in Requests, Truncate(r)
  PROVE  SteadyInv'
  <1> USE DEF SteadyInv, TypeOK, Free, AuthConstants, clockVars, watchVars, apiVars, history,
          excuses, Sound, Watched, Done, NoCopy
  <1>1. RequestsAlone'
    BY DEF Truncate, RequestsAlone, EditsArrive
  <1>2. WatcherApart'
    BY DEF Truncate, WatcherApart, OwnEventsInTime, EditsArrive, RequestsAlone, Unwritten
  <1>3. OwnEventsInTime'
    BY DEF Truncate, OwnEventsInTime, Unwritten, WatcherApart, RequestsAlone
  <1>4. EditsArrive'
    BY DEF Truncate, EditsArrive, Pending, Unwritten, RequestsAlone, WatcherApart,
       FileIsMeant, OwnEventsInTime
  <1>5. FileIsMeant'
    BY DEF Truncate, FileIsMeant, OnTheWay, RequestsAlone, EditsArrive
  <1> QED BY <1>1, <1>2, <1>3, <1>4, <1>5 DEF SteadyInv

\* A write that fails leaves the file as it was, and the change is excused.
LEMMA WriteErrorSteady ==
  ASSUME AuthConstants, AllApart, TypeOK, SteadyInv, NEW r \in Requests, WriteError(r)
  PROVE  SteadyInv'
  <1> USE DEF SteadyInv, TypeOK, Free, AuthConstants, clockVars, watchVars, apiVars, history,
          excuses, Sound, Watched, Done, NoCopy
  <1>1. RequestsAlone'
    BY DEF WriteError, RequestsAlone, EditsArrive
  <1>2. WatcherApart'
    BY DEF WriteError, WatcherApart, OwnEventsInTime, EditsArrive, RequestsAlone, Unwritten
  <1>3. OwnEventsInTime'
    BY DEF WriteError, OwnEventsInTime, Unwritten, WatcherApart, RequestsAlone
  <1>4. EditsArrive'
    BY DEF WriteError, EditsArrive, Pending, Unwritten, RequestsAlone, WatcherApart,
       FileIsMeant, OwnEventsInTime
  <1>5. FileIsMeant'
    BY DEF WriteError, FileIsMeant, OnTheWay, RequestsAlone, EditsArrive
  <1> QED BY <1>1, <1>2, <1>3, <1>4, <1>5 DEF SteadyInv

\* The file is written with what was copied, and its event is on its way.
LEMMA FillSteady ==
  ASSUME AuthConstants, AllApart, TypeOK, SteadyInv, NEW r \in Requests, Fill(r)
  PROVE  SteadyInv'
  <1> USE DEF SteadyInv, TypeOK, Free, AuthConstants, clockVars, watchVars, apiVars, history,
          excuses, Sound, Watched, Done, NoCopy
  <1>1. RequestsAlone'
    BY DEF Fill, Written, RequestsAlone, EditsArrive
  <1>2. WatcherApart'
    BY DEF Fill, Written, WatcherApart, OwnEventsInTime, EditsArrive, RequestsAlone,
       Unwritten
  <1>3. OwnEventsInTime'
    BY DEF Fill, Written, OwnEventsInTime, Unwritten, WatcherApart, RequestsAlone
  <1>4. EditsArrive'
    BY DEF Fill, Written, EditsArrive, Pending, Unwritten, RequestsAlone, WatcherApart,
       FileIsMeant, OwnEventsInTime
  <1>5. FileIsMeant'
    BY DEF Fill, Written, FileIsMeant, OnTheWay, RequestsAlone, EditsArrive
  <1> QED BY <1>1, <1>2, <1>3, <1>4, <1>5 DEF SteadyInv

\* A write that is cut leaves the file spoilt, which its events may bring to be read.
LEMMA FillErrorSteady ==
  ASSUME AuthConstants, AllApart, TypeOK, SteadyInv, NEW r \in Requests, FillError(r)
  PROVE  SteadyInv'
  <1> USE DEF SteadyInv, TypeOK, Free, AuthConstants, clockVars, watchVars, apiVars, history,
          excuses, Sound, Watched, Done, NoCopy
  <1>1. RequestsAlone'
    BY DEF FillError, RequestsAlone, EditsArrive
  <1>2. WatcherApart'
    BY DEF FillError, WatcherApart, OwnEventsInTime, EditsArrive, RequestsAlone,
       Unwritten
  <1>3. OwnEventsInTime'
    BY DEF FillError, OwnEventsInTime, Unwritten, WatcherApart, RequestsAlone
  <1>4. EditsArrive'
    BY DEF FillError, EditsArrive, Pending, Unwritten, RequestsAlone, WatcherApart,
       FileIsMeant, OwnEventsInTime
  <1>5. FileIsMeant'
    BY DEF FillError, FileIsMeant, OnTheWay, RequestsAlone, EditsArrive
  <1> QED BY <1>1, <1>2, <1>3, <1>4, <1>5 DEF SteadyInv

\* The time is stamped before the event of the write is handled.
LEMMA StampSteady ==
  ASSUME AuthConstants, AllApart, TypeOK, SteadyInv, NEW r \in Requests, Stamp(r)
  PROVE  SteadyInv'
  <1> USE DEF SteadyInv, TypeOK, Free, AuthConstants, clockVars, watchVars, apiVars, history,
          excuses, Sound, Watched, Done, NoCopy
  <1>1. RequestsAlone'
    BY DEF Stamp, RequestsAlone, EditsArrive
  <1>2. WatcherApart'
    BY DEF Stamp, WatcherApart, OwnEventsInTime, EditsArrive, RequestsAlone, Unwritten
  <1>3. OwnEventsInTime'
    BY DEF Stamp, OwnEventsInTime, Unwritten, WatcherApart, RequestsAlone
  <1>4. EditsArrive'
    BY DEF Stamp, EditsArrive, Pending, Unwritten, RequestsAlone, WatcherApart,
       FileIsMeant, OwnEventsInTime
  <1>5. FileIsMeant'
    BY DEF Stamp, FileIsMeant, OnTheWay, RequestsAlone, EditsArrive
  <1> QED BY <1>1, <1>2, <1>3, <1>4, <1>5 DEF SteadyInv

\* An event is in the channel, or the channel has others that stand for it.
LEMMA NotifySteady ==
  ASSUME AuthConstants, AllApart, TypeOK, SteadyInv, Notify
  PROVE  SteadyInv'
  <1> USE DEF SteadyInv, TypeOK, Free, AuthConstants, clockVars, watchVars, apiVars, history,
          excuses, Sound, Watched, Done, NoCopy
  <1>1. RequestsAlone'
    BY DEF Notify, RequestsAlone, EditsArrive
  <1>2. WatcherApart'
    BY DEF Notify, WatcherApart, OwnEventsInTime, EditsArrive, RequestsAlone, Unwritten
  <1>3. OwnEventsInTime'
    BY DEF Notify, OwnEventsInTime, Unwritten, WatcherApart, RequestsAlone
  <1>4. EditsArrive'
    BY DEF Notify, EditsArrive, Pending, Unwritten, RequestsAlone, WatcherApart,
       FileIsMeant, OwnEventsInTime
  <1>5. FileIsMeant'
    BY DEF Notify, FileIsMeant, OnTheWay, RequestsAlone, EditsArrive
  <1> QED BY <1>1, <1>2, <1>3, <1>4, <1>5 DEF SteadyInv

\* The watcher has an event: what was raised is still to be read.
LEMMA WakeSteady ==
  ASSUME AuthConstants, AllApart, TypeOK, SteadyInv, Wake
  PROVE  SteadyInv'
  <1> USE DEF SteadyInv, TypeOK, Free, AuthConstants, clockVars, watchVars, apiVars, history,
          excuses, Sound, Watched, Done, NoCopy
  <1>1. RequestsAlone'
    BY DEF Wake, RequestsAlone, EditsArrive
  <1>2. WatcherApart'
    BY DEF Wake, WatcherApart, OwnEventsInTime, EditsArrive, RequestsAlone, Unwritten
  <1>3. OwnEventsInTime'
    BY DEF Wake, OwnEventsInTime, Unwritten, WatcherApart, RequestsAlone
  <1>4. EditsArrive'
    BY DEF Wake, EditsArrive, Pending, Unwritten, RequestsAlone, WatcherApart,
       FileIsMeant, OwnEventsInTime
  <1>5. FileIsMeant'
    BY DEF Wake, FileIsMeant, OnTheWay, RequestsAlone, EditsArrive
  <1> QED BY <1>1, <1>2, <1>3, <1>4, <1>5 DEF SteadyInv

\* Events are thrown away before the file is read.
LEMMA DrainSteady ==
  ASSUME AuthConstants, AllApart, TypeOK, SteadyInv, Drain
  PROVE  SteadyInv'
  <1> USE DEF SteadyInv, TypeOK, Free, AuthConstants, clockVars, watchVars, apiVars, history,
          excuses, Sound, Watched, Done, NoCopy
  <1>1. RequestsAlone'
    BY DEF Drain, RequestsAlone, EditsArrive
  <1>2. WatcherApart'
    BY DEF Drain, WatcherApart, OwnEventsInTime, EditsArrive, RequestsAlone, Unwritten
  <1>3. OwnEventsInTime'
    BY DEF Drain, OwnEventsInTime, Unwritten, WatcherApart, RequestsAlone
  <1>4. EditsArrive'
    BY DEF Drain, EditsArrive, Pending, Unwritten, RequestsAlone, WatcherApart,
       FileIsMeant, OwnEventsInTime
  <1>5. FileIsMeant'
    BY DEF Drain, FileIsMeant, OnTheWay, RequestsAlone, EditsArrive
  <1> QED BY <1>1, <1>2, <1>3, <1>4, <1>5 DEF SteadyInv

\* A reload is left out after a save only, when the file is no news.
LEMMA CheckSteady ==
  ASSUME AuthConstants, AllApart, TypeOK, SteadyInv, Check
  PROVE  SteadyInv'
  <1> USE DEF SteadyInv, TypeOK, Free, AuthConstants, clockVars, watchVars, apiVars, history,
          excuses, Sound, Watched, Done, NoCopy
  <1>1. RequestsAlone'
    BY DEF Check, RequestsAlone, EditsArrive
  <1>2. WatcherApart'
    BY DEF Check, WatcherApart, OwnEventsInTime, EditsArrive, RequestsAlone, Unwritten
  <1>3. OwnEventsInTime'
    BY DEF Check, OwnEventsInTime, Unwritten, WatcherApart, RequestsAlone
  <1>4. EditsArrive'
    BY DEF Check, EditsArrive, Pending, Unwritten, RequestsAlone, WatcherApart,
       FileIsMeant, OwnEventsInTime
  <1>5. FileIsMeant'
    BY DEF Check, FileIsMeant, OnTheWay, RequestsAlone, EditsArrive
  <1> QED BY <1>1, <1>2, <1>3, <1>4, <1>5 DEF SteadyInv

\* The watcher reads what is in the file, or will be woken again.
LEMMA ReadSteady ==
  ASSUME AuthConstants, AllApart, TypeOK, SteadyInv, Read
  PROVE  SteadyInv'
  <1> USE DEF SteadyInv, TypeOK, Free, AuthConstants, clockVars, watchVars, apiVars, history,
          excuses, Sound, Watched, Done, NoCopy
  <1>1. RequestsAlone'
    BY DEF Read, RequestsAlone, EditsArrive
  <1>2. WatcherApart'
    BY DEF Read, WatcherApart, OwnEventsInTime, EditsArrive, RequestsAlone, Unwritten
  <1>3. OwnEventsInTime'
    BY DEF Read, OwnEventsInTime, Unwritten, WatcherApart, RequestsAlone
  <1>4. EditsArrive'
    BY DEF Read, EditsArrive, Pending, Unwritten, RequestsAlone, WatcherApart,
       FileIsMeant, OwnEventsInTime
  <1>5. FileIsMeant'
    BY DEF Read, FileIsMeant, OnTheWay, RequestsAlone, EditsArrive
  <1> QED BY <1>1, <1>2, <1>3, <1>4, <1>5 DEF SteadyInv

\* What is installed is what was read, which nobody has changed since.
LEMMA InstallSteady ==
  ASSUME AuthConstants, AllApart, TypeOK, SteadyInv, Install
  PROVE  SteadyInv'
  <1> USE DEF SteadyInv, TypeOK, Free, AuthConstants, clockVars, watchVars, apiVars, history,
          excuses, Sound, Watched, Done, NoCopy
  <1>1. RequestsAlone'
    BY DEF Install, RequestsAlone, WatcherApart
  <1>2. WatcherApart'
    BY DEF Install, WatcherApart, OwnEventsInTime, EditsArrive, RequestsAlone, Unwritten
  <1>3. OwnEventsInTime'
    BY DEF Install, OwnEventsInTime, Unwritten, WatcherApart, RequestsAlone
  <1>4. EditsArrive'
    BY DEF Install, EditsArrive, Pending, Unwritten, RequestsAlone, WatcherApart,
       FileIsMeant, OwnEventsInTime
  <1>5. FileIsMeant'
    BY DEF Install, FileIsMeant, OnTheWay, WatcherApart
  <1> QED BY <1>1, <1>2, <1>3, <1>4, <1>5 DEF SteadyInv

\* An edit begins while no request is under way nor a save recent.
LEMMA EditBeginSteady ==
  ASSUME AuthConstants, AllApart, TypeOK, SteadyInv, EditBegin
  PROVE  SteadyInv'
  <1> USE DEF SteadyInv, TypeOK, Free, AuthConstants, clockVars, watchVars, apiVars, history,
          excuses, Sound, Watched, Done, NoCopy
  <1>1. RequestsAlone'
    BY DEF EditBegin, MayEdit, AllApart, RequestsAlone, EditsArrive
  <1>2. WatcherApart'
    BY DEF EditBegin, MayEdit, AllApart, WatcherApart, OwnEventsInTime, EditsArrive,
       RequestsAlone, Unwritten
  <1>3. OwnEventsInTime'
    BY DEF EditBegin, MayEdit, AllApart, OwnEventsInTime, Unwritten, WatcherApart,
       RequestsAlone
  <1>4. EditsArrive'
    BY DEF EditBegin, MayEdit, AllApart, EditsArrive, Pending, Unwritten, RequestsAlone,
       WatcherApart, FileIsMeant, OwnEventsInTime
  <1>5. FileIsMeant'
    BY DEF EditBegin, MayEdit, AllApart, FileIsMeant, OnTheWay, RequestsAlone, EditsArrive
  <1> QED BY <1>1, <1>2, <1>3, <1>4, <1>5 DEF SteadyInv

\* An edit ends, and its event is on its way.
LEMMA EditEndSteady ==
  ASSUME AuthConstants, AllApart, TypeOK, SteadyInv, NEW m \in Maps, EditEnd(m)
  PROVE  SteadyInv'
  <1> USE DEF SteadyInv, TypeOK, Free, AuthConstants, clockVars, watchVars, apiVars, history,
          excuses, Sound, Watched, Done, NoCopy
  <1>1. RequestsAlone'
    BY DEF EditEnd, Written, RequestsAlone, EditsArrive
  <1>2. WatcherApart'
    BY DEF EditEnd, AllApart, Written, WatcherApart, OwnEventsInTime, EditsArrive, RequestsAlone,
       Unwritten
  <1>3. OwnEventsInTime'
    BY DEF EditEnd, Written, OwnEventsInTime, Unwritten, WatcherApart, RequestsAlone
  <1>4. EditsArrive'
    BY DEF EditEnd, Written, EditsArrive, Pending, Unwritten, RequestsAlone, WatcherApart,
       FileIsMeant, OwnEventsInTime
  <1>5. FileIsMeant'
    BY DEF EditEnd, AllApart, Written, FileIsMeant, OnTheWay, RequestsAlone, EditsArrive
  <1> QED BY <1>1, <1>2, <1>3, <1>4, <1>5 DEF SteadyInv

\* Time passes when nothing can run, so that nothing gets late.
LEMMA TickSteady ==
  ASSUME AuthConstants, AllApart, TypeOK, SteadyInv, Tick
  PROVE  SteadyInv'
  <1> USE DEF SteadyInv, TypeOK, Free, AuthConstants, clockVars, watchVars, apiVars, history,
          excuses, Sound, Watched, Done, NoCopy
  <1>1. RequestsAlone'
    BY DEF Tick, Busy, RequestsAlone, EditsArrive
  <1>2. WatcherApart'
    BY DEF Tick, Busy, WatcherApart, OwnEventsInTime, EditsArrive, RequestsAlone, Unwritten
  <1>3. OwnEventsInTime'
    BY DEF Tick, Busy, OwnEventsInTime, Unwritten, WatcherApart, RequestsAlone
  <1>4. EditsArrive'
    BY DEF Tick, Busy, EditsArrive, Pending, Unwritten, RequestsAlone, WatcherApart,
       FileIsMeant, OwnEventsInTime
  <1>5. FileIsMeant'
    BY DEF Tick, Busy, FileIsMeant, OnTheWay, RequestsAlone, EditsArrive
  <1> QED BY <1>1, <1>2, <1>3, <1>4, <1>5 DEF SteadyInv

\* The process is gone, and with it whatever was under way.
LEMMA DownSteady ==
  ASSUME AuthConstants, AllApart, TypeOK, SteadyInv, Down
  PROVE  SteadyInv'
  <1> USE DEF SteadyInv, TypeOK, Free, AuthConstants, clockVars, watchVars, apiVars, history,
          excuses, Sound, Watched, Done, NoCopy
  <1>1. RequestsAlone'
    BY DEF Down, RequestsAlone, EditsArrive
  <1>2. WatcherApart'
    BY DEF Down, WatcherApart, OwnEventsInTime, EditsArrive, RequestsAlone, Unwritten
  <1>3. OwnEventsInTime'
    BY DEF Down, OwnEventsInTime, Unwritten, WatcherApart, RequestsAlone
  <1>4. EditsArrive'
    BY DEF Down, EditsArrive, Pending, Unwritten, RequestsAlone, WatcherApart,
       FileIsMeant, OwnEventsInTime
  <1>5. FileIsMeant'
    <2> SUFFICES ASSUME ~ spoilt', editor = "idle"
                 PROVE  file \in Maps /\ \A k \in Keys \ unsaved' : file[k] = meant[k]
      BY DEF Down, FileIsMeant
    <2>1. ~ spoilt /\ \A r \in Requests : phase[r] # "filling"
      BY DEF Down
    <2>2. \A k \in Keys : OnTheWay(k) => k \in unsaved'
      BY DEF Down, OnTheWay
    <2>3. unsaved \subseteq unsaved'
      BY DEF Down
    <2> QED BY <2>1, <2>2, <2>3 DEF FileIsMeant
  <1> QED BY <1>1, <1>2, <1>3, <1>4, <1>5 DEF SteadyInv

\* The accounts are loaded from the file.
LEMMA BootSteady ==
  ASSUME AuthConstants, AllApart, TypeOK, SteadyInv, Boot
  PROVE  SteadyInv'
  <1> USE DEF SteadyInv, TypeOK, Free, AuthConstants, clockVars, watchVars, apiVars, history,
          excuses, Sound, Watched, Done, NoCopy
  <1>1. RequestsAlone'
    BY DEF Boot, RequestsAlone, EditsArrive
  <1>2. WatcherApart'
    BY DEF Boot, WatcherApart, OwnEventsInTime, EditsArrive, RequestsAlone, Unwritten
  <1>3. OwnEventsInTime'
    BY DEF Boot, OwnEventsInTime, Unwritten, WatcherApart, RequestsAlone
  <1>4. EditsArrive'
    BY DEF Boot, EditsArrive, Pending, Unwritten, RequestsAlone, WatcherApart,
       FileIsMeant, OwnEventsInTime
  <1>5. FileIsMeant'
    <2> SUFFICES ASSUME ~ spoilt, editor = "idle"
                 PROVE  users' = meant' /\ file = meant'
      BY DEF Boot, FileIsMeant
    <2>1. Free
      BY DEF Boot, RequestsAlone
    <2>2. \A k \in Keys \ unsaved : file[k] = meant[k]
      BY <2>1 DEF FileIsMeant, OnTheWay
    <2>3. file = [k \in Keys |-> file[k]]
      BY DEF Boot, Maps
    <2> QED BY <2>2, <2>3 DEF Boot
  <1> QED BY <1>1, <1>2, <1>3, <1>4, <1>5 DEF SteadyInv

\* The watcher starts with an empty channel.
LEMMA StartWatcherSteady ==
  ASSUME AuthConstants, AllApart, TypeOK, SteadyInv, StartWatcher
  PROVE  SteadyInv'
  <1> USE DEF SteadyInv, TypeOK, Free, AuthConstants, clockVars, watchVars, apiVars, history,
          excuses, Sound, Watched, Done, NoCopy
  <1>1. RequestsAlone'
    BY DEF StartWatcher, RequestsAlone, EditsArrive
  <1>2. WatcherApart'
    BY DEF StartWatcher, WatcherApart, OwnEventsInTime, EditsArrive, RequestsAlone,
       Unwritten
  <1>3. OwnEventsInTime'
    BY DEF StartWatcher, OwnEventsInTime, Unwritten, WatcherApart, RequestsAlone
  <1>4. EditsArrive'
    BY DEF StartWatcher, EditsArrive, Pending, Unwritten, RequestsAlone, WatcherApart,
       FileIsMeant, OwnEventsInTime
  <1>5. FileIsMeant'
    BY DEF StartWatcher, FileIsMeant, OnTheWay, RequestsAlone, EditsArrive
  <1> QED BY <1>1, <1>2, <1>3, <1>4, <1>5 DEF SteadyInv

\* A server without a watcher is as one where nothing is read.
LEMMA StartWatcherErrorSteady ==
  ASSUME AuthConstants, AllApart, TypeOK, SteadyInv, StartWatcherError
  PROVE  SteadyInv'
  <1> USE DEF SteadyInv, TypeOK, Free, AuthConstants, clockVars, watchVars, apiVars, history,
          excuses, Sound, Watched, Done, NoCopy
  <1>1. RequestsAlone'
    BY DEF StartWatcherError, RequestsAlone, EditsArrive
  <1>2. WatcherApart'
    BY DEF StartWatcherError, WatcherApart, OwnEventsInTime, EditsArrive, RequestsAlone,
       Unwritten
  <1>3. OwnEventsInTime'
    BY DEF StartWatcherError, OwnEventsInTime, Unwritten, WatcherApart, RequestsAlone
  <1>4. EditsArrive'
    BY DEF StartWatcherError, EditsArrive, Pending, Unwritten, RequestsAlone,
       WatcherApart, FileIsMeant, OwnEventsInTime
  <1>5. FileIsMeant'
    BY DEF StartWatcherError, FileIsMeant, OnTheWay, RequestsAlone, EditsArrive
  <1> QED BY <1>1, <1>2, <1>3, <1>4, <1>5 DEF SteadyInv

\* The second store is loaded.
LEMMA PopLoadSteady ==
  ASSUME AuthConstants, AllApart, TypeOK, SteadyInv, PopLoad
  PROVE  SteadyInv'
  <1> USE DEF SteadyInv, TypeOK, Free, AuthConstants, clockVars, watchVars, apiVars, history,
          excuses, Sound, Watched, Done, NoCopy
  <1>1. RequestsAlone'
    BY DEF PopLoad, RequestsAlone, EditsArrive
  <1>2. WatcherApart'
    BY DEF PopLoad, WatcherApart, OwnEventsInTime, EditsArrive, RequestsAlone, Unwritten
  <1>3. OwnEventsInTime'
    BY DEF PopLoad, OwnEventsInTime, Unwritten, WatcherApart, RequestsAlone
  <1>4. EditsArrive'
    BY DEF PopLoad, EditsArrive, Pending, Unwritten, RequestsAlone, WatcherApart,
       FileIsMeant, OwnEventsInTime
  <1>5. FileIsMeant'
    BY DEF PopLoad, FileIsMeant, OnTheWay, RequestsAlone, EditsArrive
  <1> QED BY <1>1, <1>2, <1>3, <1>4, <1>5 DEF SteadyInv

\* The process ends when that fails.
LEMMA PopLoadErrorSteady ==
  ASSUME AuthConstants, AllApart, TypeOK, SteadyInv, PopLoadError
  PROVE  SteadyInv'
  <1> USE DEF SteadyInv, TypeOK, Free, AuthConstants, clockVars, watchVars, apiVars, history,
          excuses, Sound, Watched, Done, NoCopy
  <1>1. RequestsAlone'
    BY DEF PopLoadError, RequestsAlone, EditsArrive
  <1>2. WatcherApart'
    BY DEF PopLoadError, WatcherApart, OwnEventsInTime, EditsArrive, RequestsAlone,
       Unwritten
  <1>3. OwnEventsInTime'
    BY DEF PopLoadError, OwnEventsInTime, Unwritten, WatcherApart, RequestsAlone
  <1>4. EditsArrive'
    BY DEF PopLoadError, EditsArrive, Pending, Unwritten, RequestsAlone, WatcherApart,
       FileIsMeant, OwnEventsInTime
  <1>5. FileIsMeant'
    BY DEF PopLoadError, FileIsMeant, OnTheWay, RequestsAlone, EditsArrive
  <1> QED BY <1>1, <1>2, <1>3, <1>4, <1>5 DEF SteadyInv

-----------------------------------------------------------------------------
\* Every step keeps the invariant.
LEMMA SteadyStep ==
  ASSUME AuthConstants, AllApart, TypeOK, SteadyInv, [Next]_vars
  PROVE  SteadyInv'
  <1>1. ASSUME NEW r \in Requests, NewRequest(r) PROVE SteadyInv'
    BY <1>1, PostUserSteady, PutGetSteady, DeleteUserSteady DEF NewRequest
  <1>2. ASSUME NEW r \in Requests, RequestStep(r) PROVE SteadyInv'
    BY <1>2, PutUpsertSteady, PutErrorSteady, SnapshotSteady, TruncateSteady,
       WriteErrorSteady, FillSteady, FillErrorSteady, StampSteady DEF RequestStep
  <1>3. CASE Notify \/ WatcherStep
    BY <1>3, NotifySteady, WakeSteady, DrainSteady, CheckSteady, ReadSteady,
       InstallSteady DEF WatcherStep
  <1>4. CASE Tick \/ EditBegin
    BY <1>4, TickSteady, EditBeginSteady
  <1>5. ASSUME NEW m \in Maps, EditEnd(m) PROVE SteadyInv'
    BY <1>5, EditEndSteady
  <1>6. CASE Crash \/ Boot \/ StartWatcher \/ StartWatcherError \/ PopLoad \/ PopLoadError
             \/ Exit
    BY <1>6, DownSteady, BootSteady, StartWatcherSteady, StartWatcherErrorSteady,
       PopLoadSteady, PopLoadErrorSteady DEF Crash, Exit
  <1>7. CASE UNCHANGED vars
    BY <1>7 DEF vars, clockVars, watchVars, apiVars, history, excuses, SteadyInv,
       RequestsAlone, WatcherApart, OwnEventsInTime, EditsArrive, FileIsMeant, OnTheWay, Free,
       Pending, Unwritten, Sound, Watched
  <1> QED BY <1>1, <1>2, <1>3, <1>4, <1>5, <1>6, <1>7 DEF Next

-----------------------------------------------------------------------------
(* The theorems *)

\* Every variable of the store keeps its type, however requests, edits and crashes mix.
THEOREM StoreTypes == AuthConstants => (Spec => []TypeOK)
  <1> SUFFICES ASSUME AuthConstants PROVE Spec => []TypeOK
    OBVIOUS
  <1>1. Init => TypeOK
    <2> SUFFICES ASSUME Init PROVE TypeOK
      OBVIOUS
    <2>1. age \in 0..Debounce /\ nap \in 0..Sleep /\ queue \in 0..QueueCap
      BY DEF Init, AuthConstants
    <2>2. /\ phase \in [Requests -> {"free", "got", "saving", "writing", "filling", "stamping"}]
          /\ snap \in [Requests -> Maps]
          /\ DOMAIN copy = Requests /\ \A r \in Requests : phase[r] # "got"
      BY DEF Init
    <2> QED BY <2>1, <2>2 DEF Init, TypeOK
  <1>2. TypeOK /\ [Next]_vars => TypeOK'
    BY TypeStep
  <1> QED BY <1>1, <1>2, PTL DEF Spec

\* While requests, edits and the start keep apart, a request has the store for itself,
\* saves are ignored in time, and an edit that is not loaded is about to be.
THEOREM StoreIsSteady == AuthConstants /\ AllApart => (Spec => []SteadyInv)
  <1> SUFFICES ASSUME AuthConstants, AllApart PROVE Spec => []SteadyInv
    OBVIOUS
  <1>1. Init => SteadyInv
    BY DEF Init, SteadyInv, RequestsAlone, WatcherApart, OwnEventsInTime, EditsArrive,
       FileIsMeant, OnTheWay, Free, Unwritten, Pending, Sound, Watched, AuthConstants
  <1>2. TypeOK /\ SteadyInv /\ [Next]_vars => SteadyInv'
    BY SteadyStep
  <1> QED BY <1>1, <1>2, StoreTypes, PTL DEF Spec

\* Once things settle, the accounts of the API are those of users.toml, if there is a
\* watcher, and but for accounts whose change failed to be saved and for cut writes.
THEOREM StoreInSync == AuthConstants /\ AllApart => (Spec => []InSync)
  <1> SUFFICES ASSUME AuthConstants, AllApart PROVE Spec => []InSync
    OBVIOUS
  <1>1. ASSUME TypeOK, SteadyInv, up = "up", Watched, Settled, ~ spoilt
        PROVE  \A k \in Keys \ unsaved : Shows(file, k, users)
    <2>1. Sound
      BY <1>1 DEF Sound, SteadyInv, WatcherApart
    <2>2. ~ Pending /\ watcher # "installing"
      BY <1>1 DEF Settled, Pending, Watched
    <2>3. users = meant
      BY <1>1, <2>1, <2>2 DEF SteadyInv, EditsArrive, Settled
    <2> QED BY <1>1, <2>3 DEF SteadyInv, FileIsMeant, OnTheWay, Settled, Free, Shows
  <1>2. TypeOK /\ SteadyInv => InSync
    BY <1>1 DEF InSync
  <1> QED BY <1>2, StoreIsSteady, StoreTypes, PTL

\* Once things settle, each account in users.toml is as the last acknowledged request or
\* edit left it, over any number of kills of the server, except an account whose own
\* change failed to be saved; and except after a write that was cut between truncation and
\* filling, which may cost every account, until what was meant is in the file again.
THEOREM AckedStaysOnDisk == AuthConstants /\ AllApart => (Spec => []AckedIsOnDisk)
  <1> SUFFICES ASSUME AuthConstants, AllApart PROVE Spec => []AckedIsOnDisk
    OBVIOUS
  <1>1. SteadyInv => AckedIsOnDisk
    BY DEF SteadyInv, FileIsMeant, OnTheWay, AckedIsOnDisk, Settled, Free, Shows
  <1> QED BY <1>1, StoreIsSteady, PTL

\* The store never reloads the file because of a save it completed.
THEOREM CompletedSavesStayIgnored ==
  AuthConstants /\ AllApart => (Spec => []StampedSavesAreIgnored)
  <1> SUFFICES ASSUME AuthConstants, AllApart PROVE Spec => []StampedSavesAreIgnored
    OBVIOUS
  <1>1. SteadyInv => StampedSavesAreIgnored
    BY DEF SteadyInv, WatcherApart, StampedSavesAreIgnored
  <1> QED BY <1>1, StoreIsSteady, PTL
=============================================================================
