------------------------------ MODULE Management ------------------------------
(***************************************************************************)
(* Who is who: the names under which the management API (api/handlers.rs,  *)
(* api/routes.rs), pop3ctl (bin/pop3ctl.rs), the account store             *)
(* (auth/store.rs) and users.toml know an account, and the map of the      *)
(* domains (vhost/router.rs).                                              *)
(*                                                                         *)
(* A name is the sequence of its parts between the '@': "ann@corp" is      *)
(* <<"ann", "corp">>.  A request is one step here, with the save that      *)
(* follows it, and so is an edit by hand with the reload that follows;     *)
(* AuthStore takes them apart.  Only the listing of the domains is taken   *)
(* in its steps: it asks the map for the names, and then for each of them. *)
(***************************************************************************)
EXTENDS Naturals, Sequences, FiniteSets, Functions

CONSTANTS
  Parts,       \* what stands between the '@' of names
  Nil,         \* the part without a character
  Small,       \* to_lowercase, of a part
  Usernames,   \* names of users in requests to the API
  Domains,     \* names of domains in requests to the API
  Typed,       \* names given to pop3ctl, and to USER
  Dirs,        \* directories an account may be given explicitly
  NoDir,       \* no directory given
  Kinds,       \* kinds of storage, "maildir", that of pop3ctl, among them
  Rest,        \* values of the fields that have no part in this
  Entries,     \* entries somebody may write into users.toml
  MaxAccounts, \* bound: accounts, and entries in an edited file
  Infos,       \* settings of a domain in requests to the API
  DomainFiles, \* the files in domains/, as records of a name and settings
  NoUser,      \* no account under this name
  Idle         \* no listing of the domains is under way

Names == Seq(Parts) \ {<<>>}
Lower(n) == [i \in DOMAIN n |-> Small[n[i]]]
NoDomain == <<Nil>>

Maildirs == Dirs \cup {NoDir}
Records == [username : Names, domain : Names, maildir : Maildirs,
            storage : Kinds, rest : Rest]
DomainConfig == [name : Names, info : Infos \cup {c.info : c \in DomainFiles}]

ASSUME ManagementConstants ==
  /\ Nil \in Parts
  /\ Small \in [Parts -> Parts] /\ Small[Nil] = Nil
  /\ \A p \in Parts : Small[Small[p]] = Small[p] /\ (Small[p] = Nil => p = Nil)
  /\ Usernames \subseteq Names /\ Domains \subseteq Names /\ Typed \subseteq Names
  /\ Entries \subseteq Records /\ "maildir" \in Kinds
  /\ DomainFiles \subseteq DomainConfig
  /\ NoUser \notin Records
  /\ MaxAccounts \in Nat

VARIABLES
  users,    \* AuthStore.users: from keys to accounts
  file,     \* the entries of users.toml
  given,    \* history: from addresses to what was last said of the account there
  domains,  \* VirtualHostRouter.domains: from names to settings
  listing   \* GET of the domains: the names left, what was found; history: the
            \* domains there all along, and every state of one that was there

accountVars == <<users, file, given>>
domainVars == <<domains, listing>>
vars == <<accountVars, domainVars>>

\* HashMap::insert
Insert(m, k, v) == [j \in DOMAIN m \cup {k} |-> IF j = k THEN v ELSE m[j]]

-----------------------------------------------------------------------------
(* Names *)

\* format!("{}@{}")
Address(u, d) == u \o d

\* A slip: the domain keeps its case.
MakeKeyCased(u, d) == IF d = NoDomain THEN Lower(u) ELSE Address(Lower(u), d)

MakeKey(u, d) ==
  IF d = NoDomain THEN Lower(u) ELSE Address(Lower(u), Lower(d))
KeyOf(r) == MakeKey(r.username, r.domain)

Front(n) == SubSeq(n, 1, Len(n) - 1)
Last(n) == n[Len(n)]

\* The last '@' parts the user from the domain.
ParseUsername(n) ==
  IF Len(n) > 1 THEN [user |-> Front(n), domain |-> <<Last(n)>>]
  ELSE [user |-> n, domain |-> NoDomain]

\* get_user and authenticate: the account under a name.
LookupKey(n) == MakeKey(ParseUsername(n).user, ParseUsername(n).domain)
Find(n) == IF LookupKey(n) \in DOMAIN users THEN users[LookupKey(n)] ELSE NoUser

\* A slip: the domain is compared as it was written.
ListCased(d) == {r \in Range(users) : r.domain = d}

\* list_users_by_domain
ListUsers(d) == {r \in Range(users) : Lower(r.domain) = Lower(d)}

-----------------------------------------------------------------------------
(* The file *)

\* save: one entry for each account, in an order that does not matter here.
SavedFrom(m) ==
  LET n == Cardinality(DOMAIN m) IN
  {[i \in 1..n |-> m[p[i]]] : p \in Bijection(1..n, DOMAIN m)}

\* The entries by a key: of those with one key the last counts.  (A set of one map.)
LastOfEach(s, key) ==
  {m \in [Range(key) -> Range(s)] :
     \A k \in Range(key) :
       \E i \in DOMAIN s : /\ m[k] = s[i] /\ key[i] = k
                           /\ \A j \in DOMAIN s : j > i => key[j] # k}

\* load and reload
Loaded(s) == LastOfEach(s, [i \in DOMAIN s |-> KeyOf(s[i])])

-----------------------------------------------------------------------------
(* Requests of the API for users *)

\* The routes match no empty segment.
Routed(n) == n # <<Nil>>

\* The address that is meant by a user and a domain, letters of either case.
Meant(u, d) == IF d = NoDomain THEN Lower(u) ELSE Lower(Address(u, d))

\* The address that a name stands for: one that ends in '@' has no domain.
Named(n) == IF Len(n) > 1 /\ Last(n) = Nil THEN Lower(Front(n)) ELSE Lower(n)

\* upsert_user and its save
UpsertUser(r) ==
  /\ Cardinality(DOMAIN users \cup {KeyOf(r)}) <= MaxAccounts
  /\ users' = Insert(users, KeyOf(r), r)
  /\ file' \in SavedFrom(users')

\* create_user, whether there is an account of that name or not
PostUser(d, u, dir, kind, x) ==
  LET r == [username |-> u, domain |-> d, maildir |-> dir, storage |-> kind, rest |-> x] IN
  /\ Routed(d)
  /\ UpsertUser(r)
  /\ given' = Insert(given, Meant(u, d), r)
  /\ UNCHANGED domainVars

\* update_user: the account under the joined name, with the new values of its fields
PutUser(d, u, dir, kind, x) ==
  LET a == Address(u, d)
      Update(r) == [r EXCEPT !.maildir = dir, !.storage = kind, !.rest = x] IN
  /\ Routed(d) /\ Routed(u)
  /\ Find(a) # NoUser
  /\ UpsertUser(Update(Find(a)))
  /\ given' = IF Named(a) \in DOMAIN given
              THEN [given EXCEPT ![Named(a)] = Update(@)] ELSE given
  /\ UNCHANGED domainVars

\* delete_user
DeleteUser(d, u) ==
  /\ Routed(d) /\ Routed(u)
  /\ MakeKey(u, d) \in DOMAIN users
  /\ users' = Restrict(users, DOMAIN users \ {MakeKey(u, d)})
  /\ file' \in SavedFrom(users')
  /\ given' = Restrict(given, DOMAIN given \ {Meant(u, d)})
  /\ UNCHANGED domainVars

UserRequest(d, u) ==
  \/ \E dir \in Maildirs, kind \in Kinds, x \in Rest :
       PostUser(d, u, dir, kind, x) \/ PutUser(d, u, dir, kind, x)
  \/ DeleteUser(d, u)

-----------------------------------------------------------------------------
(* pop3ctl *)

\* parse_username: rsplitn(2, '@'), of a name that has one
CtlParse(n) == [user |-> Front(n), domain |-> <<Last(n)>>]

\* user add, set-webhook and set-password, remove
CtlUser(n) ==
  LET u == CtlParse(n).user
      d == CtlParse(n).domain IN
  /\ Len(n) > 1
  /\ \/ \E x \in Rest : PostUser(d, u, NoDir, "maildir", x)
     \/ \E x \in Rest :
          /\ Find(Address(u, d)) # NoUser
          /\ PutUser(d, u, Find(Address(u, d)).maildir, Find(Address(u, d)).storage, x)
     \/ DeleteUser(d, u)

-----------------------------------------------------------------------------
(* Somebody edits users.toml, and the store reloads it. *)
Edit(s) ==
  /\ file' = s
  /\ users' \in Loaded(s)
  /\ given' \in LastOfEach(s, [i \in DOMAIN s |-> Meant(s[i].username, s[i].domain)])
  /\ UNCHANGED domainVars

-----------------------------------------------------------------------------
(* Domains *)

\* What a listing under way has to remember of a change of the domains.
Witnessed(m) ==
  IF listing = Idle THEN Idle
  ELSE [listing EXCEPT !.steady = @ \cap DOMAIN m, !.during = @ \cup Range(m)]

\* A slip: the domain is known by the name as it was given.
DomainAsGiven(d, i) ==
  /\ domains' = Insert(domains, d, [name |-> d, info |-> i])
  /\ listing' = Witnessed(domains')
  /\ UNCHANGED accountVars

CreateDomain(d, i) ==
  /\ domains' = Insert(domains, Lower(d), [name |-> d, info |-> i])
  /\ listing' = Witnessed(domains')
  /\ UNCHANGED accountVars

DeleteDomain(d) ==
  /\ Routed(d)
  /\ Lower(d) \in DOMAIN domains
  /\ domains' = Restrict(domains, DOMAIN domains \ {Lower(d)})
  /\ listing' = Witnessed(domains')
  /\ UNCHANGED accountVars

\* A request of the API or of pop3ctl, which asks for the same.
DomainRequest(d) == DeleteDomain(d) \/ \E i \in Infos : CreateDomain(d, i)

\* list_domains asks for the names ...
ListNames ==
  /\ listing = Idle
  /\ listing' = [left |-> DOMAIN domains, found |-> {},
                 steady |-> DOMAIN domains, during |-> Range(domains)]
  /\ UNCHANGED <<accountVars, domains>>

\* A slip: the listing ends at a domain that is gone.
ListOrStop ==
  /\ listing # Idle
  /\ \E k \in listing.left :
       listing' = IF k \in DOMAIN domains
                  THEN [listing EXCEPT !.left = @ \ {k}, !.found = @ \cup {domains[k]}]
                  ELSE [listing EXCEPT !.left = {}]
  /\ UNCHANGED <<accountVars, domains>>

\* ... and then for each of them, leaving out those that are gone.
ListGet ==
  /\ listing # Idle
  /\ \E k \in listing.left :
       listing' = [listing EXCEPT !.left = @ \ {k},
                                  !.found = @ \cup (IF k \in DOMAIN domains
                                                    THEN {domains[k]} ELSE {})]
  /\ UNCHANGED <<accountVars, domains>>

Listed == listing # Idle /\ listing.left = {}
ListAnswer ==
  /\ Listed
  /\ listing' = Idle
  /\ UNCHANGED <<accountVars, domains>>

\* VirtualHostRouter::new: of files that name one domain, the one read last counts.
LoadedDomains ==
  LET names == {Lower(c.name) : c \in DomainFiles} IN
  {m \in [names -> DomainFiles] : \A k \in names : Lower(m[k].name) = k}

-----------------------------------------------------------------------------
(* The server starts again: what only memory held is gone. *)
Restart ==
  /\ users' \in Loaded(file)
  /\ domains' \in LoadedDomains
  /\ listing' = Idle
  /\ UNCHANGED <<file, given>>

Init ==
  /\ users = <<>> /\ file = <<>> /\ given = <<>>
  /\ domains \in LoadedDomains
  /\ listing = Idle

EditedFiles == UNION {[1..n -> Entries] : n \in 0..MaxAccounts}

Next ==
  \/ \E d \in Domains, u \in Usernames : UserRequest(d, u)
  \/ \E n \in Typed : CtlUser(n)
  \/ \E s \in EditedFiles : Edit(s)
  \/ \E d \in Domains : DomainRequest(d)
  \/ ListNames \/ ListGet \/ ListAnswer
  \/ Restart

Spec == Init /\ [][Next]_vars

-----------------------------------------------------------------------------
(* Properties *)

\* Accounts are known by keys, the file holds accounts, and domains are known by
\* their names in lower case.
TypeOK ==
  /\ DOMAIN users \subseteq Names /\ Range(users) \subseteq Records
  /\ DOMAIN given \subseteq Names /\ Range(given) \subseteq Records
  /\ file \in Seq(Records)
  /\ \A k \in DOMAIN domains :
       domains[k] \in DomainConfig /\ Lower(domains[k].name) = k
  /\ listing # Idle =>
       /\ listing.left \subseteq Names /\ listing.steady \subseteq Names
       /\ listing.found \subseteq DomainConfig /\ listing.during \subseteq DomainConfig

\* README.md:95, 113-122, docs/SPECIFICATION.md:64: a name leads to the account that
\* was last created or changed at the address it stands for, in letters of either case
\* and by whichever of POST, PUT, pop3ctl and the file, and to none after that was
\* removed, also after a restart.
AddressFindsItsAccount ==
  \A n \in Typed :
    Find(n) = IF Named(n) \in DOMAIN given THEN given[Named(n)] ELSE NoUser

\* docs/SPECIFICATION.md:155-156: the list of a domain and GET agree.  What is in the
\* list of a domain is what GET finds under its name there, unless the domain ends in
\* '@'; and what GET finds in a domain is in the list, where no '@' is in the domain and
\* in that of the account, and unless the file has the account without a domain.
ListAndGetAgree ==
  \A d \in Domains : Routed(d) =>
    /\ Last(d) # Nil => \A r \in ListUsers(d) : Find(Address(r.username, d)) = r
    /\ Len(d) = 1 => \A u \in Usernames :
         LET r == Find(Address(u, d)) IN
         r # NoUser /\ Len(r.domain) = 1 /\ r.domain # NoDomain => r \in ListUsers(d)

\* docs/SPECIFICATION.md:153: the list of the domains holds every domain that was there
\* all along, no domain twice, and none with settings it never had meanwhile, however
\* domains come and go between its steps.
ListIsTrue ==
  Listed =>
    /\ \A k \in listing.steady : \E c \in listing.found : Lower(c.name) = k
    /\ \A b, c \in listing.found : Lower(b.name) = Lower(c.name) => b = c
    /\ listing.found \subseteq listing.during
=============================================================================
