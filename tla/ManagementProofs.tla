--------------------------- MODULE ManagementProofs ---------------------------
(***************************************************************************)
(* An address leads to its account, whoever spells it, for all names,      *)
(* accounts, files and domains; and the list of the domains is true        *)
(* whatever changes while it is put together.                              *)
(*                                                                         *)
(* The argument about accounts is that there is one notion of an address,  *)
(* Meant, and that the code's three ways to a key (make_key of two names,  *)
(* of the joined name taken apart, and of an entry of the file) all come   *)
(* to it; the invariant is that the map is what was said by address, and   *)
(* that the file loads to the map.  For the domains it is that a listing   *)
(* under way has found, or has yet to ask for, every domain that was there *)
(* all along.                                                              *)
(***************************************************************************)
EXTENDS Management, SequenceTheorems, FiniteSetTheorems, TLAPS

\* to_lowercase works part by part.
LEMMA LowerName ==
  ASSUME ManagementConstants, NEW n \in Names
  PROVE  Lower(n) \in Names /\ Len(Lower(n)) = Len(n) /\ \A i \in 1..Len(n) : Lower(n)[i] = Small[n[i]]
BY DEF ManagementConstants, Names, Lower

\* To join and to lower commute.
LEMMA AddressName ==
  ASSUME ManagementConstants, NEW u \in Names, NEW d \in Names
  PROVE  /\ Address(u, d) \in Names
         /\ Len(Address(u, d)) = Len(u) + Len(d) /\ Len(Address(u, d)) > 1
         /\ Last(Address(u, d)) = Last(d)
         /\ Lower(Address(u, d)) = Address(Lower(u), Lower(d))
  <1>1. /\ u \in Seq(Parts) /\ Len(u) \in Nat /\ Len(u) > 0
        /\ d \in Seq(Parts) /\ Len(d) \in Nat /\ Len(d) > 0
    BY EmptySeq DEF Names
  <1>2. /\ Address(u, d) \in Seq(Parts) /\ Len(Address(u, d)) = Len(u) + Len(d)
        /\ \A i \in 1..(Len(u) + Len(d)) :
             Address(u, d)[i] = IF i <= Len(u) THEN u[i] ELSE d[i - Len(u)]
    BY <1>1, ConcatProperties DEF Address
  <1>3. Address(u, d) \in Names /\ Len(Address(u, d)) > 1
    BY <1>1, <1>2, EmptySeq DEF Names
  <1>4. Last(Address(u, d)) = Last(d)
    <2>1. Len(u) + Len(d) \in 1..(Len(u) + Len(d)) /\ ~ (Len(u) + Len(d) <= Len(u))
          /\ (Len(u) + Len(d)) - Len(u) = Len(d)
      BY <1>1
    <2> QED BY <1>2, <2>1 DEF Last
  <1>5. Lower(Address(u, d)) = Address(Lower(u), Lower(d))
    <2>1. /\ Lower(u) \in Seq(Parts) /\ Len(Lower(u)) = Len(u)
          /\ Lower(d) \in Seq(Parts) /\ Len(Lower(d)) = Len(d)
          /\ \A i \in 1..Len(u) : Lower(u)[i] = Small[u[i]]
          /\ \A i \in 1..Len(d) : Lower(d)[i] = Small[d[i]]
      BY LowerName DEF Names
    <2>2. /\ Address(Lower(u), Lower(d)) \in Seq(Parts)
          /\ Len(Address(Lower(u), Lower(d))) = Len(u) + Len(d)
          /\ \A i \in 1..(Len(u) + Len(d)) : Address(Lower(u), Lower(d))[i] =
               IF i <= Len(u) THEN Lower(u)[i] ELSE Lower(d)[i - Len(u)]
      <3> DEFINE v == Lower(u)
                 e == Lower(d)
      <3>1. v \in Seq(Parts) /\ Len(v) = Len(u) /\ e \in Seq(Parts) /\ Len(e) = Len(d)
        BY <2>1
      <3> HIDE DEF v, e
      <3>2. /\ v \o e \in Seq(Parts) /\ Len(v \o e) = Len(v) + Len(e)
            /\ \A i \in 1..(Len(v) + Len(e)) :
                 (v \o e)[i] = IF i <= Len(v) THEN v[i] ELSE e[i - Len(v)]
        BY <3>1, ConcatProperties
      <3> QED BY <3>1, <3>2 DEF v, e, Address
    <2>3. /\ Lower(Address(u, d)) \in Seq(Parts) /\ Len(Lower(Address(u, d))) = Len(u) + Len(d)
          /\ \A i \in 1..(Len(u) + Len(d)) : Lower(Address(u, d))[i] = Small[Address(u, d)[i]]
      BY <1>2, <1>3, LowerName DEF Names
    <2>4. ASSUME NEW i \in 1..(Len(u) + Len(d))
          PROVE  Lower(Address(u, d))[i] = Address(Lower(u), Lower(d))[i]
      <3> DEFINE a == Lower(Address(u, d))[i]
                 b == Address(Lower(u), Lower(d))[i]
      <3>1. CASE i <= Len(u)
        <4>1. i \in 1..Len(u) /\ Address(u, d)[i] = u[i]
          BY <1>1, <1>2, <3>1
        <4>2. a = Small[u[i]] /\ b = Lower(u)[i]
          BY <2>2, <2>3, <3>1, <4>1
        <4> QED BY <2>1, <4>1, <4>2
      <3>2. CASE ~ (i <= Len(u))
        <4>1. i - Len(u) \in 1..Len(d) /\ Address(u, d)[i] = d[i - Len(u)]
          BY <1>1, <1>2, <3>2
        <4>2. a = Small[d[i - Len(u)]] /\ b = Lower(d)[i - Len(u)]
          BY <2>2, <2>3, <3>2, <4>1
        <4> QED BY <2>1, <4>1, <4>2
      <3> QED BY <3>1, <3>2
    <2> QED BY <2>2, <2>3, <2>4, SeqEqual
  <1> QED BY <1>2, <1>3, <1>4, <1>5

\* The last part of a name in lower case is that of the name, in lower case.
LEMMA LastLower ==
  ASSUME ManagementConstants, NEW n \in Names
  PROVE  /\ Last(n) \in Parts
         /\ Last(Lower(n)) = Small[Last(n)]
         /\ Last(Lower(n)) = Nil <=> Last(n) = Nil
         /\ Lower(n) = NoDomain <=> n = NoDomain
  <1>1. n \in Seq(Parts) /\ Len(n) \in Nat /\ Len(n) > 0
    BY EmptySeq DEF Names
  <1>2. \A i \in 1..Len(n) : n[i] \in Parts
    BY <1>1, ElementOfSeq
  <1>3. Len(n) \in 1..Len(n)
    BY <1>1
  <1>4. Last(n) \in Parts /\ Last(Lower(n)) = Small[Last(n)]
    BY <1>2, <1>3, LowerName DEF Last
  <1>5. Last(Lower(n)) = Nil <=> Last(n) = Nil
    BY <1>4 DEF ManagementConstants
  <1>6. \A m \in Names : m = NoDomain <=> Len(m) = 1 /\ Last(m) = Nil
    BY DEF Names, NoDomain, Last
  <1> QED BY <1>4, <1>5, <1>6, LowerName

\* An account is stored under the address that is meant by its names.
LEMMA KeyOfNames ==
  ASSUME ManagementConstants, NEW u \in Names, NEW d \in Names
  PROVE  MakeKey(u, d) = Meant(u, d) /\ Meant(u, d) \in Names
BY AddressName, LowerName DEF MakeKey, Meant

\* ... as is each account of the file.
LEMMA KeyOfRecord ==
  ASSUME ManagementConstants, NEW r \in Records
  PROVE  KeyOf(r) = Meant(r.username, r.domain) /\ KeyOf(r) \in Names
BY KeyOfNames DEF Records, KeyOf

\* A name is looked up under the address it stands for.
LEMMA LookupOfName ==
  ASSUME ManagementConstants, NEW n \in Names
  PROVE  LookupKey(n) = Named(n)
  <1>1. n \in Seq(Parts) /\ Len(n) \in Nat \ {0}
    BY EmptySeq DEF Names
  <1>2. CASE Len(n) = 1
    BY <1>2 DEF LookupKey, ParseUsername, MakeKey, Named
  <1>3. CASE Len(n) # 1
    <2>1. Len(n) \in Nat /\ Len(n) > 1 /\ \A i \in 1..Len(n) : n[i] \in Parts
      <3>1. \A l \in Nat \ {0} : l # 1 => l > 1
        OBVIOUS
      <3> QED BY <1>1, <1>3, <3>1, ElementOfSeq
    <2>2. /\ Front(n) \in Seq(Parts) /\ Len(Front(n)) = Len(n) - 1
          /\ \A i \in 1..(Len(n) - 1) : Front(n)[i] = n[i]
      BY <2>1 DEF Front, Names
    <2>3. Front(n) \in Names
      BY <2>1, <2>2 DEF Names
    <2>4. <<Last(n)>> \in Names /\ (<<Last(n)>> = NoDomain <=> Last(n) = Nil)
      BY <2>1 DEF Last, Names, NoDomain
    <2>5. Address(Front(n), <<Last(n)>>) = n
      <3>1. Address(Front(n), <<Last(n)>>) \in Seq(Parts)
        BY <2>3, <2>4, AddressName DEF Names
      <3>2. Len(Address(Front(n), <<Last(n)>>)) = Len(n)
        <4>1. Len(<<Last(n)>>) = 1
          OBVIOUS
        <4>2. Len(Address(Front(n), <<Last(n)>>)) = Len(Front(n)) + 1
          BY <2>3, <2>4, <4>1, AddressName
        <4> QED BY <2>1, <2>2, <4>2
      <3>3. \A i \in 1..Len(n) : Address(Front(n), <<Last(n)>>)[i] = n[i]
        BY <2>1, <2>2 DEF Address, Last
      <3> QED BY <3>1, <3>2, <3>3, SeqEqual DEF Names
    <2>6. LookupKey(n) = Meant(Front(n), <<Last(n)>>)
      BY <2>1, <2>3, <2>4, KeyOfNames DEF LookupKey, ParseUsername
    <2> QED BY <2>1, <2>4, <2>5, <2>6 DEF Meant, Named
  <1> QED BY <1>2, <1>3

\* For an address it is the one that is meant by user and domain, unless that ends in '@'.
LEMMA LookupOfAddress ==
  ASSUME ManagementConstants, NEW u \in Names, NEW d \in Names, Last(d) # Nil
  PROVE  LookupKey(Address(u, d)) = Meant(u, d)
  <1>1. Named(Address(u, d)) = Lower(Address(u, d))
    BY AddressName DEF Named
  <1>2. d # NoDomain
    <2>1. Last(NoDomain) = Nil
      BY DEF NoDomain, Last
    <2> QED BY <2>1
  <1> QED BY <1>1, <1>2, AddressName, LookupOfName DEF Meant

\* Which entry of a file counts for a key is no matter of choice.
LEMMA LastIsUnique ==
  ASSUME NEW s \in Seq(Records), NEW key, DOMAIN key = DOMAIN s,
         NEW m1 \in LastOfEach(s, key), NEW m2 \in LastOfEach(s, key)
  PROVE  m1 = m2
  <1>1. m1 \in [Range(key) -> Range(s)] /\ m2 \in [Range(key) -> Range(s)]
    BY DEF LastOfEach
  <1>2. ASSUME NEW k \in Range(key) PROVE m1[k] = m2[k]
    <2>1. PICK i \in DOMAIN s : m1[k] = s[i] /\ key[i] = k /\ \A j \in DOMAIN s : j > i => key[j] # k
      BY <1>2 DEF LastOfEach
    <2>2. PICK h \in DOMAIN s : m2[k] = s[h] /\ key[h] = k /\ \A j \in DOMAIN s : j > h => key[j] # k
      BY <1>2 DEF LastOfEach
    <2>3. i \in Nat /\ h \in Nat
      OBVIOUS
    <2> QED BY <2>1, <2>2, <2>3
  <1> QED BY <1>1, <1>2

\* A store that was loaded has each account under its own key.
LEMMA LoadKeepsKeys ==
  ASSUME ManagementConstants, NEW s \in Seq(Records), NEW m \in Loaded(s)
  PROVE  /\ IsFiniteSet(DOMAIN m)
         /\ m \in [DOMAIN m -> Records]
         /\ \A k \in DOMAIN m : KeyOf(m[k]) = k
  <1> DEFINE key == [i \in DOMAIN s |-> KeyOf(s[i])]
  <1>1. m \in [Range(key) -> Range(s)]
    BY DEF Loaded, LastOfEach
  <1>2. Range(s) \subseteq Records
    BY DEF Range
  <1>3. \A k \in Range(key) : KeyOf(m[k]) = k
    BY DEF Loaded, LastOfEach
  <1>4. IsFiniteSet(Range(key))
    <2>1. key \in Surjection(DOMAIN s, Range(key))
      BY DEF Surjection, Range
    <2>2. IsFiniteSet(DOMAIN s)
      BY FS_Interval
    <2> QED BY <2>1, <2>2, FS_Surjection
  <1> QED BY <1>1, <1>2, <1>3, <1>4

\* What was saved is loaded again, whatever order the entries were written in.
LEMMA SavedIsLoaded ==
  ASSUME ManagementConstants, NEW m, IsFiniteSet(DOMAIN m), m \in [DOMAIN m -> Records],
         \A k \in DOMAIN m : KeyOf(m[k]) = k,
         NEW s \in SavedFrom(m)
  PROVE  s \in Seq(Records) /\ \A l \in Loaded(s) : l = m
  <1> DEFINE n == Cardinality(DOMAIN m)
  <1>1. n \in Nat
    BY FS_CardinalityType
  <1>2. PICK p \in Bijection(1..n, DOMAIN m) : s = [i \in 1..n |-> m[p[i]]]
    BY DEF SavedFrom
  <1>3. /\ p \in [1..n -> DOMAIN m]
        /\ \A k \in DOMAIN m : \E i \in 1..n : p[i] = k
    BY DEF Bijection, Surjection
  <1>4. s \in Seq(Records) /\ DOMAIN s = 1..n
    <2>1. s \in [1..n -> Records]
      BY <1>2, <1>3
    <2>2. n \in Nat
      BY <1>1
    <2> HIDE DEF n
    <2>3. s \in Seq(Records)
      BY <2>1, <2>2, SeqDef
    <2> QED BY <2>1, <2>3
  <1> DEFINE key == [i \in DOMAIN s |-> KeyOf(s[i])]
  <1>5. \A i \in 1..n : key[i] = p[i] /\ s[i] = m[p[i]]
    BY <1>2, <1>3, <1>4
  <1>6. Range(key) = DOMAIN m
    <2>1. DOMAIN key = 1..n
      BY <1>4
    <2> HIDE DEF key, n
    <2>2. Range(key) = {p[i] : i \in 1..n}
      BY <1>5, <2>1 DEF Range
    <2>3. \A i \in 1..n : p[i] \in DOMAIN m
      BY <1>3
    <2>4. \A k \in DOMAIN m : k \in {p[i] : i \in 1..n}
      <3> TAKE k \in DOMAIN m
      <3>1. PICK i \in 1..n : p[i] = k
        BY <1>3
      <3> QED BY <3>1
    <2>5. Range(key) \subseteq DOMAIN m
      BY <2>2, <2>3
    <2>6. DOMAIN m \subseteq Range(key)
      BY <2>2, <2>4
    <2> QED BY <2>5, <2>6
  <1>7. ASSUME NEW l \in Loaded(s) PROVE l = m
    <2>1. l \in [DOMAIN m -> Range(s)]
      BY <1>6 DEF Loaded, LastOfEach
    <2>2. ASSUME NEW k \in DOMAIN m PROVE l[k] = m[k]
      <3>1. PICK i \in DOMAIN s : l[k] = s[i] /\ key[i] = k
        BY <1>6, <2>2 DEF Loaded, LastOfEach
      <3> QED BY <1>4, <1>5, <3>1
    <2> QED BY <2>1, <2>2
  <1> QED BY <1>4, <1>7

-----------------------------------------------------------------------------
(* The accounts *)

\* Keys are those of the accounts, the history says what the map says, and the file
\* loads as the map.
AccountInv ==
  /\ IsFiniteSet(DOMAIN users)
  /\ users \in [DOMAIN users -> Records]
  /\ \A k \in DOMAIN users : KeyOf(users[k]) = k
  /\ given = users
  /\ file \in Seq(Records)
  /\ \A m \in Loaded(file) : m = users

\* An upsert that is remembered as it is meant keeps the invariant.
LEMMA UpsertKeeps ==
  ASSUME ManagementConstants, AccountInv, NEW r \in Records,
         users' = Insert(users, KeyOf(r), r), file' \in SavedFrom(users'),
         given' = users'
  PROVE  AccountInv'
  <1> DEFINE m == Insert(users, KeyOf(r), r)
  <1>1. DOMAIN m = DOMAIN users \cup {KeyOf(r)}
    BY DEF Insert
  <1>2. \A k \in DOMAIN m : m[k] = IF k = KeyOf(r) THEN r ELSE users[k]
    BY DEF Insert
  <1>3. IsFiniteSet(DOMAIN m)
    BY <1>1, FS_AddElement DEF AccountInv
  <1>4. m \in [DOMAIN m -> Records]
    <2>1. \A k \in DOMAIN m : m[k] \in Records
      BY <1>1, <1>2 DEF AccountInv
    <2>2. m = [k \in DOMAIN m |-> m[k]]
      BY DEF Insert
    <2> HIDE DEF m
    <2> QED BY <2>1, <2>2
  <1>5. \A k \in DOMAIN m : KeyOf(m[k]) = k
    BY <1>1, <1>2 DEF AccountInv
  <1>6. file' \in Seq(Records) /\ \A l \in Loaded(file') : l = m
    <2> HIDE DEF m
    <2>1. file' \in SavedFrom(m)
      BY DEF m
    <2> QED BY <1>3, <1>4, <1>5, <2>1, SavedIsLoaded
  <1>7. users' = m
    OBVIOUS
  <1> HIDE DEF m
  <1> QED BY <1>3, <1>4, <1>5, <1>6, <1>7 DEF AccountInv, Loaded

\* POST of an account keeps the invariant.
LEMMA PostKeeps ==
  ASSUME ManagementConstants, AccountInv,
         NEW d \in Names, NEW u \in Names, NEW dir \in Maildirs, NEW kind \in Kinds,
         NEW x \in Rest, PostUser(d, u, dir, kind, x)
  PROVE  AccountInv'
  <1> DEFINE r == [username |-> u, domain |-> d, maildir |-> dir, storage |-> kind, rest |-> x]
  <1>1. r \in Records
    BY DEF Records
  <1>2. KeyOf(r) = Meant(u, d)
    BY <1>1, KeyOfRecord
  <1>3. users' = Insert(users, KeyOf(r), r) /\ file' \in SavedFrom(users')
    BY DEF PostUser, UpsertUser
  <1>4. given' = users'
    BY <1>2, <1>3 DEF PostUser, AccountInv
  <1> QED BY <1>1, <1>3, <1>4, UpsertKeeps

\* PUT finds the account that is meant, and writes it back under its key.
LEMMA PutKeeps ==
  ASSUME ManagementConstants, AccountInv,
         NEW d \in Names, NEW u \in Names, NEW dir \in Maildirs, NEW kind \in Kinds,
         NEW x \in Rest, PutUser(d, u, dir, kind, x)
  PROVE  AccountInv'
  <1> DEFINE k == Named(Address(u, d))
             r == [users[k] EXCEPT !.maildir = dir, !.storage = kind, !.rest = x]
  <1>1. LookupKey(Address(u, d)) = k
    BY AddressName, LookupOfName
  <1>2. k \in DOMAIN users /\ Find(Address(u, d)) = users[k]
    BY <1>1 DEF PutUser, Find
  <1>3. users[k] \in Records /\ KeyOf(users[k]) = k
    BY <1>2 DEF AccountInv
  <1>4. r \in Records /\ KeyOf(r) = k
    BY <1>3 DEF Records, KeyOf
  <1>5. users' = Insert(users, KeyOf(r), r) /\ file' \in SavedFrom(users')
    BY <1>2 DEF PutUser, UpsertUser
  <1>6. given' = [users EXCEPT ![k] = r]
    BY <1>2 DEF PutUser, AccountInv
  <1>7. given' = users'
    <2> HIDE DEF r, k
    <2>1. users' = [j \in DOMAIN users \cup {k} |-> IF j = k THEN r ELSE users[j]]
      BY <1>4, <1>5 DEF Insert
    <2>2. users \in [DOMAIN users -> Records]
      BY DEF AccountInv
    <2> QED BY <1>2, <1>6, <2>1, <2>2
  <1> HIDE DEF r
  <1> QED BY <1>4, <1>5, <1>7, UpsertKeeps

\* DELETE removes what is meant and nothing else.
LEMMA DeleteKeeps ==
  ASSUME ManagementConstants, AccountInv, NEW d \in Names, NEW u \in Names,
         DeleteUser(d, u)
  PROVE  AccountInv'
  <1> DEFINE k == Meant(u, d)
             m == [j \in DOMAIN users \ {k} |-> users[j]]
  <1>1. MakeKey(u, d) = k
    BY KeyOfNames
  <1>2. users' = m /\ given' = m /\ file' \in SavedFrom(m)
    BY <1>1 DEF DeleteUser, Restrict, AccountInv
  <1>3. IsFiniteSet(DOMAIN m)
    BY FS_RemoveElement DEF AccountInv
  <1>4. m \in [DOMAIN m -> Records] /\ \A j \in DOMAIN m : KeyOf(m[j]) = j
    BY DEF AccountInv
  <1> HIDE DEF m
  <1>5. file' \in Seq(Records) /\ \A l \in Loaded(file') : l = m
    BY <1>2, <1>3, <1>4, SavedIsLoaded
  <1> QED BY <1>2, <1>3, <1>4, <1>5 DEF AccountInv, Loaded

\* What pop3ctl makes of a name comes together again in the handlers.
LEMMA CtlKeeps ==
  ASSUME ManagementConstants, AccountInv, NEW n \in Names, CtlUser(n)
  PROVE  AccountInv'
  <1> DEFINE u == CtlParse(n).user
             d == CtlParse(n).domain
  <1>1. u \in Names /\ d \in Names
    <2>1. n \in Seq(Parts) /\ Len(n) \in Nat /\ Len(n) > 1
      BY DEF Names, CtlUser
    <2>2. \A i \in 1..Len(n) : n[i] \in Parts
      BY <2>1, ElementOfSeq
    <2>3. Front(n) \in Seq(Parts) /\ Len(Front(n)) = Len(n) - 1
      BY <2>1, <2>2 DEF Front
    <2>4. Front(n) # <<>>
      BY <2>1, <2>3
    <2>5. Last(n) \in Parts
      BY <2>1, <2>2 DEF Last
    <2> QED BY <2>3, <2>4, <2>5 DEF CtlParse, Names, Names
  <1>2. CASE \E x \in Rest : PostUser(d, u, NoDir, "maildir", x)
    BY <1>1, <1>2, PostKeeps DEF Maildirs, ManagementConstants
  <1>3. CASE \E x \in Rest :
               /\ Find(Address(u, d)) # NoUser
               /\ PutUser(d, u, Find(Address(u, d)).maildir, Find(Address(u, d)).storage, x)
    <2>1. Find(Address(u, d)) \in Records
      BY <1>3 DEF Find, AccountInv
    <2>2. Find(Address(u, d)).maildir \in Maildirs /\ Find(Address(u, d)).storage \in Kinds
      BY <2>1 DEF Records
    <2> QED BY <1>1, <1>3, <2>2, PutKeeps
  <1>4. CASE DeleteUser(d, u)
    BY <1>1, <1>4, DeleteKeeps
  <1> QED BY <1>2, <1>3, <1>4 DEF CtlUser

\* An edited file, entries of one address twice included, keeps the invariant.
LEMMA EditKeeps ==
  ASSUME ManagementConstants, NEW s \in EditedFiles, Edit(s)
  PROVE  AccountInv'
  <1>1. s \in Seq(Records)
    <2>1. PICK n \in 0..MaxAccounts : s \in [1..n -> Entries]
      BY DEF EditedFiles
    <2>2. n \in Nat /\ s \in [1..n -> Records]
      BY <2>1 DEF ManagementConstants
    <2> QED BY <2>2, SeqDef
  <1> DEFINE key == [i \in DOMAIN s |-> KeyOf(s[i])]
             told == [i \in DOMAIN s |-> Meant(s[i].username, s[i].domain)]
  <1>2. key = told
    <2>1. \A i \in DOMAIN s : s[i] \in Records
      BY <1>1
    <2> QED BY <2>1, KeyOfRecord
  <1>3. users' \in LastOfEach(s, key) /\ given' \in LastOfEach(s, key) /\ file' = s
    BY <1>2 DEF Edit, Loaded
  <1>4. \A m \in LastOfEach(s, key) : m = users'
    BY <1>1, <1>3, LastIsUnique
  <1>5. given' = users' /\ \A m \in Loaded(file') : m = users'
    BY <1>3, <1>4 DEF Loaded
  <1>6. users' \in Loaded(s)
    BY DEF Edit
  <1>7. IsFiniteSet(DOMAIN users') /\ users' \in [DOMAIN users' -> Records]
        /\ \A k \in DOMAIN users' : KeyOf(users'[k]) = k
    BY <1>1, <1>6, LoadKeepsKeys
  <1> QED BY <1>1, <1>3, <1>5, <1>7 DEF AccountInv, Loaded

\* A restart finds the accounts as they were.
LEMMA RestartKeeps ==
  ASSUME ManagementConstants, AccountInv, Restart
  PROVE  AccountInv'
  <1>1. users' = users /\ file' = file /\ given' = given
    BY DEF Restart, AccountInv
  <1> QED BY <1>1 DEF AccountInv, Loaded

\* Every step keeps the invariant of the accounts.
LEMMA AccountStep ==
  ASSUME ManagementConstants, AccountInv, [Next]_vars
  PROVE  AccountInv'
  <1>1. ASSUME NEW d \in Domains, NEW u \in Usernames, UserRequest(d, u) PROVE AccountInv'
    <2>1. d \in Names /\ u \in Names
      BY DEF ManagementConstants
    <2> QED BY <1>1, <2>1, PostKeeps, PutKeeps, DeleteKeeps DEF UserRequest
  <1>2. ASSUME NEW n \in Typed, CtlUser(n) PROVE AccountInv'
    BY <1>2, CtlKeeps DEF ManagementConstants
  <1>3. ASSUME NEW s \in EditedFiles, Edit(s) PROVE AccountInv'
    BY <1>3, EditKeeps
  <1>4. CASE UNCHANGED accountVars
    BY <1>4 DEF accountVars, AccountInv, Loaded
  <1>5. CASE Restart
    BY <1>5, RestartKeeps
  <1>6. CASE UNCHANGED vars
    BY <1>4, <1>6 DEF vars
  <1>7. ASSUME NEW d \in Domains, DomainRequest(d) PROVE AccountInv'
    BY <1>4, <1>7 DEF DomainRequest, DeleteDomain, CreateDomain
  <1>8. CASE ListNames \/ ListGet \/ ListAnswer
    BY <1>4, <1>8 DEF ListNames, ListGet, ListAnswer, accountVars
  <1> QED BY <1>1, <1>2, <1>3, <1>5, <1>6, <1>7, <1>8 DEF Next

\* There are no accounts at first, in memory, in the file and in what was said.
LEMMA AccountInit ==
  ASSUME ManagementConstants, Init
  PROVE  AccountInv
  <1>1. users = <<>> /\ given = <<>> /\ file = <<>> /\ DOMAIN users = {}
    BY DEF Init
  <1>2. \A m \in Loaded(file) : m = users
    <2>1. DOMAIN file = {}
      BY <1>1
    <2>2. Range([i \in DOMAIN file |-> KeyOf(file[i])]) = {}
      BY <2>1 DEF Range
    <2>3. \A m \in Loaded(file) : m \in [{} -> Range(file)]
      BY <2>2 DEF Loaded, LastOfEach
    <2> QED BY <1>1, <2>3
  <1>3. file \in Seq(Records) /\ IsFiniteSet(DOMAIN users)
    BY <1>1, FS_EmptySet
  <1> QED BY <1>1, <1>2, <1>3 DEF AccountInv

-----------------------------------------------------------------------------
(* The domains *)

\* What a listing has found was there, one for each name; what was there all along is
\* found or still to be asked for; what is there now was seen.
DomainInv ==
  /\ domains \in [DOMAIN domains -> DomainConfig]
  /\ \A k \in DOMAIN domains : Lower(domains[k].name) = k
  /\ listing # Idle =>
       /\ listing.left \subseteq Names
       /\ listing.steady \subseteq DOMAIN domains
       /\ Range(domains) \subseteq listing.during
       /\ listing.during \subseteq DomainConfig
       /\ listing.found \subseteq listing.during
       /\ \A k \in listing.steady :
            k \in listing.left \/ \E c \in listing.found : Lower(c.name) = k
       /\ \A c \in listing.found : Lower(c.name) \notin listing.left
       /\ \A b, c \in listing.found : Lower(b.name) = Lower(c.name) => b = c
       /\ listing = [left |-> listing.left, found |-> listing.found,
                     steady |-> listing.steady, during |-> listing.during]

\* Domains that were loaded are known by their names in lower case.
LEMMA LoadedDomainsAreNamed ==
  ASSUME ManagementConstants, NEW m \in LoadedDomains
  PROVE  m \in [DOMAIN m -> DomainConfig] /\ \A k \in DOMAIN m : Lower(m[k].name) = k
BY DEF LoadedDomains, ManagementConstants

\* A change of the domains keeps the invariant when a listing remembers it.
LEMMA WitnessedKeeps ==
  ASSUME DomainInv, NEW m, m \in [DOMAIN m -> DomainConfig],
         \A k \in DOMAIN m : Lower(m[k].name) = k,
         domains' = m, listing' = Witnessed(domains')
  PROVE  DomainInv'
  <1>1. CASE listing = Idle
    BY <1>1 DEF DomainInv, Witnessed
  <1>2. CASE listing # Idle
    <2>1. listing' = [left |-> listing.left, found |-> listing.found,
                      steady |-> listing.steady \cap DOMAIN m,
                      during |-> listing.during \cup Range(m)]
      BY <1>2 DEF DomainInv, Witnessed
    <2>2. Range(m) \subseteq DomainConfig
      BY DEF Range
    <2> QED BY <1>2, <2>1, <2>2 DEF DomainInv
  <1> QED BY <1>1, <1>2

\* POST of a domain keeps the invariant.
LEMMA CreateKeeps ==
  ASSUME ManagementConstants, DomainInv, NEW d \in Domains, NEW i \in Infos,
         CreateDomain(d, i)
  PROVE  DomainInv'
  <1> DEFINE c == [name |-> d, info |-> i]
             m == Insert(domains, Lower(d), c)
  <1>1. c \in DomainConfig
    BY DEF DomainConfig, ManagementConstants
  <1>2. m \in [DOMAIN m -> DomainConfig] /\ \A k \in DOMAIN m : Lower(m[k].name) = k
    BY <1>1 DEF Insert, DomainInv
  <1>3. domains' = m /\ listing' = Witnessed(domains')
    BY DEF CreateDomain
  <1> HIDE DEF m
  <1> QED BY <1>2, <1>3, WitnessedKeeps

\* DELETE of a domain keeps the invariant.
LEMMA DeleteDomainKeeps ==
  ASSUME DomainInv, NEW d \in Domains, DeleteDomain(d)
  PROVE  DomainInv'
  <1> DEFINE m == Restrict(domains, DOMAIN domains \ {Lower(d)})
  <1>1. m \in [DOMAIN m -> DomainConfig] /\ \A k \in DOMAIN m : Lower(m[k].name) = k
    BY DEF Restrict, DomainInv
  <1>2. domains' = m /\ listing' = Witnessed(domains')
    BY DEF DeleteDomain
  <1> HIDE DEF m
  <1> QED BY <1>1, <1>2, WitnessedKeeps

\* A listing starts with the domains that are there.
LEMMA ListNamesKeeps ==
  ASSUME ManagementConstants, DomainInv, ListNames
  PROVE  DomainInv'
  <1>1. listing' = [left |-> DOMAIN domains, found |-> {},
                    steady |-> DOMAIN domains, during |-> Range(domains)]
        /\ domains' = domains
    BY DEF ListNames
  <1>2. DOMAIN domains \subseteq Names
    BY LowerName DEF DomainInv, DomainConfig
  <1>3. Range(domains) \subseteq DomainConfig
    BY DEF Range, DomainInv
  <1> QED BY <1>1, <1>2, <1>3 DEF DomainInv

\* A listing gets on with a domain, there or gone.
LEMMA ListGetKeeps ==
  ASSUME DomainInv, ListGet
  PROVE  DomainInv'
  <1> DEFINE Now(k) == IF k \in DOMAIN domains THEN {domains[k]} ELSE {}
  <1>1. PICK k \in listing.left :
          listing' = [listing EXCEPT !.left = @ \ {k}, !.found = @ \cup Now(k)]
    BY DEF ListGet
  <1>2. listing # Idle /\ domains' = domains
    BY DEF ListGet
  <1>3. listing' = [left |-> listing.left \ {k}, found |-> listing.found \cup Now(k),
                    steady |-> listing.steady, during |-> listing.during]
    BY <1>1, <1>2 DEF DomainInv
  <1>4. \A c \in Now(k) : Lower(c.name) = k /\ c \in Range(domains)
    BY DEF DomainInv, Range
  <1>5. \A b, c \in Now(k) : b = c
    OBVIOUS
  <1>6. \A j \in listing.steady :
          j \in listing.left \ {k} \/ \E c \in listing.found \cup Now(k) : Lower(c.name) = j
    BY <1>2, <1>4 DEF DomainInv
  <1>7. \A c \in listing.found \cup Now(k) : Lower(c.name) \notin listing.left \ {k}
    BY <1>2, <1>4 DEF DomainInv
  <1>8. \A b, c \in listing.found \cup Now(k) : Lower(b.name) = Lower(c.name) => b = c
    BY <1>2, <1>4, <1>5 DEF DomainInv
  <1>9. listing.found \cup Now(k) \subseteq listing.during
    BY <1>2, <1>4 DEF DomainInv
  <1> HIDE DEF Now
  <1> QED BY <1>2, <1>3, <1>6, <1>7, <1>8, <1>9 DEF DomainInv

\* Every step keeps the invariant of the domains.
LEMMA DomainStep ==
  ASSUME ManagementConstants, DomainInv, [Next]_vars
  PROVE  DomainInv'
  <1>1. CASE UNCHANGED domainVars
    BY <1>1 DEF domainVars, DomainInv
  <1>2. ASSUME NEW d \in Domains, DomainRequest(d) PROVE DomainInv'
    BY <1>2, CreateKeeps, DeleteDomainKeeps DEF DomainRequest
  <1>3. CASE ListNames
    BY <1>3, ListNamesKeeps
  <1>4. CASE ListGet
    BY <1>4, ListGetKeeps
  <1>5. CASE ListAnswer
    BY <1>5 DEF ListAnswer, DomainInv
  <1>6. CASE Restart
    <2>1. domains' \in LoadedDomains /\ listing' = Idle
      BY <1>6 DEF Restart
    <2> QED BY <2>1, LoadedDomainsAreNamed DEF DomainInv
  <1>7. ASSUME NEW d \in Domains, NEW u \in Usernames, UserRequest(d, u) PROVE DomainInv'
    BY <1>1, <1>7 DEF UserRequest, PostUser, PutUser, DeleteUser
  <1>8. ASSUME NEW n \in Typed, CtlUser(n) PROVE DomainInv'
    BY <1>1, <1>8 DEF CtlUser, PostUser, PutUser, DeleteUser
  <1>9. ASSUME NEW s \in EditedFiles, Edit(s) PROVE DomainInv'
    BY <1>1, <1>9 DEF Edit
  <1>10. CASE UNCHANGED vars
    BY <1>1, <1>10 DEF vars
  <1> QED BY <1>2, <1>3, <1>4, <1>5, <1>6, <1>7, <1>8, <1>9, <1>10 DEF Next

\* The domains are those of the files at first.
LEMMA DomainInit ==
  ASSUME ManagementConstants, Init
  PROVE  DomainInv
BY LoadedDomainsAreNamed DEF Init, DomainInv

-----------------------------------------------------------------------------
(* The theorems *)

\* Accounts and domains keep to the two invariants.
THEOREM ManagementInvariant ==
  ManagementConstants => (Spec => [](AccountInv /\ DomainInv))
  <1> SUFFICES ASSUME ManagementConstants PROVE Spec => [](AccountInv /\ DomainInv)
    OBVIOUS
  <1>1. Init => AccountInv /\ DomainInv
    BY AccountInit, DomainInit
  <1>2. AccountInv /\ DomainInv /\ [Next]_vars => AccountInv' /\ DomainInv'
    BY AccountStep, DomainStep
  <1> QED BY <1>1, <1>2, PTL DEF Spec

\* Every variable of the management keeps its type.
THEOREM TypesAreKept == ManagementConstants => (Spec => []TypeOK)
  <1> SUFFICES ASSUME ManagementConstants PROVE Spec => []TypeOK
    OBVIOUS
  <1>1. AccountInv /\ DomainInv => TypeOK
    <2> SUFFICES ASSUME AccountInv, DomainInv PROVE TypeOK
      OBVIOUS
    <2>1. DOMAIN users \subseteq Names
      BY KeyOfRecord DEF AccountInv
    <2>2. Range(users) \subseteq Records
      BY DEF AccountInv, Range
    <2>3. given = users /\ file \in Seq(Records)
      BY DEF AccountInv
    <2>4. \A k \in DOMAIN domains : domains[k] \in DomainConfig /\ Lower(domains[k].name) = k
      BY DEF DomainInv
    <2>5. DOMAIN domains \subseteq Names
      BY <2>4, LowerName DEF DomainConfig
    <2> QED BY <2>1, <2>2, <2>3, <2>4, <2>5 DEF DomainInv, TypeOK
  <1> QED BY <1>1, ManagementInvariant, PTL

\* An address leads to the account last created or changed at it, and to no other.
THEOREM AddressesAreFound == ManagementConstants => (Spec => []AddressFindsItsAccount)
  <1> SUFFICES ASSUME ManagementConstants PROVE Spec => []AddressFindsItsAccount
    OBVIOUS
  <1>1. AccountInv => AddressFindsItsAccount
    <2> SUFFICES ASSUME AccountInv, NEW n \in Typed
                 PROVE  Find(n) = IF Named(n) \in DOMAIN given THEN given[Named(n)] ELSE NoUser
      BY DEF AddressFindsItsAccount
    <2>1. LookupKey(n) = Named(n)
      BY LookupOfName DEF ManagementConstants
    <2> QED BY <2>1 DEF Find, AccountInv
  <1> QED BY <1>1, ManagementInvariant, PTL

\* The list of a domain and GET agree on its accounts.
THEOREM ListsAndGetsAgree == ManagementConstants => (Spec => []ListAndGetAgree)
  <1> SUFFICES ASSUME ManagementConstants PROVE Spec => []ListAndGetAgree
    OBVIOUS
  <1>1. ASSUME AccountInv, NEW d \in Names, Routed(d), Last(d) # Nil, NEW r \in ListUsers(d)
        PROVE  Find(Address(r.username, d)) = r
    <2>1. PICK k \in DOMAIN users : r = users[k]
      BY DEF ListUsers, Range
    <2>2. r \in Records /\ KeyOf(r) = k /\ Lower(r.domain) = Lower(d)
      BY <1>1, <2>1 DEF AccountInv, ListUsers
    <2>3. r.username \in Names /\ r.domain \in Names
      BY <2>2 DEF Records
    <2>4. d # NoDomain /\ r.domain # NoDomain
      BY <1>1, <2>2, <2>3, LastLower DEF Routed, NoDomain
    <2>5. k = Meant(r.username, d)
      BY <2>2, <2>3, <2>4, AddressName, KeyOfRecord DEF Meant
    <2> QED BY <1>1, <2>1, <2>3, <2>5, LookupOfAddress DEF Find
  <1>2. ASSUME AccountInv, NEW d \in Names, Routed(d), Len(d) = 1, NEW u \in Names,
               Find(Address(u, d)) # NoUser, Len(Find(Address(u, d)).domain) = 1,
               Find(Address(u, d)).domain # NoDomain
        PROVE  Find(Address(u, d)) \in ListUsers(d)
    <2> DEFINE k == LookupKey(Address(u, d))
               r == users[k]
    <2>1. k \in DOMAIN users /\ Find(Address(u, d)) = r
      BY <1>2 DEF Find
    <2>2. r \in Records /\ KeyOf(r) = k
      BY <1>2, <2>1 DEF AccountInv
    <2>3. /\ r.username \in Names /\ r.domain \in Names
          /\ Len(r.domain) = 1 /\ r.domain # NoDomain
      BY <1>2, <2>1, <2>2 DEF Records
    <2>4. \A m \in Names : Len(m) = 1 => m = <<Last(m)>>
      BY DEF Names, Last
    <2>5. Last(d) # Nil
      BY <1>2, <2>4 DEF Routed
    <2>6. k = Lower(Address(u, d)) /\ k = Lower(Address(r.username, r.domain))
      <3> HIDE DEF r, k
      <3>1. k = Meant(u, d)
        BY <2>5, LookupOfAddress DEF k
      <3>2. k = Meant(r.username, r.domain)
        BY <2>2, KeyOfRecord
      <3> QED BY <1>2, <2>3, <3>1, <3>2 DEF Meant, Routed, NoDomain
    <2>7. Last(Lower(d)) = Last(Lower(r.domain))
      <3>1. /\ Lower(u) \in Names /\ Lower(r.username) \in Names
            /\ Lower(d) \in Names /\ Lower(r.domain) \in Names
        BY <2>3, LowerName
      <3>2. Address(Lower(u), Lower(d)) = Address(Lower(r.username), Lower(r.domain))
        BY <2>3, <2>6, AddressName
      <3>3. /\ Last(Address(Lower(u), Lower(d))) = Last(Lower(d))
            /\ Last(Address(Lower(r.username), Lower(r.domain))) = Last(Lower(r.domain))
        BY <3>1, AddressName
      <3> QED BY <3>2, <3>3
    <2>8. Lower(d) = Lower(r.domain)
      <3>1. /\ Lower(d) \in Names /\ Len(Lower(d)) = 1
            /\ Lower(r.domain) \in Names /\ Len(Lower(r.domain)) = 1
        BY <1>2, <2>3, LowerName
      <3> QED BY <2>4, <2>7, <3>1
    <2> QED BY <2>1, <2>8 DEF ListUsers, Range
  <1>3. AccountInv => ListAndGetAgree
    <2>1. Domains \subseteq Names /\ Usernames \subseteq Names
      BY DEF ManagementConstants
    <2> QED BY <1>1, <1>2, <2>1 DEF ListAndGetAgree
  <1> QED BY <1>3, ManagementInvariant, PTL

\* A list of the domains is true, whatever happens between its steps.
THEOREM ListsAreTrue == ManagementConstants => (Spec => []ListIsTrue)
  <1> SUFFICES ASSUME ManagementConstants PROVE Spec => []ListIsTrue
    OBVIOUS
  <1>1. DomainInv => ListIsTrue
    BY DEF DomainInv, ListIsTrue, Listed
  <1> QED BY <1>1, ManagementInvariant, PTL
=============================================================================
