----------------------- MODULE VersionedCache_proofs -----------------------
(***************************************************************************)
(* Theorems about VersionedCache, for every number of concurrent requests, *)
(* writes and failures.                                                    *)
(***************************************************************************)
EXTENDS VersionedCache, SequenceTheorems, TLAPS

-----------------------------------------------------------------------------
(* The shape of the operations, and of what remains of them.               *)

Plans == Seq(Labels)
Changes == {"write", "delete"}

\* An entry is stored right after its row was read, and looked up before that;
\* the version key is initialised by who has found it absent.
WellFormed(p) ==
    /\ \A i \in 2..Len(p) : p[i] = "setEntry" => p[i-1] = "readRow"
    /\ \A i \in 1..Len(p) : p[i] = "getEntry" =>
         i + 2 <= Len(p) /\ p[i+1] = "readRow" /\ p[i+2] = "setEntry"
    /\ \A i \in 1..Len(p) : p[i] = "getVersion" => i + 1 <= Len(p) /\ p[i+1] = "initVersion"

Whole(p) == p \in Plans /\ Len(p) > 0 /\ p[1] # "setEntry" /\ WellFormed(p)

Avoids(p, labels) == \A i \in 1..Len(p) : p[i] \notin labels

\* One of the labels is never the end of it: what ends them is still to come.
After(p, labels, end) ==
    \A i \in 1..Len(p) : p[i] \in labels => \E k \in i+1..Len(p) : p[k] = end

\* The row is changed before its entry is evicted.
EvictedAfter(p) == After(p, Changes, "evict")

\* What a sequence of two holds, and where.
LEMMA Concat ==
    ASSUME NEW p \in Plans, NEW q \in Plans
    PROVE  /\ p \o q \in Plans
           /\ Len(p \o q) = Len(p) + Len(q)
           /\ Len(p) \in Nat /\ Len(q) \in Nat
           /\ \A i \in 1..Len(p) : (p \o q)[i] = p[i]
           /\ \A i \in Len(p)+1..Len(p)+Len(q) :
                i - Len(p) \in 1..Len(q) /\ (p \o q)[i] = q[i - Len(p)]
BY ConcatProperties DEF Plans

\* Whole operations in a row are a whole operation.
LEMMA ConcatWhole ==
    ASSUME NEW p, NEW q, Whole(p), Whole(q)
    PROVE  Whole(p \o q)
<1> DEFINE c == p \o q
<1> DEFINE m == Len(p)
<1> DEFINE n == Len(q)
<1>1. p \in Plans /\ q \in Plans /\ WellFormed(p) /\ WellFormed(q) /\ q[1] # "setEntry"
      /\ m > 0 /\ n > 0 /\ p[1] # "setEntry"
  BY DEF Whole
<1>2. /\ c \in Plans /\ Len(c) = m + n /\ m \in Nat /\ n \in Nat
      /\ \A i \in 1..m : c[i] = p[i]
      /\ \A i \in m+1..m+n : i - m \in 1..n /\ c[i] = q[i - m]
  BY <1>1, Concat
<1> HIDE DEF c, m, n
<1>3. ASSUME NEW i \in 2..m+n, c[i] = "setEntry"
      PROVE  c[i-1] = "readRow"
  <2>1. CASE i <= m
    <3>1. p[i] = "setEntry" /\ i - 1 \in 1..m /\ i \in 2..m
      BY <1>2, <1>3, <2>1
    <3>2. p[i-1] = "readRow"
      BY <1>1, <3>1 DEF WellFormed, m
    <3>3. QED  BY <1>2, <3>1, <3>2
  <2>2. CASE i = m + 1
    <3>1. c[i] = q[1]
      BY <1>1, <1>2, <2>2
    <3>2. QED  BY <1>1, <1>3, <3>1
  <2>3. CASE i > m + 1
    <3>1. i - m \in 2..n /\ q[i-m] = "setEntry" /\ i - 1 \in m+1..m+n /\ i - 1 - m = i - m - 1
      BY <1>2, <1>3, <2>3
    <3>2. q[i-m-1] = "readRow"
      BY <1>1, <3>1 DEF WellFormed, n
    <3>3. QED  BY <1>2, <3>1, <3>2
  <2>4. QED  BY <1>2, <2>1, <2>2, <2>3
<1>4. ASSUME NEW i \in 1..m+n, c[i] = "getEntry"
      PROVE  i + 2 <= m + n /\ c[i+1] = "readRow" /\ c[i+2] = "setEntry"
  <2>1. CASE i <= m
    <3>1. p[i] = "getEntry" /\ i \in 1..m
      BY <1>2, <1>4, <2>1
    <3>2. i + 2 <= m /\ p[i+1] = "readRow" /\ p[i+2] = "setEntry"
      BY <1>1, <3>1 DEF WellFormed, m
    <3>3. i + 1 \in 1..m /\ i + 2 \in 1..m
      BY <1>2, <3>1, <3>2
    <3>4. QED  BY <1>2, <3>2, <3>3
  <2>2. CASE i > m
    <3>1. i - m \in 1..n /\ q[i-m] = "getEntry"
      BY <1>2, <1>4, <2>2
    <3>2. i - m + 2 <= n /\ q[i-m+1] = "readRow" /\ q[i-m+2] = "setEntry"
      BY <1>1, <3>1 DEF WellFormed, n
    <3>3. /\ i + 1 \in m+1..m+n /\ i + 2 \in m+1..m+n
          /\ i + 1 - m = i - m + 1 /\ i + 2 - m = i - m + 2
      BY <1>2, <3>1, <3>2
    <3>4. QED  BY <1>2, <3>2, <3>3
  <2>3. QED  BY <1>2, <2>1, <2>2
<1>5. ASSUME NEW i \in 1..m+n, c[i] = "getVersion"
      PROVE  i + 1 <= m + n /\ c[i+1] = "initVersion"
  <2>1. CASE i <= m
    <3>1. p[i] = "getVersion" /\ i \in 1..m
      BY <1>2, <1>5, <2>1
    <3>2. i + 1 <= m /\ p[i+1] = "initVersion"
      BY <1>1, <3>1 DEF WellFormed, m
    <3>3. QED  BY <1>2, <3>1, <3>2
  <2>2. CASE i > m
    <3>1. i - m \in 1..n /\ q[i-m] = "getVersion"
      BY <1>2, <1>5, <2>2
    <3>2. i - m + 1 <= n /\ q[i-m+1] = "initVersion"
      BY <1>1, <3>1 DEF WellFormed, n
    <3>3. i + 1 \in m+1..m+n /\ i + 1 - m = i - m + 1
      BY <1>2, <3>1, <3>2
    <3>4. QED  BY <1>2, <3>2, <3>3
  <2>3. QED  BY <1>2, <2>1, <2>2
<1>6. c[1] = p[1]
  BY <1>1, <1>2
<1>7. Whole(c)
  BY <1>1, <1>2, <1>3, <1>4, <1>5, <1>6 DEF Whole, WellFormed
<1>8. QED  BY <1>7 DEF c

LEMMA ConcatAvoids ==
    ASSUME NEW p \in Plans, NEW q \in Plans, NEW labels, Avoids(p, labels), Avoids(q, labels)
    PROVE  Avoids(p \o q, labels)
<1> DEFINE c == p \o q
<1> HIDE DEF c
<1>1. /\ Len(c) = Len(p) + Len(q) /\ Len(p) \in Nat /\ Len(q) \in Nat
      /\ \A i \in 1..Len(p) : c[i] = p[i]
      /\ \A i \in Len(p)+1..Len(p)+Len(q) : i - Len(p) \in 1..Len(q) /\ c[i] = q[i - Len(p)]
  BY Concat DEF c
<1>2. \A i \in 1..Len(c) : i \in 1..Len(p) \/ i \in Len(p)+1..Len(p)+Len(q)
  BY <1>1
<1>3. Avoids(c, labels)
  BY <1>1, <1>2 DEF Avoids
<1>4. QED  BY <1>3 DEF c

LEMMA ConcatAfter ==
    ASSUME NEW p \in Plans, NEW q \in Plans, NEW labels, NEW end, After(q, labels, end),
           After(p, labels, end) \/ \E j \in 1..Len(q) : q[j] = end
    PROVE  After(p \o q, labels, end)
<1> DEFINE c == p \o q
<1> DEFINE m == Len(p)
<1> DEFINE n == Len(q)
<1>1. /\ Len(c) = m + n /\ m \in Nat /\ n \in Nat
      /\ \A i \in 1..m : c[i] = p[i]
      /\ \A i \in m+1..m+n : i - m \in 1..n /\ c[i] = q[i - m]
  BY Concat
<1> HIDE DEF c, m, n
<1>2. ASSUME NEW i \in 1..m+n, c[i] \in labels
      PROVE  \E k \in i+1..m+n : c[k] = end
  <2>1. CASE i <= m /\ After(p, labels, end)
    <3>1. PICK k \in i+1..m : p[k] = end
      BY <1>1, <1>2, <2>1 DEF After, m
    <3>2. k \in 1..m /\ k \in i+1..m+n
      BY <1>1
    <3>3. QED  BY <1>1, <3>1, <3>2
  <2>2. CASE i <= m /\ \E j \in 1..Len(q) : q[j] = end
    <3>1. PICK j \in 1..n : q[j] = end
      BY <2>2 DEF n
    <3>2. j + m \in m+1..m+n /\ j + m \in i+1..m+n /\ j + m - m = j
      BY <1>1, <2>2, <3>1
    <3>3. QED  BY <1>1, <3>1, <3>2
  <2>3. CASE i > m
    <3>1. i - m \in 1..n /\ q[i-m] \in labels
      BY <1>1, <1>2, <2>3
    <3>2. PICK k \in i-m+1..n : q[k] = end
      BY <3>1 DEF After, n
    <3>3. k + m \in m+1..m+n /\ k + m \in i+1..m+n /\ k + m - m = k
      BY <1>1, <3>1
    <3>4. QED  BY <1>1, <3>2, <3>3
  <2>4. QED  BY <1>1, <2>1, <2>2, <2>3
<1>3. After(c, labels, end)
  BY <1>1, <1>2 DEF After
<1>4. QED  BY <1>3 DEF c

-----------------------------------------------------------------------------
(* The operations.                                                         *)

\* The parts operations are made of.
LEMMA OneIsWhole ==
    ASSUME NEW label \in Labels \ {"setEntry", "getEntry", "getVersion"}
    PROVE  /\ Whole(<<label>>)
           /\ \A labels : label \notin labels => Avoids(<<label>>, labels)
BY DEF Whole, WellFormed, Plans, Avoids

LEMMA FindOneIs ==
    /\ Whole(FindOne) /\ EvictedAfter(FindOne)
    /\ Avoids(FindOne, Changes) /\ Avoids(FindOne, {"insert"})
<1>1. FindOne \in Plans /\ Len(FindOne) = 3
  BY DEF FindOne, Plans, Labels
<1>2. FindOne[1] = "getEntry" /\ FindOne[2] = "readRow" /\ FindOne[3] = "setEntry"
  BY DEF FindOne
<1>3. QED
  BY <1>1, <1>2 DEF Whole, WellFormed, EvictedAfter, After, Avoids, Changes

LEMMA GetVersionIs ==
    /\ Whole(GetVersion) /\ Avoids(GetVersion, Changes) /\ Avoids(GetVersion, {"insert"})
<1>1. GetVersion \in Plans /\ Len(GetVersion) = 2
  BY DEF GetVersion, Plans, Labels
<1>2. GetVersion[1] = "getVersion" /\ GetVersion[2] = "initVersion"
  BY DEF GetVersion
<1>3. QED
  BY <1>1, <1>2 DEF Whole, WellFormed, Avoids, Changes

LEMMA BumpVersionIs ==
    /\ Whole(BumpVersion) /\ EvictedAfter(BumpVersion)
    /\ Avoids(BumpVersion, Changes) /\ Avoids(BumpVersion, {"insert"})
<1> DEFINE s == <<"setVersion">>
<1>1. Whole(s) /\ Avoids(s, Changes) /\ Avoids(s, {"insert"})
  BY OneIsWhole DEF Labels, Changes
<1> HIDE DEF s
<1>2. s \in Plans /\ GetVersion \in Plans
  BY <1>1, GetVersionIs DEF Whole
<1>3. Whole(GetVersion \o s)
  BY <1>1, GetVersionIs, ConcatWhole
<1>4. Avoids(GetVersion \o s, Changes) /\ Avoids(GetVersion \o s, {"insert"})
  BY <1>1, <1>2, GetVersionIs, ConcatAvoids
<1>5. EvictedAfter(GetVersion \o s)
  BY <1>4 DEF Avoids, EvictedAfter, After
<1>6. QED
  BY <1>3, <1>4, <1>5 DEF BumpVersion, s

\* The reads of a list.
LEMMA ListIs == Whole(List) /\ Avoids(List, Changes)
<1> DEFINE s == <<"getPage", "readTable", "setPage">>
<1>1. s \in Plans /\ Len(s) = 3 /\ s[1] = "getPage" /\ s[2] = "readTable" /\ s[3] = "setPage"
  BY DEF Plans, Labels
<1> HIDE DEF s
<1>2. Whole(s) /\ Avoids(s, Changes)
  BY <1>1 DEF Whole, WellFormed, Avoids, Changes
<1>3. GetVersion \in Plans
  BY GetVersionIs DEF Whole
<1>4. Whole(GetVersion \o s) /\ Avoids(GetVersion \o s, Changes)
  BY <1>1, <1>2, <1>3, GetVersionIs, ConcatWhole, ConcatAvoids
<1>5. QED
  BY <1>4 DEF List, s

\* What every operation must be for the entry to show what it wrote.
Sound(op) ==
    /\ Whole(op)
    /\ "entry" \in Settles(op) => EvictedAfter(op) /\ Avoids(op, {"insert"})

\* An operation that changes no row settles no entry.
LEMMA UnchangedIsSound ==
    ASSUME NEW op, Whole(op), Avoids(op, Changes)
    PROVE  Sound(op)
<1>1. DOMAIN op = 1..Len(op)
  BY DEF Whole, Plans
<1>2. ~Has(op, {"write", "delete"})
  BY <1>1 DEF Has, Avoids, Changes
<1>3. "entry" \notin Settles(op)
  BY <1>2 DEF Settles
<1>4. QED  BY <1>3 DEF Sound

\* Two whole operations without an insert, in a row.
Quiet(p) == Whole(p) /\ Avoids(p, {"insert"})

LEMMA ConcatQuiet ==
    ASSUME NEW p, NEW q, Quiet(p), Quiet(q)
    PROVE  Quiet(p \o q)
<1>1. p \in Plans /\ q \in Plans
  BY DEF Quiet, Whole
<1>2. QED
  BY <1>1, ConcatWhole, ConcatAvoids DEF Quiet

\* The updates: find, then one or two more awaits, and then a bump.
LEMMA UpdateIsSound ==
    ASSUME NEW s, Quiet(s), EvictedAfter(s)
    PROVE  Sound(FindOne \o s \o BumpVersion)
<1>1. Quiet(FindOne) /\ Quiet(BumpVersion)
  BY FindOneIs, BumpVersionIs DEF Quiet
<1>2. Quiet(FindOne \o s)
  BY <1>1, ConcatQuiet
<1>3. Quiet((FindOne \o s) \o BumpVersion)
  BY <1>1, <1>2, ConcatQuiet
<1>4. FindOne \in Plans /\ s \in Plans /\ BumpVersion \in Plans /\ FindOne \o s \in Plans
  BY <1>1, <1>2 DEF Quiet, Whole
<1>5. EvictedAfter(FindOne \o s)
  BY <1>4, FindOneIs, ConcatAfter DEF EvictedAfter
<1>6. EvictedAfter((FindOne \o s) \o BumpVersion)
  BY <1>4, <1>5, BumpVersionIs, ConcatAfter DEF EvictedAfter
<1>7. QED
  BY <1>3, <1>6 DEF Sound, Quiet

\* CustomerService's: find, change, bump, and then the eviction.
LEMMA ChangeThenEvictIsSound ==
    ASSUME NEW label \in Changes
    PROVE  Sound(FindOne \o <<label>> \o BumpVersion \o <<"evict">>)
<1> DEFINE s == <<label>>
<1> DEFINE e == <<"evict">>
<1>1. Quiet(s) /\ Quiet(e)
  BY OneIsWhole DEF Quiet, Changes, Labels, Writing
<1>2. Quiet(FindOne) /\ Quiet(BumpVersion)
  BY FindOneIs, BumpVersionIs DEF Quiet
<1> HIDE DEF s
<1> DEFINE c == FindOne \o s \o BumpVersion
<1>3. Quiet(c)
  BY <1>1, <1>2, ConcatQuiet
<1> HIDE DEF c
<1>4. EvictedAfter(c \o e)
  <2>1. c \in Plans /\ e \in Plans /\ 1 \in 1..Len(e) /\ e[1] = "evict"
    BY <1>1, <1>3 DEF Quiet, Whole, Plans
  <2>2. After(e, Changes, "evict")
    BY DEF After, Changes
  <2> HIDE DEF e
  <2>3. QED  BY <2>1, <2>2, ConcatAfter DEF EvictedAfter
<1>5. Quiet(c \o e)
  BY <1>1, <1>3, ConcatQuiet
<1>6. Sound(c \o e)
  BY <1>4, <1>5 DEF Sound, Quiet
<1>7. QED
  BY <1>6 DEF c, s

\* "write" and the eviction, and what a check goes before.
LEMMA WriteEvictIs ==
    /\ Quiet(<<"write", "evict">>) /\ EvictedAfter(<<"write", "evict">>)
    /\ Quiet(<<"check", "write", "evict">>) /\ EvictedAfter(<<"check", "write", "evict">>)
<1> DEFINE s == <<"write", "evict">>
<1> DEFINE t == <<"check", "write", "evict">>
<1>1. s \in Plans /\ Len(s) = 2 /\ s[1] = "write" /\ s[2] = "evict"
  BY DEF Plans, Labels, Writing
<1>2. /\ t \in Plans /\ Len(t) = 3
      /\ t[1] = "check" /\ t[2] = "write" /\ t[3] = "evict"
  BY DEF Plans, Labels, Writing
<1> HIDE DEF s, t
<1>3. Quiet(s) /\ EvictedAfter(s)
  BY <1>1 DEF Quiet, Whole, WellFormed, Avoids, EvictedAfter, After, Changes
<1>4. Quiet(t) /\ EvictedAfter(t)
  BY <1>2 DEF Quiet, Whole, WellFormed, Avoids, EvictedAfter, After, Changes
<1>5. QED  BY <1>3, <1>4 DEF s, t

\* An insert after a check, and a bump: no row of an entry changes.
LEMMA CreatesAreSound ==
    /\ Sound(<<"insert">>) /\ Sound(<<"evict">>)
    /\ Sound(<<"check", "insert">> \o BumpVersion)
<1> DEFINE s == <<"check", "insert">>
<1>1. s \in Plans /\ Len(s) = 2 /\ s[1] = "check" /\ s[2] = "insert"
  BY DEF Plans, Labels, Writing
<1> HIDE DEF s
<1>2. Whole(s) /\ Avoids(s, Changes)
  BY <1>1 DEF Whole, WellFormed, Avoids, Changes
<1>3. BumpVersion \in Plans
  BY BumpVersionIs DEF Whole
<1>4. Whole(s \o BumpVersion) /\ Avoids(s \o BumpVersion, Changes)
  BY <1>1, <1>2, <1>3, BumpVersionIs, ConcatWhole, ConcatAvoids
<1>5. /\ Whole(<<"insert">>) /\ Avoids(<<"insert">>, Changes)
      /\ Whole(<<"evict">>) /\ Avoids(<<"evict">>, Changes)
  BY OneIsWhole DEF Labels, Writing, Changes
<1>6. QED
  BY <1>4, <1>5, UnchangedIsSound DEF s

\* UserService.remove evicts before it deletes, and settles nothing.
LEMMA UsersRemoveIsSound == Sound(UsersRemove)
<1> DEFINE e == <<"evict">>
<1> DEFINE d == <<"delete">>
<1>1. Whole(e) /\ Whole(d) /\ Whole(FindOne) /\ Whole(BumpVersion)
  BY OneIsWhole, FindOneIs, BumpVersionIs DEF Labels, Writing
<1> HIDE DEF e, d
<1>2. Whole(FindOne \o e \o BumpVersion \o d)
  BY <1>1, ConcatWhole
<1>3. Settles(UsersRemove) = {}
  BY DEF Settles, Lagging
<1>4. QED
  BY <1>2, <1>3 DEF UsersRemove, Sound, e, d

\* Every operation is sound.
LEMMA OperationsAreSound ==
    ASSUME NEW s \in {"customers", "users", "tenants", "profiles"}, NEW op \in Operations[s]
    PROVE  Sound(op)
<1>1. op \in {List, FindOne, CustomersCreate, CustomersUpdate, CustomersRemove, UsersCreate,
              UsersUpdate, UsersRemove, TenantsCreate, TenantsUpdateEmail, TenantsUpdate,
              TenantsRemove, ProfilesFindOne, ProfilesEvict}
  BY DEF Operations
<1>2. Sound(List) /\ Sound(FindOne) /\ Sound(ProfilesFindOne)
  BY ListIs, FindOneIs, UnchangedIsSound DEF ProfilesFindOne
<1>3. Sound(CustomersCreate) /\ Sound(UsersCreate) /\ Sound(TenantsCreate) /\ Sound(ProfilesEvict)
  BY CreatesAreSound DEF CustomersCreate, UsersCreate, TenantsCreate, ProfilesEvict
<1>4. Sound(CustomersUpdate) /\ Sound(CustomersRemove)
  BY ChangeThenEvictIsSound DEF CustomersUpdate, CustomersRemove, Changes
<1>5. Sound(UsersUpdate) /\ Sound(TenantsUpdate) /\ Sound(TenantsRemove)
  BY WriteEvictIs, UpdateIsSound DEF UsersUpdate, TenantsUpdate, TenantsRemove
<1>6. Sound(TenantsUpdateEmail)
  BY WriteEvictIs, UpdateIsSound DEF TenantsUpdateEmail
<1>7. QED
  BY <1>1, <1>2, <1>3, <1>4, <1>5, <1>6, UsersRemoveIsSound

-----------------------------------------------------------------------------
(* What remains of an operation.                                           *)

\* The n-th await is the next one: only a version or an entry that is found is
\* skipped over.
Next2(p, n) ==
    /\ n \in {2, 3, 4}
    /\ n = 3 => p[1] = "getVersion"
    /\ n = 4 => p[1] = "getEntry"

LEMMA Suffix ==
    ASSUME NEW p \in Plans, NEW n \in 1..Len(p)
    PROVE  LET s == SubSeq(p, n, Len(p))
           IN  /\ s \in Plans /\ s # <<>> /\ Head(s) = p[n]
               /\ Len(s) = Len(p) - n + 1 /\ Len(p) \in Nat
               /\ \A i \in 1..Len(s) : i + n - 1 \in n..Len(p) /\ s[i] = p[i + n - 1]
<1> DEFINE s == SubSeq(p, n, Len(p))
<1>1. Len(p) \in Nat /\ \A i \in 1..Len(p) : p[i] \in Labels
  BY DEF Plans
<1>2. \A i \in n..Len(p) : p[i] \in Labels
  BY <1>1
<1>3. s \in Seq(Labels) /\ Len(s) = Len(p) - n + 1
  BY <1>1, <1>2, SubSeqProperties DEF Plans
<1>4. \A i \in 1..Len(p) - n + 1 : s[i] = p[n + i - 1]
  BY <1>1, SubSeqProperties DEF Plans
<1>5. Len(s) > 0 /\ s[1] = p[n]
  BY <1>1, <1>3, <1>4
<1> HIDE DEF s
<1>6. s # <<>> /\ Head(s) = p[n]
  BY <1>3, <1>5
<1>7. \A i \in 1..Len(s) : i + n - 1 \in n..Len(p) /\ s[i] = p[i + n - 1]
  <2> TAKE i \in 1..Len(s)
  <2>1. i \in 1..Len(p) - n + 1 /\ n + i - 1 = i + n - 1 /\ i + n - 1 \in n..Len(p)
    BY <1>1, <1>3
  <2>2. QED  BY <1>4, <2>1
<1>8. QED
  BY <1>1, <1>3, <1>6, <1>7 DEF s, Plans

LEMMA SuffixWellFormed ==
    ASSUME NEW p \in Plans, NEW n \in 1..Len(p), WellFormed(p)
    PROVE  WellFormed(SubSeq(p, n, Len(p)))
<1> DEFINE s == SubSeq(p, n, Len(p))
<1>1. /\ Len(s) = Len(p) - n + 1 /\ Len(p) \in Nat
      /\ \A i \in 1..Len(s) : i + n - 1 \in n..Len(p) /\ s[i] = p[i + n - 1]
  BY Suffix
<1> HIDE DEF s
<1>2. ASSUME NEW i \in 2..Len(s), s[i] = "setEntry"
      PROVE  s[i-1] = "readRow"
  <2>1. i + n - 1 \in 2..Len(p) /\ p[i + n - 1] = "setEntry" /\ i - 1 \in 1..Len(s)
    BY <1>1, <1>2
  <2>2. p[i + n - 1 - 1] = "readRow"
    BY <2>1 DEF WellFormed
  <2>3. i + n - 1 - 1 = (i - 1) + n - 1
    BY <1>1
  <2>4. QED  BY <1>1, <2>1, <2>2, <2>3
<1>3. ASSUME NEW i \in 1..Len(s), s[i] = "getEntry"
      PROVE  i + 2 <= Len(s) /\ s[i+1] = "readRow" /\ s[i+2] = "setEntry"
  <2>1. i + n - 1 \in 1..Len(p) /\ p[i + n - 1] = "getEntry"
    BY <1>1, <1>3
  <2>2. /\ i + n - 1 + 2 <= Len(p)
        /\ p[i + n - 1 + 1] = "readRow" /\ p[i + n - 1 + 2] = "setEntry"
    BY <2>1 DEF WellFormed
  <2>3. /\ i + n - 1 + 1 = (i + 1) + n - 1 /\ i + n - 1 + 2 = (i + 2) + n - 1
        /\ i + 1 \in 1..Len(s) /\ i + 2 \in 1..Len(s)
    BY <1>1, <2>2
  <2>4. QED  BY <1>1, <2>2, <2>3
<1>4. ASSUME NEW i \in 1..Len(s), s[i] = "getVersion"
      PROVE  i + 1 <= Len(s) /\ s[i+1] = "initVersion"
  <2>1. i + n - 1 \in 1..Len(p) /\ p[i + n - 1] = "getVersion"
    BY <1>1, <1>4
  <2>2. i + n - 1 + 1 <= Len(p) /\ p[i + n - 1 + 1] = "initVersion"
    BY <2>1 DEF WellFormed
  <2>3. i + n - 1 + 1 = (i + 1) + n - 1 /\ i + 1 \in 1..Len(s)
    BY <1>1, <2>2
  <2>4. QED  BY <1>1, <2>2, <2>3
<1>5. WellFormed(s)
  BY <1>2, <1>3, <1>4 DEF WellFormed
<1>6. QED  BY <1>5 DEF s

\* No suffix holds an insert its sequence does not, and an eviction that is to
\* come is still to come.
LEMMA SuffixKeeps ==
    ASSUME NEW p \in Plans, NEW n \in 1..Len(p)
    PROVE  LET s == SubSeq(p, n, Len(p))
           IN  /\ \A labels : Avoids(p, labels) => Avoids(s, labels)
               /\ \A labels, end : After(p, labels, end) => After(s, labels, end)
<1> DEFINE s == SubSeq(p, n, Len(p))
<1>1. /\ Len(s) = Len(p) - n + 1 /\ Len(p) \in Nat
      /\ \A i \in 1..Len(s) : i + n - 1 \in n..Len(p) /\ s[i] = p[i + n - 1]
  BY Suffix
<1> HIDE DEF s
<1>2. \A labels : Avoids(p, labels) => Avoids(s, labels)
  BY <1>1 DEF Avoids
<1>3. ASSUME NEW labels, NEW end, After(p, labels, end), NEW i \in 1..Len(s), s[i] \in labels
      PROVE  \E k \in i+1..Len(s) : s[k] = end
  <2>1. i + n - 1 \in 1..Len(p) /\ p[i + n - 1] \in labels
    BY <1>1, <1>3
  <2>2. PICK k \in i + n - 1 + 1..Len(p) : p[k] = end
    BY <1>3, <2>1 DEF After
  <2>3. /\ k - n + 1 \in i+1..Len(s) /\ k - n + 1 \in 1..Len(s)
        /\ (k - n + 1) + n - 1 = k
    BY <1>1, <2>2
  <2>4. QED  BY <1>1, <2>2, <2>3
<1>4. \A labels, end : After(p, labels, end) => After(s, labels, end)
  BY <1>3 DEF After
<1>5. QED
  BY <1>2, <1>4 DEF s

\* What is skipped over sets the version to 1, or makes an entry.
LEMMA SuffixSkips ==
    ASSUME NEW p \in Plans, NEW n, Next2(p, n), WellFormed(p), Len(p) > 0,
           NEW labels, labels \cap {"initVersion", "readRow", "setEntry"} = {},
           p[1] \notin labels, n <= Len(p) => Avoids(SubSeq(p, n, Len(p)), labels)
    PROVE  Avoids(p, labels)
<1>1. Len(p) \in Nat /\ n \in {2, 3, 4}
  BY DEF Plans, Next2
<1>2. ASSUME NEW i \in 1..Len(p), i < n
      PROVE  p[i] \notin labels
  <2>1. i = 1 \/ (n = 3 /\ i = 2) \/ (n = 4 /\ i \in {2, 3})
    BY <1>1, <1>2
  <2>2. n = 3 => p[1+1] = "initVersion"
    BY <1>1 DEF Next2, WellFormed
  <2>3. n = 4 => p[1+1] = "readRow" /\ p[1+2] = "setEntry"
    BY <1>1 DEF Next2, WellFormed
  <2>4. QED  BY <2>1, <2>2, <2>3
<1>3. ASSUME NEW i \in 1..Len(p), i >= n
      PROVE  p[i] \notin labels
  <2> DEFINE s == SubSeq(p, n, Len(p))
  <2>1. n \in 1..Len(p)
    BY <1>1, <1>3
  <2>2. /\ Len(s) = Len(p) - n + 1
        /\ \A j \in 1..Len(s) : s[j] = p[j + n - 1]
    BY <2>1, Suffix
  <2>3. Avoids(s, labels)
    BY <2>1
  <2> HIDE DEF s
  <2>4. i - n + 1 \in 1..Len(s) /\ (i - n + 1) + n - 1 = i
    BY <1>1, <1>3, <2>1, <2>2
  <2>5. QED  BY <2>2, <2>3, <2>4 DEF Avoids
<1>4. QED
  BY <1>1, <1>2, <1>3 DEF Avoids

\* The next await stores an entry only when this one has read the row.
LEMMA StoresWhatItRead ==
    ASSUME NEW p \in Plans, NEW n, Next2(p, n), n <= Len(p), WellFormed(p), p[n] = "setEntry"
    PROVE  n = 2 /\ p[1] = "readRow"
<1>1. Len(p) \in Nat /\ n \in {2, 3, 4}
  BY DEF Plans, Next2
<1>2. n \in 2..Len(p)
  BY <1>1
<1>3. p[n-1] = "readRow"
  BY <1>2 DEF WellFormed
<1>4. n # 3
  <2>1. n = 3 => p[1] = "getVersion" /\ 1 \in 1..Len(p) /\ n - 1 = 1 + 1
    BY <1>1 DEF Next2
  <2>2. QED  BY <1>3, <2>1 DEF WellFormed
<1>5. n # 4
  <2>1. n = 4 => p[1] = "getEntry" /\ 1 \in 1..Len(p) /\ n - 1 = 1 + 2
    BY <1>1 DEF Next2
  <2>2. QED  BY <1>3, <2>1 DEF WellFormed
<1>6. QED
  BY <1>1, <1>3, <1>4, <1>5

-----------------------------------------------------------------------------
(* The invariant.                                                          *)

Locals == [version : Nat, due : Nat, seen : Nat, wrote : Nat, settles : SUBSET {"lists", "entry"}]

\* The part of TypeOK the argument needs; the bounds of the counters it does not.
Typed ==
    /\ service \in Services
    /\ table \in Nat /\ row \in Nat /\ row <= table
    /\ version \in Nat /\ entry \in Nat \cup {None}
    /\ listSettled \in Nat /\ rowSettled \in Nat /\ rowSettled <= row
    /\ late \in BOOLEAN
    /\ todo \in [Handlers -> Plans] /\ req \in [Handlers -> Locals]

\* The w-th write is shown by the entry, and by what is about to be stored.
Shown(w) ==
    \/ late
    \/ /\ entry = None \/ entry >= w
       /\ \A g \in Handlers : At(g, "setEntry") => req[g].seen >= w

\* A request that is to settle the entry has its eviction before it, or what it
\* wrote is shown.
Fits(p, r) ==
    /\ WellFormed(p)
    /\ "entry" \in r.settles =>
         /\ r.wrote <= row
         /\ EvictedAfter(p) /\ Avoids(p, {"insert"})
         /\ Avoids(p, {"evict"}) => Shown(r.wrote)

EntryInv ==
    /\ Typed
    /\ Shown(rowSettled)
    /\ \A h \in Handlers : todo[h] # <<>> => Fits(todo[h], req[h])

\* A step of h, which has plan before it and r as its locals: to do this, and
\* then what follows.
Doing(h, plan, r) ==
    /\ plan \in Plans /\ Len(plan) > 0 /\ r \in Locals /\ Fits(plan, r)
    /\ plan[1] = "setEntry" => todo[h] = plan /\ req[h] = r

\* The entry is about to be stored by who has read the row before a change.
Overtaken == \E g \in Handlers : At(g, "setEntry") /\ req[g].seen < row

\* What a step does to the table and to the entry.
Effect(plan, r, q) ==
    /\ row' \in Nat /\ row <= row' /\ table' \in Nat /\ row' <= table' /\ version' \in Nat
    /\ service' = service
    /\ \/ plan[1] = "evict" /\ entry' = None /\ late' = Overtaken
       \/ plan[1] = "setEntry" /\ entry' = r.seen /\ late' = late
       \/ plan[1] \notin {"evict", "setEntry"} /\ entry' = entry /\ late' = late
    /\ plan[1] = "readRow" => q.seen = row

Progress(h, plan, n, q) == Skip(h, plan, n, q) \/ Answer(h)

\* Of what it does to the locals, only a change numbers a write that settles
\* the entry.
Updates(plan, r, q) ==
    /\ q \in Locals /\ q.settles = r.settles
    /\ "entry" \in r.settles => q.wrote = r.wrote \/ (plan[1] \in Changes /\ q.wrote <= row')

Moves(h, plan, r, n, q) ==
    Next2(plan, n) /\ Progress(h, plan, n, q) /\ Effect(plan, r, q) /\ Updates(plan, r, q)

-----------------------------------------------------------------------------
(* Every step moves.                                                       *)

LEMMA HeadIsFirst ==
    ASSUME NEW plan \in Plans, Len(plan) > 0
    PROVE  Head(plan) = plan[1]
BY DEF Plans

\* The steps of the lists.
LEMMA ListStepMoves ==
    ASSUME EntryInv, NEW h \in Handlers, NEW plan, NEW r, Doing(h, plan, r), service' = service,
           \/ GetVersionKey(h, plan, r) \/ InitVersion(h, plan, r) \/ SetVersion(h, plan, r)
           \/ GetPage(h, plan, r) \/ ReadTable(h, plan, r) \/ SetPage(h, plan, r)
    PROVE  \E n, q : Moves(h, plan, r, n, q)
<1>1. /\ Typed /\ r \in Locals /\ Head(plan) = plan[1]
  BY HeadIsFirst DEF EntryInv, Doing
<1>2. CASE GetVersionKey(h, plan, r)
  <2> DEFINE due == IF Has(plan, {"getPage"}) THEN listSettled ELSE 0
  <2> DEFINE q == [r EXCEPT !.version = version, !.due = due]
  <2>1. due \in Nat
    BY <1>1 DEF Typed
  <2> HIDE DEF due
  <2>2. q \in Locals /\ q.settles = r.settles /\ q.wrote = r.wrote
    BY <1>1, <2>1 DEF Typed, Locals
  <2>3. Skip(h, plan, 2, q) \/ Skip(h, plan, 3, q)
    BY <1>2 DEF GetVersionKey, Continue, due
  <2>4. plan[1] = "getVersion"
    BY <1>1, <1>2 DEF GetVersionKey
  <2>5. Effect(plan, r, q)
    BY <1>1, <1>2, <2>4 DEF GetVersionKey, Effect, Typed, dbVars, cacheVars
  <2> HIDE DEF q
  <2>6. Moves(h, plan, r, 2, q) \/ Moves(h, plan, r, 3, q)
    BY <2>2, <2>3, <2>4, <2>5 DEF Moves, Next2, Progress, Updates
  <2>7. QED  BY <2>6
<1>3. CASE InitVersion(h, plan, r)
  <2> DEFINE q == [r EXCEPT !.version = 1]
  <2>1. q \in Locals /\ q.settles = r.settles /\ q.wrote = r.wrote
    BY <1>1 DEF Locals
  <2>2. Effect(plan, r, q) /\ Skip(h, plan, 2, q)
    <3>1. plan[1] = "initVersion"
      BY <1>1, <1>3 DEF InitVersion
    <3>2. Effect(plan, r, q)
      BY <1>1, <1>3, <3>1 DEF InitVersion, SetVersionTo, Effect, Typed, dbVars
    <3>3. QED  BY <1>3, <3>2 DEF InitVersion, Continue
  <2> HIDE DEF q
  <2>3. Moves(h, plan, r, 2, q)
    BY <2>1, <2>2 DEF Moves, Next2, Progress, Updates
  <2>4. QED  BY <2>3
<1>4. CASE SetVersion(h, plan, r)
  <2> DEFINE q == [r EXCEPT !.version = 0]
  <2>1. q \in Locals /\ q.settles = r.settles /\ q.wrote = r.wrote /\ r.version + 1 \in Nat
    BY <1>1 DEF Locals
  <2>2. Effect(plan, r, q) /\ Skip(h, plan, 2, q)
    <3>1. plan[1] = "setVersion"
      BY <1>1, <1>4 DEF SetVersion
    <3>2. Effect(plan, r, q)
      BY <1>1, <1>4, <2>1, <3>1 DEF SetVersion, SetVersionTo, Effect, Typed, dbVars
    <3>3. QED  BY <1>4, <3>2 DEF SetVersion, Continue
  <2> HIDE DEF q
  <2>3. Moves(h, plan, r, 2, q)
    BY <2>1, <2>2 DEF Moves, Next2, Progress, Updates
  <2>4. QED  BY <2>3
<1>5. CASE GetPage(h, plan, r)
  <2> DEFINE q == [r EXCEPT !.due = 0]
  <2>1. q \in Locals /\ q.settles = r.settles /\ q.wrote = r.wrote
    BY <1>1 DEF Locals
  <2>2. Effect(plan, r, q) /\ Progress(h, plan, 2, q)
    <3>1. plan[1] = "getPage"
      BY <1>1, <1>5 DEF GetPage
    <3>2. Effect(plan, r, q)
      BY <1>1, <1>5, <3>1 DEF GetPage, Effect, Typed, dbVars, cacheVars
    <3>3. QED  BY <1>5, <3>2 DEF GetPage, Continue, Progress
  <2> HIDE DEF q
  <2>3. Moves(h, plan, r, 2, q)
    BY <2>1, <2>2 DEF Moves, Next2, Updates
  <2>4. QED  BY <2>3
<1>6. CASE ReadTable(h, plan, r)
  <2> DEFINE q == [r EXCEPT !.seen = table]
  <2>1. q \in Locals /\ q.settles = r.settles /\ q.wrote = r.wrote
    BY <1>1 DEF Locals, Typed
  <2>2. Effect(plan, r, q) /\ Skip(h, plan, 2, q)
    <3>1. plan[1] = "readTable"
      BY <1>1, <1>6 DEF ReadTable
    <3>2. Effect(plan, r, q)
      BY <1>1, <1>6, <3>1 DEF ReadTable, Effect, Typed, dbVars, cacheVars
    <3>3. QED  BY <1>6, <3>2 DEF ReadTable, Continue
  <2> HIDE DEF q
  <2>3. Moves(h, plan, r, 2, q)
    BY <2>1, <2>2 DEF Moves, Next2, Progress, Updates
  <2>4. QED  BY <2>3
<1>7. CASE SetPage(h, plan, r)
  <2>1. Effect(plan, r, r) /\ Skip(h, plan, 2, r)
    <3>1. plan[1] = "setPage"
      BY <1>1, <1>7 DEF SetPage
    <3>2. Effect(plan, r, r)
      BY <1>1, <1>7, <3>1 DEF SetPage, Effect, Typed, dbVars
    <3>3. QED  BY <1>7, <3>2 DEF SetPage, Continue
  <2>2. Moves(h, plan, r, 2, r)
    BY <1>1, <2>1 DEF Moves, Next2, Progress, Updates
  <2>3. QED  BY <2>2
<1>8. QED
  BY <1>2, <1>3, <1>4, <1>5, <1>6, <1>7

\* The steps of the entry, and of the rows.
LEMMA EntryStepMoves ==
    ASSUME EntryInv, NEW h \in Handlers, NEW plan, NEW r, Doing(h, plan, r), service' = service,
           \/ GetEntry(h, plan, r) \/ ReadRow(h, plan, r) \/ SetEntry(h, plan, r)
           \/ Check(h, plan, r) \/ Evict(h, plan, r)
    PROVE  \E n, q : Moves(h, plan, r, n, q)
<1>1. /\ Typed /\ r \in Locals /\ Head(plan) = plan[1]
  BY HeadIsFirst DEF EntryInv, Doing
<1>2. CASE GetEntry(h, plan, r)
  <2>1. plan[1] = "getEntry" /\ Effect(plan, r, r)
    <3>1. plan[1] = "getEntry"
      BY <1>1, <1>2 DEF GetEntry
    <3>2. QED  BY <1>1, <1>2, <3>1 DEF GetEntry, Effect, Typed, dbVars, cacheVars
  <2>2. Skip(h, plan, 2, r) \/ Skip(h, plan, 4, r)
    BY <1>2 DEF GetEntry, Continue
  <2>3. Moves(h, plan, r, 2, r) \/ Moves(h, plan, r, 4, r)
    BY <1>1, <2>1, <2>2 DEF Moves, Next2, Progress, Updates
  <2>4. QED  BY <2>3
<1>3. CASE ReadRow(h, plan, r)
  <2> DEFINE q == [r EXCEPT !.seen = row]
  <2>1. q \in Locals /\ q.settles = r.settles /\ q.wrote = r.wrote /\ q.seen = row
    BY <1>1 DEF Locals, Typed
  <2> HIDE DEF q
  <2>2. Effect(plan, r, q)
    <3>1. plan[1] = "readRow"
      BY <1>1, <1>3 DEF ReadRow
    <3>2. QED
      BY <1>1, <1>3, <2>1, <3>1 DEF ReadRow, Effect, Typed, dbVars, cacheVars
  <2>3. Progress(h, plan, 2, q)
    BY <1>3 DEF ReadRow, Continue, Progress, q
  <2>4. Moves(h, plan, r, 2, q)
    BY <2>1, <2>2, <2>3 DEF Moves, Next2, Updates
  <2>5. QED  BY <2>4
<1>4. CASE SetEntry(h, plan, r)
  <2> DEFINE q == [r EXCEPT !.seen = 0]
  <2>1. q \in Locals /\ q.settles = r.settles /\ q.wrote = r.wrote
    BY <1>1 DEF Locals
  <2>2. Effect(plan, r, q) /\ Skip(h, plan, 2, q)
    <3>1. plan[1] = "setEntry"
      BY <1>1, <1>4 DEF SetEntry
    <3>2. Effect(plan, r, q)
      BY <1>1, <1>4, <3>1 DEF SetEntry, Effect, Typed, dbVars
    <3>3. QED  BY <1>4, <3>2 DEF SetEntry, Continue
  <2> HIDE DEF q
  <2>3. Moves(h, plan, r, 2, q)
    BY <2>1, <2>2 DEF Moves, Next2, Progress, Updates
  <2>4. QED  BY <2>3
<1>5. CASE Check(h, plan, r)
  <2>1. Effect(plan, r, r) /\ Progress(h, plan, 2, r)
    <3>1. plan[1] = "check"
      BY <1>1, <1>5 DEF Check
    <3>2. Effect(plan, r, r)
      BY <1>1, <1>5, <3>1 DEF Check, Effect, Typed, dbVars, cacheVars
    <3>3. QED  BY <1>5, <3>2 DEF Check, Continue, Progress
  <2>2. Moves(h, plan, r, 2, r)
    BY <1>1, <2>1 DEF Moves, Next2, Updates
  <2>3. QED  BY <2>2
<1>6. CASE Evict(h, plan, r)
  <2>1. Effect(plan, r, r) /\ Skip(h, plan, 2, r)
    <3>1. plan[1] = "evict"
      BY <1>1, <1>6 DEF Evict
    <3>2. Effect(plan, r, r)
      <4>1. late' = Overtaken
        BY <1>6 DEF Evict, Overtaken
      <4>2. entry' = None /\ row' = row /\ table' = table /\ version' = version
        BY <1>6 DEF Evict, dbVars
      <4>3. QED  BY <1>1, <3>1, <4>1, <4>2 DEF Effect, Typed
    <3>3. QED  BY <1>6, <3>2 DEF Evict, Continue
  <2>2. Moves(h, plan, r, 2, r)
    BY <1>1, <2>1 DEF Moves, Next2, Progress, Updates
  <2>3. QED  BY <2>2
<1>7. QED
  BY <1>2, <1>3, <1>4, <1>5, <1>6

\* The writers number what they write, if it is to settle anything.
LEMMA WriteStepMoves ==
    ASSUME EntryInv, NEW h \in Handlers, NEW plan, NEW r, Doing(h, plan, r), service' = service,
           Insert(h, plan, r) \/ Change(h, plan, r)
    PROVE  \E n, q : Moves(h, plan, r, n, q)
<1>1. /\ Typed /\ r \in Locals /\ Head(plan) = plan[1] /\ 1 \in 1..Len(plan)
      /\ "entry" \in r.settles => Avoids(plan, {"insert"})
  <2>1. plan \in Plans /\ Len(plan) > 0 /\ Len(plan) \in Nat
    BY DEF Doing, Plans
  <2>2. QED  BY <2>1, HeadIsFirst DEF EntryInv, Doing, Fits
<1> DEFINE q == Written(r)
<1>2. q \in Locals /\ q.settles = r.settles /\ q.wrote \in {0, table + 1}
  <2> DEFINE w == IF r.settles = {} THEN 0 ELSE table + 1
  <2>1. w \in Nat /\ w \in {0, table + 1} /\ q = [r EXCEPT !.wrote = w]
    BY <1>1 DEF Written, Typed
  <2> HIDE DEF w
  <2>2. QED  BY <1>1, <2>1 DEF Locals
<1> HIDE DEF q
<1>3. CASE Insert(h, plan, r)
  <2>1. plan[1] = "insert" /\ "entry" \notin r.settles
    BY <1>1, <1>3 DEF Insert, Avoids
  <2>2. Effect(plan, r, q)
    BY <1>1, <1>3, <2>1 DEF Insert, Effect, Typed, cacheVars
  <2>3. Progress(h, plan, 2, q)
    BY <1>3 DEF Insert, Continue, Progress, q
  <2>4. Moves(h, plan, r, 2, q)
    BY <1>2, <2>1, <2>2, <2>3 DEF Moves, Next2, Updates
  <2>5. QED  BY <2>4
<1>4. CASE Change(h, plan, r)
  <2>1. plan[1] \in Changes
    BY <1>1, <1>4 DEF Change, Changes
  <2>2. CASE Answer(h) /\ UNCHANGED dbVars
    <3>1. Effect(plan, r, r)
      BY <1>1, <1>4, <2>1, <2>2 DEF Change, Changes, Effect, Typed, dbVars, cacheVars
    <3>2. Moves(h, plan, r, 2, r)
      BY <1>1, <2>2, <3>1 DEF Moves, Next2, Progress, Updates
    <3>3. QED  BY <3>2
  <2>3. CASE table' = table + 1 /\ row' = table + 1 /\ Skip(h, plan, 2, q)
    <3>1. Effect(plan, r, q)
      BY <1>1, <1>4, <2>1, <2>3 DEF Change, Changes, Effect, Typed, cacheVars
    <3>2. q.wrote <= row'
      BY <1>1, <1>2, <2>3 DEF Typed
    <3>3. Moves(h, plan, r, 2, q)
      BY <1>2, <2>1, <2>3, <3>1, <3>2 DEF Moves, Next2, Progress, Updates
    <3>4. QED  BY <3>3
  <2>4. QED
    BY <1>4, <2>2, <2>3 DEF Change, Continue, q
<1>5. QED
  BY <1>3, <1>4

LEMMA StepMoves ==
    ASSUME EntryInv, NEW h \in Handlers, NEW plan, NEW r, Doing(h, plan, r), service' = service,
           Step(h, plan, r)
    PROVE  \E n, q : Moves(h, plan, r, n, q)
BY ListStepMoves, EntryStepMoves, WriteStepMoves DEF Step

-----------------------------------------------------------------------------
(* Every move keeps the invariant.                                         *)

\* Of the handlers, a move changes one.
LEMMA MoveChanges ==
    ASSUME Typed, NEW h \in Handlers, NEW plan \in Plans, NEW n, NEW q \in Locals,
           Next2(plan, n), Progress(h, plan, n, q)
    PROVE  /\ todo' \in [Handlers -> Plans] /\ req' \in [Handlers -> Locals]
           /\ \A g \in Handlers \ {h} : todo'[g] = todo[g] /\ req'[g] = req[g]
           /\ \/ todo'[h] = <<>> /\ req'[h] = NoRequest
              \/ /\ n <= Len(plan) /\ n \in 1..Len(plan)
                 /\ todo'[h] = SubSeq(plan, n, Len(plan)) /\ req'[h] = q
<1>1. <<>> \in Plans /\ NoRequest \in Locals
  BY DEF Plans, NoRequest, Locals
<1>2. CASE Stop(h)
  BY <1>1, <1>2 DEF Stop, Typed
<1>3. CASE /\ ~(n > Len(plan))
           /\ todo' = [todo EXCEPT ![h] = SubSeq(plan, n, Len(plan))]
           /\ req' = [req EXCEPT ![h] = q]
  <2>1. n \in 1..Len(plan) /\ n <= Len(plan)
    BY <1>3 DEF Next2, Plans
  <2>2. SubSeq(plan, n, Len(plan)) \in Plans
    BY <2>1, Suffix
  <2>3. QED  BY <1>3, <2>1, <2>2 DEF Typed
<1>4. QED
  BY <1>2, <1>3 DEF Progress, Skip, Answer

\* What was shown still is, and an eviction makes everything shown.
LEMMA MoveShows ==
    ASSUME EntryInv, NEW h \in Handlers, NEW plan, NEW r, Doing(h, plan, r),
           NEW n, NEW q, Moves(h, plan, r, n, q), NEW w \in Nat, w <= row,
           plan[1] = "evict" \/ Shown(w)
    PROVE  Shown(w)'
<1>1. /\ Typed /\ plan \in Plans /\ Len(plan) > 0 /\ Len(plan) \in Nat /\ WellFormed(plan)
      /\ Next2(plan, n) /\ Progress(h, plan, n, q) /\ q \in Locals /\ Effect(plan, r, q)
  BY DEF EntryInv, Doing, Moves, Updates, Fits, Plans
<1>2. SUFFICES ASSUME late' = FALSE
               PROVE  /\ entry' = None \/ entry' >= w
                      /\ \A g \in Handlers : At(g, "setEntry")' => req'[g].seen >= w
  <2>1. late' \in BOOLEAN
    BY <1>1 DEF Effect, Typed, Overtaken
  <2>2. QED  BY <1>2, <2>1 DEF Shown
<1>3. \A g \in Handlers : At(g, "setEntry") => req[g].seen >= w
  <2>1. \A g \in Handlers : req[g].seen \in Nat
    BY <1>1 DEF Typed, Locals
  <2>2. CASE plan[1] = "evict"
    <3>1. ~Overtaken
      BY <1>1, <1>2, <2>2 DEF Effect
    <3>2. row \in Nat
      BY <1>1 DEF Typed
    <3>3. QED  BY <2>1, <3>1, <3>2 DEF Overtaken
  <2>3. CASE plan[1] # "evict"
    <3>1. late = FALSE
      BY <1>1, <1>2, <2>3 DEF Effect
    <3>2. QED  BY <2>3, <3>1 DEF Shown
  <2>4. QED  BY <2>2, <2>3
<1>4. entry' = None \/ entry' >= w
  <2>1. CASE plan[1] = "evict"
    BY <1>1, <2>1 DEF Effect
  <2>2. CASE plan[1] = "setEntry"
    <3>1. entry' = r.seen /\ todo[h] = plan /\ req[h] = r
      BY <1>1, <2>2 DEF Effect, Doing
    <3>2. At(h, "setEntry")
      BY <1>1, <2>2, <3>1, HeadIsFirst DEF At, Plans
    <3>3. QED  BY <1>3, <3>1, <3>2
  <2>3. CASE plan[1] \notin {"evict", "setEntry"}
    <3>1. entry' = entry /\ late = FALSE
      BY <1>1, <1>2, <2>3 DEF Effect
    <3>2. QED  BY <2>3, <3>1 DEF Shown
  <2>4. QED  BY <2>1, <2>2, <2>3
<1>5. ASSUME NEW g \in Handlers, At(g, "setEntry")'
      PROVE  req'[g].seen >= w
  <2>1. /\ g # h => todo'[g] = todo[g] /\ req'[g] = req[g]
        /\ \/ todo'[h] = <<>>
           \/ /\ n <= Len(plan) /\ n \in 1..Len(plan)
              /\ todo'[h] = SubSeq(plan, n, Len(plan)) /\ req'[h] = q
    BY <1>1, MoveChanges
  <2>2. CASE g # h
    <3>1. At(g, "setEntry")
      BY <1>5, <2>1, <2>2 DEF At
    <3>2. QED  BY <1>3, <2>1, <2>2, <3>1
  <2>3. CASE g = h
    <3>1. todo'[h] # <<>> /\ Head(todo'[h]) = "setEntry"
      BY <1>5, <2>3 DEF At
    <3>2. n \in 1..Len(plan) /\ n <= Len(plan) /\ plan[n] = "setEntry" /\ req'[h] = q
      BY <1>1, <2>1, <3>1, Suffix
    <3>3. plan[1] = "readRow"
      BY <1>1, <3>2, StoresWhatItRead
    <3>4. q.seen = row /\ row \in Nat
      BY <1>1, <3>3 DEF Effect, Typed
    <3>5. QED  BY <2>3, <3>2, <3>4
  <2>4. QED  BY <2>2, <2>3
<1>6. QED  BY <1>4, <1>5

\* Before its last eviction a request may go on or stop; after it, what it wrote is
\* shown.
LEMMA MoveSettles ==
    ASSUME EntryInv, NEW h \in Handlers, NEW plan, NEW r, Doing(h, plan, r),
           NEW n, NEW q, Moves(h, plan, r, n, q), "entry" \in r.settles,
           n <= Len(plan) => Avoids(SubSeq(plan, n, Len(plan)), {"evict"})
    PROVE  q.wrote \in Nat /\ q.wrote = r.wrote /\ r.wrote <= row /\ Shown(r.wrote)'
<1>1. /\ Typed /\ plan \in Plans /\ Len(plan) > 0 /\ Len(plan) \in Nat /\ WellFormed(plan)
      /\ Next2(plan, n) /\ r \in Locals /\ r.wrote \in Nat /\ r.wrote <= row
      /\ EvictedAfter(plan) /\ (Avoids(plan, {"evict"}) => Shown(r.wrote))
  BY DEF EntryInv, Doing, Moves, Fits, Plans, Locals
<1>2. plan[1] = "evict" \/ Avoids(plan, {"evict"})
  BY <1>1, SuffixSkips
<1>3. Shown(r.wrote)'
  <2> DEFINE w == r.wrote
  <2>1. w \in Nat /\ w <= row /\ (plan[1] = "evict" \/ Shown(w))
    BY <1>1, <1>2
  <2> HIDE DEF w
  <2>2. Shown(w)'
    BY <2>1, MoveShows
  <2>3. QED  BY <2>2 DEF w
<1>4. plan[1] \notin Changes
  <2>1. CASE plan[1] = "evict"
    BY <2>1 DEF Changes
  <2>2. CASE Avoids(plan, {"evict"})
    <3>1. 1 \in 1..Len(plan) /\ \A k \in 1+1..Len(plan) : k \in 1..Len(plan)
      BY <1>1
    <3>2. QED  BY <1>1, <2>2, <3>1 DEF EvictedAfter, After, Avoids
  <2>3. QED  BY <1>2, <2>1, <2>2
<1>5. QED
  BY <1>1, <1>3, <1>4 DEF Moves, Updates

LEMMA MoveInv ==
    ASSUME EntryInv, NEW h \in Handlers, NEW plan, NEW r, Doing(h, plan, r),
           NEW n, NEW q, Moves(h, plan, r, n, q)
    PROVE  EntryInv'
<1>1. /\ Typed /\ plan \in Plans /\ Len(plan) > 0 /\ Len(plan) \in Nat /\ WellFormed(plan)
      /\ Next2(plan, n) /\ Progress(h, plan, n, q) /\ Effect(plan, r, q)
      /\ r \in Locals /\ q \in Locals /\ q.settles = r.settles
  BY DEF EntryInv, Doing, Moves, Updates, Fits, Plans
<1>2. /\ todo' \in [Handlers -> Plans] /\ req' \in [Handlers -> Locals]
      /\ \A g \in Handlers \ {h} : todo'[g] = todo[g] /\ req'[g] = req[g]
      /\ \/ todo'[h] = <<>>
         \/ /\ n <= Len(plan) /\ n \in 1..Len(plan)
            /\ todo'[h] = SubSeq(plan, n, Len(plan)) /\ req'[h] = q
  BY <1>1, MoveChanges
<1>3. row \in Nat /\ row' \in Nat /\ row <= row'
  BY <1>1 DEF Effect, Typed
<1>4. rowSettled' \in Nat /\ rowSettled' <= row /\ Shown(rowSettled)' /\ listSettled' \in Nat
  <2>1. rowSettled \in Nat /\ listSettled \in Nat /\ rowSettled <= row /\ Shown(rowSettled)
    BY <1>1 DEF EntryInv, Typed
  <2>2. ASSUME NEW w \in Nat, w = rowSettled
        PROVE  Shown(w)'
    BY <2>1, <2>2, MoveShows
  <2>3. CASE rowSettled' = rowSettled /\ listSettled' \in Nat
    BY <2>1, <2>2, <2>3 DEF Shown
  <2>4. CASE n > Len(plan) /\ Answered(q)
    <3>1. listSettled' \in Nat
      BY <1>1, <2>1, <2>4 DEF Answered, Later, Locals
    <3>2. CASE "entry" \notin q.settles
      BY <2>1, <2>3, <2>4, <3>1, <3>2 DEF Answered
    <3>3. CASE "entry" \in q.settles
      <4>1. q.wrote \in Nat /\ q.wrote = r.wrote /\ r.wrote <= row /\ Shown(r.wrote)'
        BY <1>1, <2>4, <3>3, MoveSettles DEF Next2
      <4>2. rowSettled' \in {rowSettled, r.wrote}
        BY <2>4, <3>3, <4>1 DEF Answered, Later
      <4>3. QED  BY <2>1, <2>2, <3>1, <4>1, <4>2 DEF Shown
    <3>4. QED  BY <3>2, <3>3
  <2>5. QED
    BY <1>1, <2>1, <2>3, <2>4 DEF Progress, Skip, Answer
<1>5. Typed'
  <2>1. r.seen \in Nat
    BY <1>1 DEF Locals
  <2>2. entry' \in Nat \cup {None} /\ late' \in BOOLEAN
    BY <1>1, <2>1 DEF Typed, Effect, Overtaken
  <2>3. /\ service' \in Services /\ table' \in Nat /\ row' <= table' /\ version' \in Nat
        /\ rowSettled' <= row'
    BY <1>1, <1>3, <1>4 DEF Typed, Effect
  <2>4. QED  BY <1>2, <1>3, <1>4, <2>2, <2>3 DEF Typed
<1>6. ASSUME NEW g \in Handlers, todo'[g] # <<>>
      PROVE  Fits(todo[g], req[g])'
  <2>1. CASE g # h
    <3>1. todo'[g] = todo[g] /\ req'[g] = req[g] /\ Fits(todo[g], req[g])
          /\ req[g].wrote \in Nat
      BY <1>1, <1>2, <1>6, <2>1 DEF EntryInv, Typed, Locals
    <3>2. PICK w \in Nat : w = req[g].wrote
      BY <3>1
    <3>3. w <= row /\ Shown(w) => Shown(w)'
      BY MoveShows
    <3>4. Shown(req[g].wrote) => Shown(w)
      BY <3>2
    <3>5. Shown(w)' => Shown(req[g].wrote)'
      BY <3>1, <3>2 DEF Shown
    <3>6. QED
      BY <1>3, <3>1, <3>2, <3>3, <3>4, <3>5 DEF Fits
  <2>2. CASE g = h
    <3> DEFINE s == SubSeq(plan, n, Len(plan))
    <3>1. n <= Len(plan) /\ n \in 1..Len(plan) /\ todo'[h] = s /\ req'[h] = q
      BY <1>2, <1>6, <2>2
    <3>2. /\ WellFormed(s)
          /\ EvictedAfter(plan) => EvictedAfter(s)
          /\ Avoids(plan, {"insert"}) => Avoids(s, {"insert"})
      BY <1>1, <3>1, SuffixWellFormed, SuffixKeeps DEF EvictedAfter
    <3>3. ASSUME "entry" \in q.settles
          PROVE  /\ q.wrote <= row' /\ EvictedAfter(s) /\ Avoids(s, {"insert"})
                 /\ Avoids(s, {"evict"}) => Shown(q.wrote)'
      <4>1. /\ r.wrote \in Nat /\ q.wrote \in Nat /\ r.wrote <= row
            /\ EvictedAfter(plan) /\ Avoids(plan, {"insert"})
        BY <1>1, <3>3 DEF Doing, Fits, Locals
      <4>2. q.wrote <= row'
        BY <1>1, <1>3, <3>3, <4>1 DEF Moves, Updates
      <4>3. ASSUME Avoids(s, {"evict"})
            PROVE  q.wrote = r.wrote /\ Shown(r.wrote)'
        BY <1>1, <3>3, <4>3, MoveSettles
      <4>4. QED  BY <3>2, <4>1, <4>2, <4>3
    <3> HIDE DEF s
    <3>4. QED
      BY <2>2, <3>1, <3>2, <3>3 DEF Fits
  <2>3. QED  BY <2>1, <2>2
<1>7. QED
  BY <1>4, <1>5, <1>6 DEF EntryInv

-----------------------------------------------------------------------------
(* The theorem.                                                            *)

LEMMA InitEntryInv == Init => EntryInv
<1> SUFFICES ASSUME Init PROVE EntryInv
  OBVIOUS
<1>1. <<>> \in Plans /\ NoRequest \in Locals
  BY DEF Plans, NoRequest, Locals
<1>2. Typed
  <2>1. todo \in [Handlers -> Plans] /\ req \in [Handlers -> Locals]
    BY <1>1 DEF Init
  <2>2. late \in BOOLEAN /\ entry \in Nat \cup {None} /\ service \in Services
    BY DEF Init
  <2>3. /\ table \in Nat /\ row \in Nat /\ row <= table /\ version \in Nat
        /\ listSettled \in Nat /\ rowSettled \in Nat /\ rowSettled <= row
    BY DEF Init
  <2>4. QED  BY <2>1, <2>2, <2>3 DEF Typed
<1>3. Shown(rowSettled) /\ \A h \in Handlers : todo[h] = <<>>
  BY DEF Init, Shown, At
<1>4. QED  BY <1>2, <1>3 DEF EntryInv

\* A request comes in with a sound operation, and nothing written.
LEMMA ArrivalIsDoing ==
    ASSUME VersionedCacheAssumption, EntryInv, NEW h \in Handlers, NEW op \in Operations[service],
           Arrival(h, op), NEW r, r = [NoRequest EXCEPT !.settles = Settles(op)]
    PROVE  Doing(h, op, r)
<1>1. Typed /\ service' = service
  BY DEF EntryInv, Arrival
<1>2. Sound(op)
  <2>1. service \in {"customers", "users", "tenants", "profiles"}
    BY <1>1 DEF Typed, VersionedCacheAssumption
  <2>2. QED  BY <2>1, OperationsAreSound
<1>3. /\ op \in Plans /\ Len(op) > 0 /\ WellFormed(op) /\ op[1] # "setEntry"
      /\ "entry" \in Settles(op) => EvictedAfter(op) /\ Avoids(op, {"insert"})
  BY <1>2 DEF Sound, Whole
<1>4. r \in Locals /\ r.wrote = 0 /\ r.settles = Settles(op)
  <2>1. Settles(op) \in SUBSET {"lists", "entry"}
    BY DEF Settles
  <2>2. QED  BY <2>1 DEF NoRequest, Locals
<1>5. Shown(0)
  <2>1. (entry = None \/ entry >= 0) /\ \A g \in Handlers : req[g].seen >= 0
    BY <1>1 DEF Typed, Locals
  <2>2. QED  BY <2>1 DEF Shown
<1>6. 0 <= row
  BY <1>1 DEF Typed
<1>7. QED  BY <1>3, <1>4, <1>5, <1>6 DEF Doing, Fits

LEMMA ArrivalEntryInv ==
    ASSUME VersionedCacheAssumption, EntryInv, NEW h \in Handlers, NEW op \in Operations[service],
           Arrival(h, op)
    PROVE  EntryInv'
<1>1. PICK r : r = [NoRequest EXCEPT !.settles = Settles(op)]
  OBVIOUS
<1>2. Doing(h, op, r) /\ Step(h, op, r) /\ service' = service
  BY <1>1, ArrivalIsDoing DEF Arrival
<1>3. PICK n, q : Moves(h, op, r, n, q)
  BY <1>2, StepMoves
<1>4. QED  BY <1>2, <1>3, MoveInv

\* A request at work goes on with what it has left to do.
LEMMA HandlerIsDoing ==
    ASSUME EntryInv, NEW h \in Handlers, HandlerStep(h), NEW plan, NEW r,
           plan = todo[h], r = req[h]
    PROVE  Doing(h, plan, r)
<1>1. plan \in Plans /\ plan # <<>> /\ r \in Locals /\ Fits(plan, r)
  BY DEF HandlerStep, EntryInv, Typed
<1>2. Len(plan) > 0
  BY <1>1 DEF Plans
<1>3. QED  BY <1>1, <1>2 DEF Doing

LEMMA HandlerStepEntryInv ==
    ASSUME EntryInv, NEW h \in Handlers, HandlerStep(h)
    PROVE  EntryInv'
<1>1. PICK plan, r : plan = todo[h] /\ r = req[h]
  OBVIOUS
<1>2. Doing(h, plan, r) /\ Step(h, plan, r) /\ service' = service
  BY <1>1, HandlerIsDoing DEF HandlerStep
<1>3. PICK n, q : Moves(h, plan, r, n, q)
  BY <1>2, StepMoves
<1>4. QED  BY <1>2, <1>3, MoveInv

\* A handler that has nothing left to do needs nothing.
LEMMA StopsEntryInv ==
    ASSUME EntryInv, UNCHANGED <<service, dbVars, cacheVars, ghostVars>>,
           (\E h \in Handlers : Stop(h)) \/
           (todo' = [h \in Handlers |-> <<>>] /\ req' = [h \in Handlers |-> NoRequest])
    PROVE  EntryInv'
<1>1. Typed
  BY DEF EntryInv
<1>2. <<>> \in Plans /\ NoRequest \in Locals
  BY DEF Plans, NoRequest, Locals
<1>3. /\ todo' \in [Handlers -> Plans] /\ req' \in [Handlers -> Locals]
      /\ \A g \in Handlers : todo'[g] # <<>> => todo'[g] = todo[g] /\ req'[g] = req[g]
  BY <1>1, <1>2 DEF Typed, Stop
<1>4. Typed'
  BY <1>1, <1>3 DEF Typed, dbVars, cacheVars, ghostVars
<1>5. \A g \in Handlers : At(g, "setEntry")' => At(g, "setEntry") /\ req'[g] = req[g]
  BY <1>3 DEF At
<1>6. late' = late /\ entry' = entry /\ rowSettled' = rowSettled /\ row' = row
  BY DEF ghostVars, cacheVars, dbVars
<1>7. ASSUME NEW w, Shown(w)
      PROVE  Shown(w)'
  BY <1>5, <1>6, <1>7 DEF Shown
<1>8. Shown(rowSettled)'
  <2>1. PICK w : w = rowSettled
    OBVIOUS
  <2>2. Shown(w)'
    BY <1>7, <2>1 DEF EntryInv
  <2>3. QED  BY <1>6, <2>1, <2>2
<1>9. ASSUME NEW g \in Handlers, todo'[g] # <<>>
      PROVE  Fits(todo[g], req[g])'
  <2>1. PICK p, r : p = todo[g] /\ r = req[g]
    OBVIOUS
  <2>2. todo'[g] = p /\ req'[g] = r /\ Fits(p, r)
    BY <1>3, <1>9, <2>1 DEF EntryInv
  <2>3. Shown(r.wrote) => Shown(r.wrote)'
    BY <1>7
  <2>4. Fits(p, r)'
    BY <1>6, <2>2, <2>3 DEF Fits
  <2>5. QED  BY <2>2, <2>4
<1>10. QED  BY <1>4, <1>8, <1>9 DEF EntryInv

\* What happens outside the handlers neither stores an entry nor takes a write back.
LEMMA OutsideEntryInv ==
    ASSUME VersionedCacheAssumption, EntryInv,
           \/ WriteElsewhere
           \/ \E v \in Versions : PageExpires(v)
           \/ EntryExpires
           \/ VersionExpires
           \/ UNCHANGED vars
    PROVE  EntryInv'
<1>1. Typed
  BY DEF EntryInv
<1>2. /\ service' = service /\ todo' = todo /\ req' = req /\ late' = late
      /\ rowSettled' = rowSettled /\ listSettled' = listSettled
      /\ entry' = entry \/ entry' = None
  BY DEF WriteElsewhere, PageExpires, EntryExpires, VersionExpires, vars, dbVars, cacheVars,
     handlerVars, ghostVars
<1>3. /\ row' \in Nat /\ row <= row' /\ table' \in Nat /\ row' <= table' /\ version' \in Nat
  <2>1. CASE WriteElsewhere
    <3>1. table' = table + 1 /\ row' \in {row, table + 1} /\ version' = version
      BY <2>1 DEF WriteElsewhere, cacheVars
    <3>2. QED  BY <1>1, <3>1 DEF Typed
  <2>2. CASE VersionExpires
    BY <1>1, <2>2 DEF VersionExpires, SetVersionTo, Typed, dbVars
  <2>3. CASE UNCHANGED <<row, table, version>>
    BY <1>1, <2>3 DEF Typed
  <2>4. QED
    BY <2>1, <2>2, <2>3 DEF PageExpires, EntryExpires, vars, dbVars, cacheVars
<1>4. Typed'
  BY <1>1, <1>2, <1>3 DEF Typed
<1>5. ASSUME NEW w, Shown(w)
      PROVE  Shown(w)'
  BY <1>2, <1>5 DEF Shown, At
<1>6. Shown(rowSettled)'
  <2>1. PICK w : w = rowSettled
    OBVIOUS
  <2>2. Shown(w)'
    BY <1>5, <2>1 DEF EntryInv
  <2>3. QED  BY <1>2, <2>1, <2>2
<1>7. ASSUME NEW g \in Handlers, todo'[g] # <<>>
      PROVE  Fits(todo[g], req[g])'
  <2>1. PICK p, r : p = todo[g] /\ r = req[g]
    OBVIOUS
  <2>2. todo'[g] = p /\ req'[g] = r /\ Fits(p, r) /\ r.wrote \in Nat
    BY <1>1, <1>2, <1>7, <2>1 DEF EntryInv, Typed, Locals
  <2>3. Shown(r.wrote) => Shown(r.wrote)'
    BY <1>5
  <2>4. r.wrote <= row => r.wrote <= row'
    BY <1>1, <1>3, <2>2 DEF Typed
  <2>5. Fits(p, r)'
    BY <2>2, <2>3, <2>4 DEF Fits
  <2>6. QED  BY <2>2, <2>5
<1>8. QED  BY <1>4, <1>6, <1>7 DEF EntryInv

LEMMA NextEntryInv ==
    ASSUME VersionedCacheAssumption, EntryInv, [Next]_vars
    PROVE  EntryInv'
<1>1. ASSUME NEW h \in Handlers, NEW op \in Operations[service], Arrival(h, op)
      PROVE  EntryInv'
  BY <1>1, ArrivalEntryInv
<1>2. ASSUME NEW h \in Handlers, HandlerStep(h)
      PROVE  EntryInv'
  BY <1>2, HandlerStepEntryInv
<1>3. ASSUME NEW h \in Handlers, Fail(h)
      PROVE  EntryInv'
  BY <1>3, StopsEntryInv DEF Fail
<1>4. CASE Crash
  BY <1>4, StopsEntryInv DEF Crash
<1>5. CASE \/ WriteElsewhere
           \/ \E v \in Versions : PageExpires(v)
           \/ EntryExpires
           \/ VersionExpires
           \/ UNCHANGED vars
  BY <1>5, OutsideEntryInv
<1>6. QED
  BY <1>1, <1>2, <1>3, <1>4, <1>5 DEF Next

\* However many requests overlap, whichever of them fail or die and whenever keys
\* lapse: as long as the last eviction overlapped no older read, the entry shows
\* what every writer that was answered had written, the lagging ones excepted.
THEOREM EntriesShowWhatIsSettled == Spec => []EntryShowsSettled
<1>1. Init => EntryInv
  BY InitEntryInv
<1>2. EntryInv /\ [Next]_vars => EntryInv'
  BY NextEntryInv, VersionedCacheAssumption
<1>3. EntryInv => EntryShowsSettled
  BY DEF EntryInv, Shown, EntryShowsSettled
<1>4. QED
  BY <1>1, <1>2, <1>3, PTL DEF Spec

-----------------------------------------------------------------------------
(* The safety half of CachesCatchUp for the entry: what is out of date was  *)
(* read before the change, by a request that has yet to store it, and there *)
(* are ever fewer of them.                                                  *)

StaleRows(w) == {h \in Handlers : At(h, "setEntry") /\ req[h].seen < w}

EntryIsStale(w) == entry # None /\ entry < w

OnlyOldRows(w) ==
    /\ row' >= w
    /\ StaleRows(w)' \subseteq StaleRows(w)
    /\ EntryIsStale(w)' => EntryIsStale(w) \/ StaleRows(w)' # StaleRows(w)

\* No step adds a request that may store an entry without a change that was made.
EntryStalenessRunsOut == [][\A w \in 1..MaxWrites : row >= w => OnlyOldRows(w)]_vars

\* A handler that is about to store the entry has just read the row.
LEMMA MoveStores ==
    ASSUME EntryInv, NEW h \in Handlers, NEW plan, NEW r, Doing(h, plan, r),
           NEW n, NEW q, Moves(h, plan, r, n, q), NEW w \in Nat, w <= row
    PROVE  OnlyOldRows(w)
<1>1. /\ Typed /\ plan \in Plans /\ Len(plan) > 0 /\ Len(plan) \in Nat /\ WellFormed(plan)
      /\ Next2(plan, n) /\ Progress(h, plan, n, q) /\ q \in Locals /\ Effect(plan, r, q)
      /\ r \in Locals
  BY DEF EntryInv, Doing, Moves, Updates, Fits, Plans
<1>2. /\ \A g \in Handlers \ {h} : todo'[g] = todo[g] /\ req'[g] = req[g]
      /\ \/ todo'[h] = <<>>
         \/ /\ n <= Len(plan) /\ n \in 1..Len(plan)
            /\ todo'[h] = SubSeq(plan, n, Len(plan)) /\ req'[h] = q
  BY <1>1, MoveChanges
<1>3. row \in Nat /\ row' \in Nat /\ row <= row' /\ row' >= w
  BY <1>1 DEF Effect, Typed
<1>4. h \notin StaleRows(w)'
  <2>1. ASSUME At(h, "setEntry")' PROVE ~(req'[h].seen < w)
    <3>1. todo'[h] # <<>> /\ Head(todo'[h]) = "setEntry"
      BY <2>1 DEF At
    <3>2. n \in 1..Len(plan) /\ n <= Len(plan) /\ plan[n] = "setEntry" /\ req'[h] = q
      BY <1>1, <1>2, <3>1, Suffix
    <3>3. plan[1] = "readRow"
      BY <1>1, <3>2, StoresWhatItRead
    <3>4. q.seen = row
      BY <1>1, <3>3 DEF Effect
    <3>5. QED  BY <1>3, <3>2, <3>4
  <2>2. QED  BY <2>1 DEF StaleRows
<1>5. \A g \in Handlers \ {h} : g \in StaleRows(w)' => g \in StaleRows(w)
  BY <1>2 DEF StaleRows, At
<1>6. StaleRows(w)' \subseteq StaleRows(w)
  <2>1. StaleRows(w)' \subseteq Handlers
    BY DEF StaleRows
  <2>2. QED  BY <1>4, <1>5, <2>1
<1>7. ASSUME EntryIsStale(w)', h \notin StaleRows(w)
      PROVE  EntryIsStale(w)
  <2>1. CASE plan[1] = "evict"
    BY <1>1, <1>7, <2>1 DEF Effect, EntryIsStale
  <2>2. CASE plan[1] = "setEntry"
    <3>1. entry' = r.seen /\ todo[h] = plan /\ req[h] = r
      BY <1>1, <2>2 DEF Effect, Doing
    <3>2. At(h, "setEntry")
      BY <1>1, <2>2, <3>1, HeadIsFirst DEF At, Plans
    <3>3. QED  BY <1>7, <3>1, <3>2 DEF StaleRows, EntryIsStale
  <2>3. CASE plan[1] \notin {"evict", "setEntry"}
    BY <1>1, <1>7, <2>3 DEF Effect, EntryIsStale
  <2>4. QED  BY <2>1, <2>2, <2>3
<1>8. QED
  BY <1>3, <1>4, <1>6, <1>7 DEF OnlyOldRows

\* Nothing but a handler stores an entry.
LEMMA AsideStores ==
    ASSUME Typed, row' \in Nat, row <= row', entry' \in {entry, None},
           \A g \in Handlers : todo'[g] = <<>> \/ (todo'[g] = todo[g] /\ req'[g] = req[g]),
           NEW w \in Nat, w <= row
    PROVE  OnlyOldRows(w)
<1>1. row' >= w
  BY DEF Typed
<1>2. StaleRows(w)' \subseteq StaleRows(w)
  BY DEF StaleRows, At
<1>3. QED
  BY <1>1, <1>2 DEF OnlyOldRows, EntryIsStale

\* Every step stores nothing staler than what was about to be stored.
LEMMA NextStores ==
    ASSUME VersionedCacheAssumption, EntryInv, [Next]_vars, NEW w \in Nat, w <= row
    PROVE  OnlyOldRows(w)
<1>1. Typed
  BY DEF EntryInv
<1>2. ASSUME NEW h \in Handlers, NEW op \in Operations[service], Arrival(h, op)
      PROVE  OnlyOldRows(w)
  <2>1. PICK r : r = [NoRequest EXCEPT !.settles = Settles(op)]
    OBVIOUS
  <2>2. Doing(h, op, r) /\ Step(h, op, r) /\ service' = service
    BY <1>2, <2>1, ArrivalIsDoing DEF Arrival
  <2>3. PICK n, q : Moves(h, op, r, n, q)
    BY <2>2, StepMoves
  <2>4. QED  BY <2>2, <2>3, MoveStores
<1>3. ASSUME NEW h \in Handlers, HandlerStep(h)
      PROVE  OnlyOldRows(w)
  <2>1. PICK plan, r : plan = todo[h] /\ r = req[h]
    OBVIOUS
  <2>2. Doing(h, plan, r) /\ Step(h, plan, r) /\ service' = service
    BY <1>3, <2>1, HandlerIsDoing DEF HandlerStep
  <2>3. PICK n, q : Moves(h, plan, r, n, q)
    BY <2>2, StepMoves
  <2>4. QED  BY <2>2, <2>3, MoveStores
<1>4. CASE Crash \/ \E h \in Handlers : Fail(h)
  <2>1. /\ row' = row /\ entry' = entry
        /\ \A g \in Handlers : todo'[g] = <<>> \/ (todo'[g] = todo[g] /\ req'[g] = req[g])
    BY <1>1, <1>4 DEF Fail, Crash, Stop, Typed, dbVars, cacheVars
  <2>2. QED  BY <1>1, <2>1, AsideStores DEF Typed
<1>5. CASE \/ WriteElsewhere
           \/ \E v \in Versions : PageExpires(v)
           \/ EntryExpires
           \/ VersionExpires
           \/ UNCHANGED vars
  <2>1. todo' = todo /\ req' = req /\ entry' \in {entry, None}
    BY <1>5 DEF WriteElsewhere, PageExpires, EntryExpires, VersionExpires, vars, cacheVars,
       handlerVars
  <2>2. row' = row \/ row' = table + 1
    BY <1>5 DEF WriteElsewhere, PageExpires, EntryExpires, VersionExpires, vars, dbVars
  <2>3. row' \in Nat /\ row <= row'
    BY <1>1, <2>2 DEF Typed
  <2>4. QED  BY <1>1, <2>1, <2>3, AsideStores
<1>6. QED
  BY <1>2, <1>3, <1>4, <1>5 DEF Next

\* From the moment a change is in the row, an entry that misses it is stored only
\* by a request that had read the row before, by each of them at most once, and no
\* request joins them: a deletion or a change nobody announces is forgotten for as
\* long as those and one entry last.
THEOREM StaleEntriesRunOut == Spec => EntryStalenessRunsOut
<1>1. EntryInv /\ [Next]_vars => \A w \in 1..MaxWrites : row >= w => OnlyOldRows(w)
  <2> SUFFICES ASSUME EntryInv, [Next]_vars, NEW w \in Nat, w <= row
               PROVE  OnlyOldRows(w)
    BY VersionedCacheAssumption DEF EntryInv, Typed
  <2>1. QED
    BY NextStores, VersionedCacheAssumption
<1>2. EntryInv /\ [Next]_vars => EntryInv'
  BY NextEntryInv, VersionedCacheAssumption
<1>3. QED
  BY InitEntryInv, <1>1, <1>2, PTL DEF Spec, EntryStalenessRunsOut
=============================================================================
