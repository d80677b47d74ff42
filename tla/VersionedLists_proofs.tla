----------------------- MODULE VersionedLists_proofs -----------------------
(***************************************************************************)
(* Theorems about the types and the list pages of VersionedCache, for      *)
(* every number of concurrent requests, writes and failures.               *)
(***************************************************************************)
EXTENDS VersionedCache_proofs, FiniteSetTheorems

-----------------------------------------------------------------------------
(* The shape of the operations, as far as lists go.                        *)

\* Nothing but b comes right before a.
Follows(p, a, b) == \A i \in 2..Len(p) : p[i] = a => p[i-1] = b

Once(p, labels) ==
    \A i, j \in 1..Len(p) : p[i] \in labels /\ p[j] \in labels => i = j

\* A list is read version first, and its page, and the table, and then stored.
Tidy(p) ==
    /\ Follows(p, "initVersion", "getVersion")
    /\ Follows(p, "getPage", "initVersion")
    /\ Follows(p, "readTable", "getPage")
    /\ Follows(p, "setPage", "readTable")

\* What does not come first.
Inner == {"setEntry", "initVersion", "getPage", "readTable", "setPage"}

WholeTidy(p) == Whole(p) /\ Tidy(p) /\ p[1] \notin Inner

LEMMA ConcatFollows ==
    ASSUME NEW p \in Plans, NEW q \in Plans, NEW a, NEW b, Len(p) > 0, q[1] # a,
           Follows(p, a, b), Follows(q, a, b)
    PROVE  Follows(p \o q, a, b)
<1> DEFINE c == p \o q
<1> DEFINE m == Len(p)
<1> DEFINE n == Len(q)
<1>1. /\ Len(c) = m + n /\ m \in Nat /\ n \in Nat
      /\ \A i \in 1..m : c[i] = p[i]
      /\ \A i \in m+1..m+n : i - m \in 1..n /\ c[i] = q[i - m]
  BY Concat
<1> HIDE DEF c, m, n
<1>2. ASSUME NEW i \in 2..m+n, c[i] = a
      PROVE  c[i-1] = b
  <2>1. CASE i <= m
    <3>1. p[i] = a /\ i - 1 \in 1..m /\ i \in 2..m
      BY <1>1, <1>2, <2>1
    <3>2. p[i-1] = b
      BY <3>1 DEF Follows, m
    <3>3. QED  BY <1>1, <3>1, <3>2
  <2>2. CASE i = m + 1
    <3>1. i \in m+1..m+n /\ i - m = 1
      BY <1>1, <2>2
    <3>2. QED  BY <1>1, <1>2, <3>1
  <2>3. CASE i > m + 1
    <3>1. i - m \in 2..n /\ q[i-m] = a /\ i - 1 \in m+1..m+n /\ i - 1 - m = i - m - 1
      BY <1>1, <1>2, <2>3
    <3>2. q[i-m-1] = b
      BY <3>1 DEF Follows, n
    <3>3. QED  BY <1>1, <3>1, <3>2
  <2>4. QED  BY <1>1, <2>1, <2>2, <2>3
<1>3. Follows(c, a, b)
  BY <1>1, <1>2 DEF Follows
<1>4. QED  BY <1>3 DEF c

LEMMA ConcatTidy ==
    ASSUME NEW p, NEW q, WholeTidy(p), WholeTidy(q)
    PROVE  WholeTidy(p \o q)
<1>1. p \in Plans /\ q \in Plans /\ Len(p) > 0 /\ Len(p) \in Nat
  BY DEF WholeTidy, Whole, Plans
<1>2. Whole(p \o q)
  BY ConcatWhole DEF WholeTidy
<1>3. Tidy(p \o q)
  BY <1>1, ConcatFollows DEF WholeTidy, Tidy, Inner
<1>4. (p \o q)[1] = p[1]
  BY <1>1, Concat
<1>5. QED
  BY <1>2, <1>3, <1>4 DEF WholeTidy

LEMMA ConcatOnce ==
    ASSUME NEW p \in Plans, NEW q \in Plans, NEW labels,
           \/ Once(p, labels) /\ Avoids(q, labels)
           \/ Avoids(p, labels) /\ Once(q, labels)
    PROVE  Once(p \o q, labels)
<1> DEFINE c == p \o q
<1> DEFINE m == Len(p)
<1> DEFINE n == Len(q)
<1>1. /\ Len(c) = m + n /\ m \in Nat /\ n \in Nat
      /\ \A i \in 1..m : c[i] = p[i]
      /\ \A i \in m+1..m+n : i - m \in 1..n /\ c[i] = q[i - m]
  BY Concat
<1> HIDE DEF c, m, n
<1>2. ASSUME Once(p, labels), Avoids(q, labels)
      PROVE  Once(c, labels)
  <2>1. ASSUME NEW i \in 1..m+n, c[i] \in labels
        PROVE  i \in 1..m /\ p[i] \in labels
    <3>1. i \notin m+1..m+n
      BY <1>1, <1>2, <2>1 DEF Avoids, n
    <3>2. QED  BY <1>1, <2>1, <3>1
  <2>2. QED  BY <1>1, <1>2, <2>1 DEF Once, m
<1>3. ASSUME Avoids(p, labels), Once(q, labels)
      PROVE  Once(c, labels)
  <2>1. ASSUME NEW i \in 1..m+n, c[i] \in labels
        PROVE  i - m \in 1..n /\ q[i-m] \in labels
    <3>1. i \notin 1..m
      BY <1>1, <1>3, <2>1 DEF Avoids, m
    <3>2. QED  BY <1>1, <2>1, <3>1
  <2>2. ASSUME NEW i \in 1..m+n, NEW j \in 1..m+n, c[i] \in labels, c[j] \in labels
        PROVE  i = j
    <3>1. i - m = j - m
      BY <1>3, <2>1, <2>2 DEF Once, n
    <3>2. QED  BY <1>1, <3>1
  <2>3. QED  BY <1>1, <2>2 DEF Once
<1>4. Once(c, labels)
  BY <1>2, <1>3
<1>5. QED  BY <1>4 DEF c

-----------------------------------------------------------------------------
(* The operations.                                                         *)

\* Every operation writes and bumps once, one that bumps writes and reads no list,
\* and one that settles lists bumps after its write.
ListSound(op) ==
    /\ WholeTidy(op)
    /\ Once(op, {"setVersion"}) /\ Once(op, Writing)
    /\ Avoids(op, {"setVersion"}) \/ (Has(op, Writing) /\ Avoids(op, {"getPage"}))
    /\ "lists" \in Settles(op) =>
         After(op, Writing, "getVersion") /\ After(op, {"getVersion"}, "setVersion")

\* A part that touches no list, and what it writes.
Part(p) == WholeTidy(p) /\ Avoids(p, {"setVersion"}) /\ Avoids(p, {"getPage", "getVersion"})

LEMMA AvoidsOnce ==
    ASSUME NEW p, NEW labels, Avoids(p, labels)
    PROVE  Once(p, labels) /\ \A end : After(p, labels, end)
BY DEF Avoids, Once, After

LEMMA HasIs ==
    ASSUME NEW p \in Plans, NEW labels
    PROVE  Has(p, labels) <=> ~Avoids(p, labels)
<1>1. DOMAIN p = 1..Len(p)
  BY DEF Plans
<1>2. QED  BY <1>1 DEF Has, Avoids

LEMMA ConcatPart ==
    ASSUME NEW p, NEW q, Part(p), Part(q)
    PROVE  Part(p \o q)
<1>1. p \in Plans /\ q \in Plans
  BY DEF Part, WholeTidy, Whole
<1>2. QED
  BY <1>1, ConcatTidy, ConcatAvoids DEF Part

LEMMA OneIsPart ==
    ASSUME NEW label \in {"check", "evict", "insert", "write", "delete"}
    PROVE  /\ Part(<<label>>) /\ Once(<<label>>, Writing)
           /\ label \notin Writing => Avoids(<<label>>, Writing)
           /\ label \in Writing => ~Avoids(<<label>>, Writing)
<1> DEFINE p == <<label>>
<1>1. Len(p) = 1 /\ p[1] = label
  OBVIOUS
<1>2. Whole(p)
  BY OneIsWhole DEF Labels, Writing
<1> HIDE DEF p
<1>3. Part(p) /\ Once(p, Writing)
  BY <1>1, <1>2 DEF Part, WholeTidy, Tidy, Follows, Inner, Avoids, Once
<1>4. /\ label \notin Writing => Avoids(p, Writing)
      /\ label \in Writing => ~Avoids(p, Writing)
  BY <1>1 DEF Avoids
<1>5. QED  BY <1>3, <1>4 DEF p

LEMMA FindOneIsPart == Part(FindOne) /\ Avoids(FindOne, Writing)
<1>1. FindOne \in Plans /\ Len(FindOne) = 3
  BY DEF FindOne, Plans, Labels
<1>2. FindOne[1] = "getEntry" /\ FindOne[2] = "readRow" /\ FindOne[3] = "setEntry"
  BY DEF FindOne
<1>3. Whole(FindOne)
  BY FindOneIs
<1>4. QED
  BY <1>1, <1>2, <1>3 DEF Part, WholeTidy, Tidy, Follows, Inner, Avoids, Writing

LEMMA BumpIs ==
    /\ WholeTidy(BumpVersion) /\ Once(BumpVersion, {"setVersion"})
    /\ Avoids(BumpVersion, Writing) /\ Avoids(BumpVersion, {"getPage"})
    /\ \E j \in 1..Len(BumpVersion) : BumpVersion[j] = "getVersion"
    /\ After(BumpVersion, {"getVersion"}, "setVersion")
<1> DEFINE g == GetVersion
<1> DEFINE s == <<"setVersion">>
<1>1. g \in Plans /\ Len(g) = 2 /\ g[1] = "getVersion" /\ g[2] = "initVersion"
  BY DEF GetVersion, Plans, Labels
<1>2. s \in Plans /\ Len(s) = 1 /\ s[1] = "setVersion"
  BY DEF Plans, Labels
<1> HIDE DEF g, s
<1> DEFINE c == g \o s
<1>3. /\ c \in Plans /\ Len(c) = 3
      /\ c[1] = "getVersion" /\ c[2] = "initVersion" /\ c[3] = "setVersion"
  <2>1. /\ c \in Plans /\ Len(c) = Len(g) + Len(s)
        /\ \A i \in 1..Len(g) : c[i] = g[i]
        /\ \A i \in Len(g)+1..Len(g)+Len(s) : c[i] = s[i - Len(g)]
    BY <1>1, <1>2, Concat
  <2> HIDE DEF c
  <2>2. QED  BY <1>1, <1>2, <2>1
<1>4. c = BumpVersion
  BY DEF BumpVersion, g, s
<1> HIDE DEF c
<1>5. Whole(c)
  BY <1>4, BumpVersionIs
<1>6. /\ WholeTidy(c) /\ Once(c, {"setVersion"}) /\ Avoids(c, Writing) /\ Avoids(c, {"getPage"})
      /\ After(c, {"getVersion"}, "setVersion")
  BY <1>3, <1>5 DEF WholeTidy, Tidy, Follows, Inner, Once, Avoids, Writing, After
<1>7. 1 \in 1..Len(c) /\ c[1] = "getVersion"
  BY <1>3
<1>8. QED  BY <1>4, <1>6, <1>7

\* The reads of a list.
LEMMA ListIsSound == ListSound(List)
<1> DEFINE g == GetVersion
<1> DEFINE s == <<"getPage", "readTable", "setPage">>
<1>1. g \in Plans /\ Len(g) = 2 /\ g[1] = "getVersion" /\ g[2] = "initVersion"
  BY DEF GetVersion, Plans, Labels
<1>2. /\ s \in Plans /\ Len(s) = 3
      /\ s[1] = "getPage" /\ s[2] = "readTable" /\ s[3] = "setPage"
  BY DEF Plans, Labels
<1> HIDE DEF g, s
<1> DEFINE c == g \o s
<1>3. /\ c \in Plans /\ Len(c) = 5
      /\ c[1] = "getVersion" /\ c[2] = "initVersion"
      /\ c[3] = "getPage" /\ c[4] = "readTable" /\ c[5] = "setPage"
  <2>1. /\ c \in Plans /\ Len(c) = Len(g) + Len(s)
        /\ \A i \in 1..Len(g) : c[i] = g[i]
        /\ \A i \in Len(g)+1..Len(g)+Len(s) : c[i] = s[i - Len(g)]
    BY <1>1, <1>2, Concat
  <2> HIDE DEF c
  <2>2. QED  BY <1>1, <1>2, <2>1
<1>4. c = List
  BY DEF List, g, s
<1> HIDE DEF c
<1>5. Whole(c)
  BY <1>4, ListIs
<1>6. WholeTidy(c) /\ Avoids(c, {"setVersion"}) /\ Avoids(c, Writing)
  BY <1>3, <1>5 DEF WholeTidy, Tidy, Follows, Inner, Avoids, Writing
<1>7. Once(c, {"setVersion"}) /\ Once(c, Writing) /\ ~Has(c, Writing)
  BY <1>3, <1>6, AvoidsOnce, HasIs
<1>8. "lists" \notin Settles(c)
  BY <1>7 DEF Settles
<1>9. QED  BY <1>4, <1>6, <1>7, <1>8 DEF ListSound

\* An operation that does nothing to lists.
LEMMA PartIsSound ==
    ASSUME NEW p, Part(p), Once(p, Writing), "lists" \notin Settles(p)
    PROVE  ListSound(p)
BY AvoidsOnce DEF ListSound, Part

\* One that writes, bumps, and may do something else after.
LEMMA BumpedIsSound ==
    ASSUME NEW p, Part(p), Once(p, Writing), ~Avoids(p, Writing)
    PROVE  /\ ListSound(p \o BumpVersion)
           /\ ListSound(p \o BumpVersion \o <<"evict">>)
<1> DEFINE c == p \o BumpVersion
<1> DEFINE e == <<"evict">>
<1>1. p \in Plans /\ BumpVersion \in Plans /\ WholeTidy(p)
  BY BumpIs DEF Part, WholeTidy, Whole
<1>2. c \in Plans /\ WholeTidy(c)
  BY <1>1, BumpIs, ConcatTidy DEF WholeTidy, Whole
<1>3. Once(c, {"setVersion"}) /\ Once(c, Writing) /\ Avoids(c, {"getPage"})
  <2>1. Avoids(p, {"getPage"}) /\ Avoids(p, {"setVersion"})
    BY DEF Part, Avoids
  <2>2. QED  BY <1>1, <2>1, BumpIs, ConcatOnce, ConcatAvoids
<1>4. After(c, Writing, "getVersion")
  BY <1>1, BumpIs, AvoidsOnce, ConcatAfter
<1>5. After(c, {"getVersion"}, "setVersion")
  <2>1. Avoids(p, {"getVersion"})
    BY DEF Part, Avoids
  <2>2. QED  BY <1>1, <2>1, BumpIs, AvoidsOnce, ConcatAfter
<1>6. ~Avoids(c, Writing)
  <2>1. PICK i \in 1..Len(p) : p[i] \in Writing
    BY DEF Avoids
  <2>2. c[i] = p[i] /\ i \in 1..Len(c)
    BY <1>1, Concat
  <2>3. QED  BY <2>1, <2>2 DEF Avoids
<1>7. Has(c, Writing)
  BY <1>2, <1>6, HasIs
<1> HIDE DEF c
<1>8. ListSound(c)
  BY <1>2, <1>3, <1>4, <1>5, <1>7 DEF ListSound
<1>9. Part(e) /\ Avoids(e, Writing) /\ WholeTidy(e) /\ e \in Plans
  BY OneIsPart DEF Writing, Part, WholeTidy, Whole
<1> HIDE DEF e
<1>10. c \o e \in Plans /\ WholeTidy(c \o e)
  BY <1>2, <1>9, ConcatTidy DEF WholeTidy, Whole
<1>11. Once(c \o e, {"setVersion"}) /\ Once(c \o e, Writing) /\ Avoids(c \o e, {"getPage"})
  <2>1. Avoids(e, {"getPage"}) /\ Avoids(e, {"setVersion"})
    BY <1>9 DEF Part, Avoids
  <2>2. QED  BY <1>2, <1>3, <1>9, <2>1, ConcatOnce, ConcatAvoids
<1>12. After(c \o e, Writing, "getVersion") /\ After(c \o e, {"getVersion"}, "setVersion")
  <2>1. Avoids(e, {"getVersion"})
    BY <1>9 DEF Part, Avoids
  <2>2. QED  BY <1>2, <1>4, <1>5, <1>9, <2>1, AvoidsOnce, ConcatAfter
<1>13. Has(c \o e, Writing)
  <2>1. PICK i \in 1..Len(c) : c[i] \in Writing
    BY <1>6 DEF Avoids, c
  <2>2. (c \o e)[i] = c[i] /\ i \in 1..Len(c \o e)
    BY <1>2, <1>9, Concat
  <2>3. QED  BY <1>10, <2>1, <2>2, HasIs DEF Avoids
<1>14. ListSound(c \o e)
  BY <1>10, <1>11, <1>12, <1>13 DEF ListSound
<1>15. QED  BY <1>8, <1>14 DEF c, e

\* What the services write, before they bump.
LEMMA WritersAreParts ==
    \A s \in {<<"write">>, <<"delete">>, <<"write", "evict">>, <<"check", "write", "evict">>,
               <<"check", "insert">>} :
        Part(s) /\ Once(s, Writing) /\ ~Avoids(s, Writing)
<1>1. ASSUME NEW a \in {"check", "write"}, NEW b \in {"evict", "insert"},
             a = "write" <=> b = "evict"
      PROVE  Part(<<a, b>>) /\ Once(<<a, b>>, Writing) /\ ~Avoids(<<a, b>>, Writing)
  <2> DEFINE s == <<a, b>>
  <2>1. s \in Plans /\ Len(s) = 2 /\ s[1] = a /\ s[2] = b
    BY DEF Plans, Labels, Writing
  <2> HIDE DEF s
  <2>2. Part(s) /\ Once(s, Writing)
    BY <1>1, <2>1 DEF Part, WholeTidy, Whole, WellFormed, Tidy, Follows, Inner, Avoids, Once,
       Writing
  <2>3. ~Avoids(s, Writing)
    <3>1. 1 \in 1..Len(s) /\ 2 \in 1..Len(s) /\ (s[1] \in Writing \/ s[2] \in Writing)
      BY <1>1, <2>1 DEF Writing
    <3>2. QED  BY <3>1 DEF Avoids
  <2>4. QED  BY <2>2, <2>3 DEF s
<1>2. LET s == <<"check", "write", "evict">>
      IN  Part(s) /\ Once(s, Writing) /\ ~Avoids(s, Writing)
  <2> DEFINE s == <<"check", "write", "evict">>
  <2>1. s \in Plans /\ Len(s) = 3 /\ s[1] = "check" /\ s[2] = "write" /\ s[3] = "evict"
    BY DEF Plans, Labels, Writing
  <2> HIDE DEF s
  <2>2. Part(s) /\ Once(s, Writing)
    BY <2>1 DEF Part, WholeTidy, Whole, WellFormed, Tidy, Follows, Inner, Avoids, Once, Writing
  <2>3. ~Avoids(s, Writing)
    <3>1. 2 \in 1..Len(s) /\ s[2] \in Writing
      BY <2>1 DEF Writing
    <3>2. QED  BY <3>1 DEF Avoids
  <2>4. QED  BY <2>2, <2>3 DEF s
<1>3. ASSUME NEW a \in {"write", "delete"}
      PROVE  Part(<<a>>) /\ Once(<<a>>, Writing) /\ ~Avoids(<<a>>, Writing)
  BY OneIsPart DEF Writing
<1>4. QED
  BY <1>1, <1>2, <1>3

\* A row is found before it is changed.
LEMMA FoundIsPart ==
    ASSUME NEW s, Part(s), Once(s, Writing), ~Avoids(s, Writing)
    PROVE  /\ Part(FindOne \o s) /\ Once(FindOne \o s, Writing)
           /\ ~Avoids(FindOne \o s, Writing)
<1>1. FindOne \in Plans /\ s \in Plans
  BY FindOneIsPart DEF Part, WholeTidy, Whole
<1>2. Part(FindOne \o s) /\ Once(FindOne \o s, Writing)
  BY <1>1, FindOneIsPart, ConcatPart, ConcatOnce
<1>3. ~Avoids(FindOne \o s, Writing)
  <2> DEFINE c == FindOne \o s
  <2>1. PICK i \in 1..Len(s) : s[i] \in Writing
    BY DEF Avoids
  <2>2. /\ Len(c) = Len(FindOne) + Len(s) /\ Len(FindOne) \in Nat /\ Len(s) \in Nat
        /\ \A j \in Len(FindOne)+1..Len(FindOne)+Len(s) : c[j] = s[j - Len(FindOne)]
    BY <1>1, Concat
  <2> HIDE DEF c
  <2>3. /\ i + Len(FindOne) \in 1..Len(c)
        /\ i + Len(FindOne) \in Len(FindOne)+1..Len(FindOne)+Len(s)
        /\ i + Len(FindOne) - Len(FindOne) = i
    BY <2>2
  <2>4. c[i + Len(FindOne)] \in Writing
    BY <2>1, <2>2, <2>3
  <2>5. ~Avoids(c, Writing)
    BY <2>3, <2>4 DEF Avoids
  <2>6. QED  BY <2>5 DEF c
<1>4. QED  BY <1>2, <1>3

\* UserService.remove deletes after its bump, and settles nothing.
LEMMA UsersRemoveIsListSound == ListSound(UsersRemove)
<1> DEFINE e == <<"evict">>
<1> DEFINE d == <<"delete">>
<1>1. /\ Part(e) /\ Avoids(e, Writing)
      /\ Part(d) /\ Once(d, Writing) /\ ~Avoids(d, Writing)
  BY OneIsPart DEF Writing
<1> HIDE DEF e, d
<1> DEFINE p == FindOne \o e
<1>2. Part(p) /\ Avoids(p, Writing)
  <2>1. FindOne \in Plans /\ e \in Plans
    BY <1>1, FindOneIsPart DEF Part, WholeTidy, Whole
  <2>2. QED  BY <1>1, <2>1, FindOneIsPart, ConcatPart, ConcatAvoids
<1> HIDE DEF p
<1> DEFINE c == p \o BumpVersion
<1>3. p \in Plans /\ BumpVersion \in Plans /\ d \in Plans
  BY <1>1, <1>2, BumpIs DEF Part, WholeTidy, Whole
<1>4. Avoids(p, {"setVersion"}) /\ Avoids(p, {"getPage"})
      /\ Avoids(d, {"setVersion"}) /\ Avoids(d, {"getPage"})
  BY <1>1, <1>2 DEF Part, Avoids
<1>5. c \in Plans /\ WholeTidy(c) /\ Once(c, {"setVersion"}) /\ Avoids(c, Writing)
      /\ Avoids(c, {"getPage"})
  <2>1. WholeTidy(c)
    BY <1>2, BumpIs, ConcatTidy DEF Part
  <2>2. QED
    BY <1>2, <1>3, <1>4, <2>1, BumpIs, ConcatOnce, ConcatAvoids DEF WholeTidy, Whole
<1> HIDE DEF c
<1>6. c \o d \in Plans /\ WholeTidy(c \o d)
  BY <1>1, <1>5, ConcatTidy DEF Part, WholeTidy, Whole
<1>7. /\ Once(c \o d, {"setVersion"}) /\ Once(c \o d, Writing)
      /\ Avoids(c \o d, {"getPage"})
  BY <1>1, <1>3, <1>4, <1>5, ConcatOnce, ConcatAvoids
<1>8. UsersRemove = c \o d
  BY DEF UsersRemove, c, p, d, e
<1>9. Has(c \o d, Writing)
  <2>1. d[1] = "delete" /\ Len(d) = 1
    BY DEF d
  <2>2. /\ Len(c \o d) = Len(c) + Len(d) /\ Len(c) \in Nat
        /\ \A j \in Len(c)+1..Len(c)+Len(d) : (c \o d)[j] = d[j - Len(c)]
    BY <1>3, <1>5, Concat
  <2>3. Len(c) + 1 \in 1..Len(c \o d) /\ (c \o d)[Len(c) + 1] = "delete"
    <3>1. Len(c) + 1 \in Len(c)+1..Len(c)+Len(d) /\ Len(c) + 1 - Len(c) = 1
      BY <2>1, <2>2
    <3>2. QED  BY <2>1, <2>2, <3>1
  <2>4. ~Avoids(c \o d, Writing)
    BY <2>3 DEF Avoids, Writing
  <2>5. QED  BY <1>6, <2>4, HasIs
<1>10. Settles(UsersRemove) = {}
  BY DEF Settles, Lagging
<1>11. QED
  BY <1>6, <1>7, <1>8, <1>9, <1>10 DEF ListSound

\* Every operation is sound for lists.
LEMMA OperationsAreListSound ==
    ASSUME NEW s \in {"customers", "users", "tenants", "profiles"}, NEW op \in Operations[s]
    PROVE  ListSound(op)
<1>1. op \in {List, FindOne, CustomersCreate, CustomersUpdate, CustomersRemove, UsersCreate,
              UsersUpdate, UsersRemove, TenantsCreate, TenantsUpdateEmail, TenantsUpdate,
              TenantsRemove, ProfilesFindOne, ProfilesEvict}
  BY DEF Operations
<1>2. ASSUME NEW p, Part(p), Avoids(p, Writing)
      PROVE  ListSound(p)
  <2>1. p \in Plans
    BY <1>2 DEF Part, WholeTidy, Whole
  <2>2. Once(p, Writing) /\ "lists" \notin Settles(p)
    BY <1>2, <2>1, AvoidsOnce, HasIs DEF Settles
  <2>3. QED  BY <1>2, <2>2, PartIsSound
<1>3. ListSound(FindOne) /\ ListSound(ProfilesFindOne) /\ ListSound(ProfilesEvict)
  BY <1>2, FindOneIsPart, OneIsPart DEF ProfilesFindOne, ProfilesEvict, Writing
<1>4. ListSound(CustomersCreate)
  <2>1. Settles(CustomersCreate) = {}
    BY DEF Settles, Lagging
  <2>2. Part(CustomersCreate) /\ Once(CustomersCreate, Writing)
    BY OneIsPart DEF CustomersCreate
  <2>3. QED  BY <2>1, <2>2, PartIsSound
<1>5. ListSound(UsersCreate) /\ ListSound(TenantsCreate)
  BY WritersAreParts, BumpedIsSound DEF UsersCreate, TenantsCreate
<1>6. ASSUME NEW s1 \in {<<"write">>, <<"delete">>, <<"write", "evict">>,
                         <<"check", "write", "evict">>}
      PROVE  /\ ListSound(FindOne \o s1 \o BumpVersion)
             /\ ListSound(FindOne \o s1 \o BumpVersion \o <<"evict">>)
  <2>1. Part(s1) /\ Once(s1, Writing) /\ ~Avoids(s1, Writing)
    BY WritersAreParts
  <2>2. /\ Part(FindOne \o s1) /\ Once(FindOne \o s1, Writing)
        /\ ~Avoids(FindOne \o s1, Writing)
    BY <2>1, FoundIsPart
  <2>3. QED  BY <2>2, BumpedIsSound
<1>7. /\ ListSound(CustomersUpdate) /\ ListSound(CustomersRemove) /\ ListSound(UsersUpdate)
      /\ ListSound(TenantsUpdateEmail) /\ ListSound(TenantsUpdate) /\ ListSound(TenantsRemove)
  BY <1>6 DEF CustomersUpdate, CustomersRemove, UsersUpdate, TenantsUpdateEmail, TenantsUpdate,
     TenantsRemove
<1>8. QED
  BY <1>1, <1>3, <1>4, <1>5, <1>7, ListIsSound, UsersRemoveIsListSound

-----------------------------------------------------------------------------
(* What remains of an operation.                                           *)

\* What a plan in progress keeps, with the version its request has read.
ListShape(p, r) ==
    /\ WellFormed(p) /\ Tidy(p)
    /\ Once(p, {"setVersion"}) /\ Once(p, Writing)
    /\ Avoids(p, {"setVersion"}) \/ Avoids(p, {"getPage"})
    /\ "lists" \in r.settles =>
         After(p, Writing, "getVersion") /\ After(p, {"getVersion"}, "setVersion")
    /\ p[1] = "initVersion" => r.version = 0
    /\ p[1] \in {"getPage", "readTable", "setPage"} => r.version # 0

LEMMA SuffixTidy ==
    ASSUME NEW p \in Plans, NEW n \in 1..Len(p), Tidy(p)
    PROVE  LET s == SubSeq(p, n, Len(p))
           IN  /\ Tidy(s)
               /\ \A labels : Once(p, labels) => Once(s, labels)
<1> DEFINE s == SubSeq(p, n, Len(p))
<1>1. /\ Len(s) = Len(p) - n + 1 /\ Len(p) \in Nat
      /\ \A i \in 1..Len(s) : i + n - 1 \in n..Len(p) /\ s[i] = p[i + n - 1]
  BY Suffix
<1> HIDE DEF s
<1>2. ASSUME NEW a, NEW b, Follows(p, a, b), NEW i \in 2..Len(s), s[i] = a
      PROVE  s[i-1] = b
  <2>1. i + n - 1 \in 2..Len(p) /\ p[i + n - 1] = a /\ i - 1 \in 1..Len(s)
    BY <1>1, <1>2
  <2>2. p[i + n - 1 - 1] = b
    BY <1>2, <2>1 DEF Follows
  <2>3. i + n - 1 - 1 = (i - 1) + n - 1
    BY <1>1
  <2>4. QED  BY <1>1, <2>1, <2>2, <2>3
<1>3. \A a, b : Follows(p, a, b) => Follows(s, a, b)
  BY <1>2 DEF Follows
<1>4. ASSUME NEW labels, Once(p, labels), NEW i \in 1..Len(s), NEW j \in 1..Len(s),
             s[i] \in labels, s[j] \in labels
      PROVE  i = j
  <2>1. i + n - 1 \in 1..Len(p) /\ j + n - 1 \in 1..Len(p)
    BY <1>1
  <2>2. i + n - 1 = j + n - 1
    BY <1>1, <1>4, <2>1 DEF Once
  <2>3. QED  BY <1>1, <2>2
<1>5. \A labels : Once(p, labels) => Once(s, labels)
  BY <1>4 DEF Once
<1>6. QED
  BY <1>3, <1>5 DEF Tidy, s

\* What was done once is not done again.
LEMMA SuffixOnce ==
    ASSUME NEW p \in Plans, NEW n \in 2..Len(p), NEW labels, Once(p, labels), p[1] \in labels
    PROVE  Avoids(SubSeq(p, n, Len(p)), labels)
<1> DEFINE s == SubSeq(p, n, Len(p))
<1>1. /\ Len(s) = Len(p) - n + 1 /\ Len(p) \in Nat
      /\ \A i \in 1..Len(s) : i + n - 1 \in n..Len(p) /\ s[i] = p[i + n - 1]
  BY Suffix, 2 <= n /\ n \in 1..Len(p)
<1> HIDE DEF s
<1>2. ASSUME NEW i \in 1..Len(s), s[i] \in labels
      PROVE  FALSE
  <2>1. i + n - 1 \in 1..Len(p) /\ p[i + n - 1] \in labels /\ 1 \in 1..Len(p)
        /\ i + n - 1 # 1
    BY <1>1, <1>2
  <2>2. QED  BY <2>1 DEF Once
<1>3. Avoids(s, labels)
  BY <1>2 DEF Avoids
<1>4. QED  BY <1>3 DEF s

\* The next await is one of Inner only after the await it follows.
LEMMA NextFollows ==
    ASSUME NEW p \in Plans, NEW n, Next2(p, n), n <= Len(p), WellFormed(p), Tidy(p)
    PROVE  /\ p[n] = "initVersion" => n = 2 /\ p[1] = "getVersion"
           /\ p[n] = "getPage" =>
                (n = 3 /\ p[1] = "getVersion") \/ (n = 2 /\ p[1] = "initVersion")
           /\ p[n] = "readTable" => n = 2 /\ p[1] = "getPage"
           /\ p[n] = "setPage" => n = 2 /\ p[1] = "readTable"
<1>1. Len(p) \in Nat /\ n \in {2, 3, 4} /\ n \in 2..Len(p)
  BY DEF Plans, Next2
<1>2. n = 3 => p[1] = "getVersion" /\ p[n-1] = "initVersion"
  <2>1. 1 \in 1..Len(p) /\ (n = 3 => n - 1 = 1 + 1)
    BY <1>1
  <2>2. QED  BY <2>1 DEF Next2, WellFormed
<1>3. n = 4 => p[n-1] = "setEntry"
  <2>1. 1 \in 1..Len(p) /\ (n = 4 => n - 1 = 1 + 2)
    BY <1>1
  <2>2. QED  BY <2>1 DEF Next2, WellFormed
<1>4. n = 2 => p[n-1] = p[1]
  OBVIOUS
<1>5. /\ p[n] = "initVersion" => p[n-1] = "getVersion"
      /\ p[n] = "getPage" => p[n-1] = "initVersion"
      /\ p[n] = "readTable" => p[n-1] = "getPage"
      /\ p[n] = "setPage" => p[n-1] = "readTable"
  BY <1>1 DEF Tidy, Follows
<1>6. QED
  BY <1>1, <1>2, <1>3, <1>4, <1>5

-----------------------------------------------------------------------------
(* What a step does, by the await it stands for.                           *)

Versioning(plan, r, n, q) ==
    /\ version' = IF plan[1] = "initVersion" THEN 1
                  ELSE IF plan[1] = "setVersion" THEN r.version + 1 ELSE version
    /\ q.version = IF plan[1] = "getVersion" THEN version
                   ELSE IF plan[1] = "initVersion" THEN 1
                   ELSE IF plan[1] = "setVersion" THEN 0 ELSE r.version
    /\ q.due = IF plan[1] = "getVersion" /\ ~Avoids(plan, {"getPage"}) THEN listSettled
               ELSE IF plan[1] \in {"getVersion", "getPage"} THEN 0 ELSE r.due
    /\ plan[1] = "getVersion" => (n = 2 <=> version = 0)

\* A version that moves back has regressed.
Regression ==
    /\ regressed' \in BOOLEAN
    /\ ~regressed' => ~regressed /\ version <= version'

Paging(plan, r, q) ==
    /\ pages' = IF plan[1] = "setPage" THEN [pages EXCEPT ![r.version] = r.seen] ELSE pages
    /\ q.seen \in {r.seen, table, row, 0}
    /\ plan[1] = "readTable" => q.seen = table

Tabling(plan, r, q) ==
    /\ table' = table \/ (plan[1] \in Writing /\ table' = table + 1)
    /\ row' \in {row, table'} /\ gone' \in BOOLEAN
    /\ entry' \in {entry, None, r.seen}
    /\ q.wrote = r.wrote \/ (plan[1] \in Writing /\ q.wrote \in {0, table'})

Does(h, plan, r, n, q) ==
    /\ Next2(plan, n) /\ Progress(h, plan, n, q) /\ q \in Locals /\ q.settles = r.settles
    /\ Versioning(plan, r, n, q) /\ Regression
    /\ Paging(plan, r, q) /\ Tabling(plan, r, q)

\* The handler that does it.
Acting(h, plan, r) ==
    /\ Typed /\ regressed \in BOOLEAN /\ gone \in BOOLEAN
    /\ h \in Handlers /\ plan \in Plans /\ Len(plan) > 0 /\ r \in Locals

\* Steps that neither write nor move the version.
LEMMA StillDoes ==
    ASSUME NEW h, NEW plan, NEW r, Acting(h, plan, r),
           UNCHANGED <<dbVars, version, regressed>>, NEW n, NEW q, Next2(plan, n),
           Progress(h, plan, n, q), q \in Locals, q.settles = r.settles, q.wrote = r.wrote,
           plan[1] \notin {"initVersion", "setVersion"},
           entry' \in {entry, None, r.seen}, Paging(plan, r, q), Versioning(plan, r, n, q)
    PROVE  Does(h, plan, r, n, q)
<1>1. Tabling(plan, r, q)
  BY DEF Acting, Tabling, dbVars
<1>2. version \in Nat /\ version' = version /\ regressed' = regressed /\ regressed \in BOOLEAN
  BY DEF Acting, Typed
<1>3. Regression
  BY <1>2 DEF Regression
<1>4. QED  BY <1>1, <1>3 DEF Does

LEMMA ListReadDoes ==
    ASSUME NEW h, NEW plan, NEW r, Acting(h, plan, r),
           \/ GetVersionKey(h, plan, r) \/ GetPage(h, plan, r)
           \/ ReadTable(h, plan, r) \/ SetPage(h, plan, r)
    PROVE  \E n, q : Does(h, plan, r, n, q)
<1>1. /\ Typed /\ r \in Locals /\ Head(plan) = plan[1] /\ plan \in Plans
  BY HeadIsFirst DEF Acting
<1>2. CASE GetVersionKey(h, plan, r)
  <2> DEFINE due == IF Has(plan, {"getPage"}) THEN listSettled ELSE 0
  <2> DEFINE q == [r EXCEPT !.version = version, !.due = due]
  <2>1. due \in Nat /\ due = (IF ~Avoids(plan, {"getPage"}) THEN listSettled ELSE 0)
    BY <1>1, HasIs DEF Typed
  <2> HIDE DEF due
  <2>2. /\ q \in Locals /\ q.settles = r.settles /\ q.wrote = r.wrote /\ q.seen = r.seen
        /\ q.version = version /\ q.due = due
    BY <1>1, <2>1 DEF Typed, Locals
  <2>3. (version = 0 /\ Skip(h, plan, 2, q)) \/ (version # 0 /\ Skip(h, plan, 3, q))
    BY <1>2 DEF GetVersionKey, Continue, due
  <2>4. plan[1] = "getVersion"
    BY <1>1, <1>2 DEF GetVersionKey
  <2>5. UNCHANGED <<dbVars, version, regressed>> /\ entry' = entry /\ pages' = pages
    BY <1>2 DEF GetVersionKey, cacheVars
  <2> HIDE DEF q
  <2>6. Paging(plan, r, q)
    BY <2>2, <2>4, <2>5 DEF Paging
  <2>7. PICK n \in {2, 3} : Skip(h, plan, n, q) /\ (n = 2 <=> version = 0)
    BY <2>3
  <2>8. Versioning(plan, r, n, q)
    BY <2>1, <2>2, <2>4, <2>5, <2>7 DEF Versioning
  <2>9. Does(h, plan, r, n, q)
    BY <2>2, <2>4, <2>5, <2>6, <2>7, <2>8, StillDoes DEF Next2, Progress
  <2>10. QED  BY <2>9
<1>3. CASE GetPage(h, plan, r)
  <2> DEFINE q == [r EXCEPT !.due = 0]
  <2>1. /\ q \in Locals /\ q.settles = r.settles /\ q.wrote = r.wrote /\ q.seen = r.seen
        /\ q.version = r.version /\ q.due = 0
    BY <1>1 DEF Locals
  <2>2. plan[1] = "getPage"
    BY <1>1, <1>3 DEF GetPage
  <2>3. UNCHANGED <<dbVars, version, regressed>> /\ entry' = entry /\ pages' = pages
    BY <1>3 DEF GetPage, cacheVars
  <2>4. Progress(h, plan, 2, q)
    BY <1>3 DEF GetPage, Continue, Progress
  <2> HIDE DEF q
  <2>5. Paging(plan, r, q) /\ Versioning(plan, r, 2, q)
    BY <2>1, <2>2, <2>3 DEF Paging, Versioning
  <2>6. Does(h, plan, r, 2, q)
    BY <2>1, <2>2, <2>3, <2>4, <2>5, StillDoes DEF Next2
  <2>7. QED  BY <2>6
<1>4. CASE ReadTable(h, plan, r)
  <2> DEFINE q == [r EXCEPT !.seen = table]
  <2>1. /\ q \in Locals /\ q.settles = r.settles /\ q.wrote = r.wrote /\ q.seen = table
        /\ q.version = r.version /\ q.due = r.due
    BY <1>1 DEF Locals, Typed
  <2>2. plan[1] = "readTable"
    BY <1>1, <1>4 DEF ReadTable
  <2>3. UNCHANGED <<dbVars, version, regressed>> /\ entry' = entry /\ pages' = pages
    BY <1>4 DEF ReadTable, cacheVars
  <2>4. Progress(h, plan, 2, q)
    BY <1>4 DEF ReadTable, Continue, Progress
  <2> HIDE DEF q
  <2>5. Paging(plan, r, q) /\ Versioning(plan, r, 2, q)
    BY <2>1, <2>2, <2>3 DEF Paging, Versioning
  <2>6. Does(h, plan, r, 2, q)
    BY <2>1, <2>2, <2>3, <2>4, <2>5, StillDoes DEF Next2
  <2>7. QED  BY <2>6
<1>5. CASE SetPage(h, plan, r)
  <2>1. plan[1] = "setPage"
    BY <1>1, <1>5 DEF SetPage
  <2>2. /\ UNCHANGED <<dbVars, version, regressed>> /\ entry' = entry
        /\ pages' = [pages EXCEPT ![r.version] = r.seen]
    BY <1>5 DEF SetPage
  <2>3. Progress(h, plan, 2, r)
    BY <1>5 DEF SetPage, Continue, Progress
  <2>4. Paging(plan, r, r) /\ Versioning(plan, r, 2, r)
    BY <2>1, <2>2 DEF Paging, Versioning
  <2>5. Does(h, plan, r, 2, r)
    BY <1>1, <2>1, <2>2, <2>3, <2>4, StillDoes DEF Next2
  <2>6. QED  BY <2>5
<1>6. QED
  BY <1>2, <1>3, <1>4, <1>5

LEMMA VersionSetDoes ==
    ASSUME NEW h, NEW plan, NEW r, Acting(h, plan, r),
           InitVersion(h, plan, r) \/ SetVersion(h, plan, r)
    PROVE  \E n, q : Does(h, plan, r, n, q)
<1>1. /\ Typed /\ r \in Locals /\ Head(plan) = plan[1] /\ regressed \in BOOLEAN
      /\ gone \in BOOLEAN /\ version \in Nat /\ r.version \in Nat
  BY HeadIsFirst DEF Acting, Typed, Locals
<1>2. ASSUME NEW v \in Nat, SetVersionTo(v)
      PROVE  version' = v /\ Regression
  <2>1. version' = v /\ (regressed' <=> regressed \/ v < version)
    BY <1>2, Zenon DEF SetVersionTo
  <2>2. regressed' \in BOOLEAN
    BY <1>2, Zenon DEF SetVersionTo
  <2>3. ~(v < version) => version <= v
    BY <1>1
  <2>4. QED  BY <2>1, <2>2, <2>3 DEF Regression
<1>3. CASE InitVersion(h, plan, r)
  <2> DEFINE q == [r EXCEPT !.version = 1]
  <2>1. /\ q \in Locals /\ q.settles = r.settles /\ q.wrote = r.wrote /\ q.seen = r.seen
        /\ q.version = 1 /\ q.due = r.due
    BY <1>1 DEF Locals
  <2>2. plan[1] = "initVersion"
    BY <1>1, <1>3 DEF InitVersion
  <2>3. UNCHANGED dbVars /\ entry' = entry /\ pages' = pages /\ version' = 1 /\ Regression
    BY <1>2, <1>3 DEF InitVersion
  <2>4. Progress(h, plan, 2, q)
    BY <1>3 DEF InitVersion, Continue, Progress
  <2> HIDE DEF q
  <2>5. Paging(plan, r, q) /\ Versioning(plan, r, 2, q) /\ Tabling(plan, r, q)
    BY <1>1, <2>1, <2>2, <2>3 DEF Paging, Versioning, Tabling, dbVars
  <2>6. Does(h, plan, r, 2, q)
    BY <2>1, <2>2, <2>3, <2>4, <2>5 DEF Does, Next2
  <2>7. QED  BY <2>6
<1>4. CASE SetVersion(h, plan, r)
  <2> DEFINE q == [r EXCEPT !.version = 0]
  <2>1. /\ q \in Locals /\ q.settles = r.settles /\ q.wrote = r.wrote /\ q.seen = r.seen
        /\ q.version = 0 /\ q.due = r.due
    BY <1>1 DEF Locals
  <2>2. plan[1] = "setVersion"
    BY <1>1, <1>4 DEF SetVersion
  <2>3. /\ UNCHANGED dbVars /\ entry' = entry /\ pages' = pages
        /\ version' = r.version + 1 /\ Regression
    BY <1>1, <1>2, <1>4 DEF SetVersion
  <2>4. Progress(h, plan, 2, q)
    BY <1>4 DEF SetVersion, Continue, Progress
  <2> HIDE DEF q
  <2>5. Paging(plan, r, q) /\ Versioning(plan, r, 2, q) /\ Tabling(plan, r, q)
    BY <1>1, <2>1, <2>2, <2>3 DEF Paging, Versioning, Tabling, dbVars
  <2>6. Does(h, plan, r, 2, q)
    BY <2>1, <2>2, <2>3, <2>4, <2>5 DEF Does, Next2
  <2>7. QED  BY <2>6
<1>5. QED
  BY <1>3, <1>4

LEMMA EntryDoes ==
    ASSUME NEW h, NEW plan, NEW r, Acting(h, plan, r),
           \/ GetEntry(h, plan, r) \/ ReadRow(h, plan, r) \/ SetEntry(h, plan, r)
           \/ Check(h, plan, r) \/ Evict(h, plan, r)
    PROVE  \E n, q : Does(h, plan, r, n, q)
<1>1. /\ Typed /\ r \in Locals /\ Head(plan) = plan[1]
  BY HeadIsFirst DEF Acting
<1>2. /\ plan[1] \in {"getEntry", "readRow", "setEntry", "check", "evict"}
      /\ UNCHANGED <<dbVars, version, pages, regressed>> /\ entry' \in {entry, None, r.seen}
  BY <1>1 DEF GetEntry, ReadRow, SetEntry, Check, Evict, cacheVars
<1>3. ASSUME NEW q \in Locals, q.settles = r.settles, q.wrote = r.wrote, q.version = r.version,
             q.due = r.due, q.seen \in {r.seen, row, 0}, NEW n, Next2(plan, n),
             Progress(h, plan, n, q)
      PROVE  Does(h, plan, r, n, q)
  <2>1. Paging(plan, r, q) /\ Versioning(plan, r, n, q)
    BY <1>2, <1>3 DEF Paging, Versioning
  <2>2. QED  BY <1>2, <1>3, <2>1, StillDoes
<1>4. CASE GetEntry(h, plan, r)
  <2>1. plan[1] = "getEntry" /\ (Skip(h, plan, 2, r) \/ Skip(h, plan, 4, r))
    BY <1>1, <1>4 DEF GetEntry, Continue
  <2>2. Does(h, plan, r, 2, r) \/ Does(h, plan, r, 4, r)
    BY <1>1, <1>3, <2>1 DEF Progress, Next2
  <2>3. QED  BY <2>2
<1>5. CASE Check(h, plan, r) \/ Evict(h, plan, r)
  <2>1. Progress(h, plan, 2, r) /\ Next2(plan, 2)
    <3>1. Skip(h, plan, 2, r) \/ Answer(h)
      BY <1>5, Zenon DEF Check, Evict, Continue
    <3>2. QED  BY <3>1 DEF Progress, Next2
  <2>2. Does(h, plan, r, 2, r)
    BY <1>1, <1>3, <2>1
  <2>3. QED  BY <2>2
<1>6. CASE ReadRow(h, plan, r)
  <2> DEFINE q == [r EXCEPT !.seen = row]
  <2>1. /\ q \in Locals /\ q.settles = r.settles /\ q.wrote = r.wrote /\ q.seen = row
        /\ q.version = r.version /\ q.due = r.due
    BY <1>1 DEF Locals, Typed
  <2>2. Progress(h, plan, 2, q) /\ Next2(plan, 2)
    BY <1>6 DEF ReadRow, Continue, Progress, Next2
  <2> HIDE DEF q
  <2>3. Does(h, plan, r, 2, q)
    BY <1>3, <2>1, <2>2
  <2>4. QED  BY <2>3
<1>7. CASE SetEntry(h, plan, r)
  <2> DEFINE q == [r EXCEPT !.seen = 0]
  <2>1. /\ q \in Locals /\ q.settles = r.settles /\ q.wrote = r.wrote /\ q.seen = 0
        /\ q.version = r.version /\ q.due = r.due
    BY <1>1 DEF Locals, Typed
  <2>2. Progress(h, plan, 2, q) /\ Next2(plan, 2)
    BY <1>7 DEF SetEntry, Continue, Progress, Next2
  <2> HIDE DEF q
  <2>3. Does(h, plan, r, 2, q)
    BY <1>3, <2>1, <2>2
  <2>4. QED  BY <2>3
<1>8. QED
  BY <1>4, <1>5, <1>6, <1>7

LEMMA WriteDoes ==
    ASSUME NEW h, NEW plan, NEW r, Acting(h, plan, r), Insert(h, plan, r) \/ Change(h, plan, r)
    PROVE  \E n, q : Does(h, plan, r, n, q)
<1>1. /\ Typed /\ r \in Locals /\ Head(plan) = plan[1] /\ gone \in BOOLEAN
      /\ regressed \in BOOLEAN /\ version \in Nat
  BY HeadIsFirst DEF Acting, Typed
<1> DEFINE w == IF r.settles = {} THEN 0 ELSE table + 1
<1> DEFINE q == [r EXCEPT !.wrote = w]
<1>2. w \in Nat /\ w \in {0, table + 1}
  BY <1>1 DEF Typed
<1> HIDE DEF w
<1>3. /\ q \in Locals /\ q.settles = r.settles /\ q.wrote = w /\ q.seen = r.seen
      /\ q.version = r.version /\ q.due = r.due
  BY <1>1, <1>2 DEF Locals
<1>4. q = Written(r)
  BY DEF Written, w
<1> HIDE DEF q
<1>5. /\ plan[1] \in Writing /\ entry' = entry /\ pages' = pages /\ version' = version
      /\ regressed' = regressed
  BY <1>1 DEF Insert, Change, cacheVars, Writing
<1>6. Regression
  BY <1>1, <1>5 DEF Regression
<1>7. plan[1] \in {"insert", "write", "delete"}
  BY <1>5 DEF Writing
<1>8. ASSUME NEW t \in {r, q}, Progress(h, plan, 2, t), table' \in {table, table + 1},
             row' \in {row, table'}, gone' \in BOOLEAN,
             t = r \/ table' = table + 1
      PROVE  Does(h, plan, r, 2, t)
  <2>1. /\ t \in Locals /\ t.settles = r.settles /\ t.seen = r.seen /\ t.version = r.version
        /\ t.due = r.due /\ (t.wrote = r.wrote \/ t.wrote \in {0, table'})
    BY <1>1, <1>2, <1>3, <1>8
  <2>2. Paging(plan, r, t) /\ Versioning(plan, r, 2, t)
    BY <1>5, <1>7, <2>1 DEF Paging, Versioning
  <2>3. Tabling(plan, r, t)
    BY <1>5, <1>8, <2>1 DEF Tabling
  <2>4. QED  BY <1>6, <1>7, <1>8, <2>1, <2>2, <2>3 DEF Does, Next2
<1>9. CASE Insert(h, plan, r)
  <2>1. \/ table' = table + 1 /\ Progress(h, plan, 2, q)
        \/ table' = table /\ Progress(h, plan, 2, r)
    BY <1>4, <1>9 DEF Insert, Continue, Progress
  <2>2. row' = row /\ gone' = gone
    BY <1>9 DEF Insert
  <2>3. Does(h, plan, r, 2, q) \/ Does(h, plan, r, 2, r)
    BY <1>1, <1>8, <2>1, <2>2
  <2>4. QED  BY <2>3
<1>10. CASE Change(h, plan, r)
  <2>1. \/ /\ table' = table + 1 /\ row' = table' /\ gone' \in BOOLEAN
           /\ Progress(h, plan, 2, q)
        \/ table' = table /\ row' = row /\ gone' = gone /\ Progress(h, plan, 2, r)
    BY <1>4, <1>10 DEF Change, Continue, Progress, dbVars
  <2>2. Does(h, plan, r, 2, q) \/ Does(h, plan, r, 2, r)
    BY <1>1, <1>8, <2>1
  <2>3. QED  BY <2>2
<1>11. QED
  BY <1>9, <1>10

LEMMA StepDoes ==
    ASSUME NEW h, NEW plan, NEW r, Acting(h, plan, r), Step(h, plan, r)
    PROVE  \E n, q : Does(h, plan, r, n, q)
BY ListReadDoes, VersionSetDoes, EntryDoes, WriteDoes DEF Step

-----------------------------------------------------------------------------
(* Types.  That versions stay within Versions, and writes within Stamps,   *)
(* takes counting: each bump and each write is of a request of its own.    *)

\* The requests that have such an await before them.
Having(labels) == {h \in Handlers : ~Avoids(todo[h], labels)}

Room(x, labels) == x + Cardinality(Having(labels)) <= begun

Bump == {"setVersion"}

Bounded(r) ==
    /\ r.seen <= table /\ r.wrote <= table /\ r.due <= table
    /\ r.version \in Versions \cup {0}

CountInv ==
    /\ gone \in BOOLEAN /\ regressed \in BOOLEAN
    /\ begun \in Stamps /\ faults \in 0..MaxFaults
    /\ listSettled <= table
    /\ entry \in (0..table) \cup {None}
    /\ pages \in [Versions -> (0..table) \cup {None}]
    /\ \A h \in Handlers : Bounded(req[h])
    /\ \A h \in Handlers : todo[h] # <<>> => ListShape(todo[h], req[h])
    /\ IsFiniteSet(Having(Bump)) /\ IsFiniteSet(Having(Writing))
    /\ Room(0, Bump) /\ Room(version - 1, Bump)
    /\ \A h \in Having(Bump) : Room(req[h].version - 1, Bump)
    /\ Room(table, Writing)

\* A request that comes in is one more begun, if it writes.
Begins(h, plan) ==
    \/ todo[h] = plan /\ begun' = begun
    \/ todo[h] = <<>> /\ begun' = begun + 1
    \/ todo[h] = <<>> /\ begun' = begun /\ Avoids(plan, Writing) /\ Avoids(plan, Bump)

\* A step of h, counted.
Counting(h, plan, r) ==
    /\ Acting(h, plan, r) /\ Begins(h, plan)
    /\ ListShape(plan, r) /\ Bounded(r)
    /\ ~Avoids(plan, Bump) => Room(r.version - 1, Bump)

\* While nobody joins those that have such an await, there is room for as many.
LEMMA RoomKept ==
    ASSUME NEW labels, IsFiniteSet(Having(labels)), Having(labels)' \subseteq Having(labels),
           begun \in Nat, begun' \in Nat, begun <= begun'
    PROVE  /\ IsFiniteSet(Having(labels))'
           /\ \A x \in Int : Room(x, labels) => Room(x, labels)'
           /\ \A x \in Int : Room(x, labels) /\ begun < begun' => Room(x + 1, labels)'
<1> DEFINE H == Having(labels)
<1> DEFINE K == Having(labels)'
<1>1. IsFiniteSet(H) /\ K \subseteq H
  OBVIOUS
<1> HIDE DEF H, K
<1>2. /\ IsFiniteSet(K) /\ Cardinality(K) <= Cardinality(H)
      /\ Cardinality(K) \in Nat /\ Cardinality(H) \in Nat
  BY <1>1, FS_Subset, FS_CardinalityType
<1>3. ASSUME NEW x \in Int, x + Cardinality(H) <= begun
      PROVE  /\ x + Cardinality(K) <= begun'
             /\ begun < begun' => x + 1 + Cardinality(K) <= begun'
  BY <1>2, <1>3
<1>4. QED
  BY <1>2, <1>3 DEF Room, H, K

\* A step leaves as much room, and one of the counted awaits frees some.
LEMMA DoesRoom ==
    ASSUME NEW h, NEW plan, NEW r, NEW n, NEW q, Counting(h, plan, r), Does(h, plan, r, n, q),
           NEW labels \in {Bump, Writing}, IsFiniteSet(Having(labels)),
           begun \in Nat, begun' \in Nat
    PROVE  /\ IsFiniteSet(Having(labels))'
           /\ \A x \in Int : Room(x, labels) => Room(x, labels)'
           /\ plan[1] \in labels => \A x \in Int : Room(x, labels) => Room(x + 1, labels)'
           /\ h \in Having(labels)' => ~Avoids(plan, labels) /\ plan[1] \notin labels
<1> DEFINE H == Having(labels)
<1> DEFINE K == Having(labels)'
<1>1. /\ Typed /\ h \in Handlers /\ plan \in Plans /\ Len(plan) > 0 /\ Len(plan) \in Nat
      /\ Once(plan, labels) /\ Begins(h, plan) /\ Next2(plan, n)
  <2>1. Once(plan, Bump) /\ Once(plan, Writing)
    BY DEF Counting, ListShape, Bump
  <2>2. Typed /\ h \in Handlers /\ plan \in Plans /\ Len(plan) > 0 /\ Begins(h, plan)
    BY DEF Counting, Acting
  <2>3. QED  BY <2>1, <2>2 DEF Does, Plans
<1>2. /\ \A g \in Handlers \ {h} : todo'[g] = todo[g]
      /\ \/ todo'[h] = <<>>
         \/ /\ n <= Len(plan) /\ n \in 1..Len(plan)
            /\ todo'[h] = SubSeq(plan, n, Len(plan))
  BY <1>1, MoveChanges DEF Does
<1>3. Avoids(<<>>, labels)
  BY DEF Avoids
<1>4. h \in K => ~Avoids(plan, labels) /\ plan[1] \notin labels
  <2>1. ASSUME h \in K
        PROVE  n \in 2..Len(plan) /\ ~Avoids(SubSeq(plan, n, Len(plan)), labels)
    <3>1. ~Avoids(todo'[h], labels)
      BY <2>1 DEF Having
    <3>2. todo'[h] # <<>>
      BY <1>3, <3>1
    <3>3. n <= Len(plan) /\ todo'[h] = SubSeq(plan, n, Len(plan))
      BY <1>2, <3>2
    <3>4. n \in 2..Len(plan)
      BY <1>1, <3>3 DEF Next2
    <3>5. QED  BY <3>1, <3>3, <3>4
  <2>2. ASSUME h \in K
        PROVE  ~Avoids(plan, labels)
    <3>1. n \in 1..Len(plan)
      BY <1>1, <2>1, <2>2
    <3>2. QED  BY <1>1, <2>1, <2>2, <3>1, SuffixKeeps
  <2>3. ASSUME h \in K
        PROVE  plan[1] \notin labels
    BY <1>1, <2>1, <2>3, SuffixOnce
  <2>4. QED  BY <2>2, <2>3
<1>5. K \subseteq H \cup {h}
  BY <1>2 DEF Having
<1>6. h \in H <=> ~Avoids(todo[h], labels)
  BY <1>1 DEF Having
<1>7. plan[1] \in labels => ~Avoids(plan, labels)
  <2>1. 1 \in 1..Len(plan)
    BY <1>1
  <2>2. QED  BY <2>1 DEF Avoids
<1>8. CASE K \subseteq H /\ (plan[1] \in labels => begun < begun') /\ begun <= begun'
  BY <1>4, <1>8, RoomKept
<1>9. CASE todo[h] = plan /\ begun' = begun /\ plan[1] \in labels
  <2>1. h \in H /\ K \subseteq H \ {h}
    BY <1>4, <1>5, <1>6, <1>7, <1>9
  <2> HIDE DEF H, K
  <2>2. IsFiniteSet(H)
    BY DEF H
  <2>3. /\ IsFiniteSet(H \ {h}) /\ Cardinality(H \ {h}) = Cardinality(H) - 1
        /\ Cardinality(H) \in Nat
    BY <2>1, <2>2, FS_RemoveElement, FS_CardinalityType
  <2>4. IsFiniteSet(K) /\ Cardinality(K) <= Cardinality(H) - 1 /\ Cardinality(K) \in Nat
    BY <2>1, <2>3, FS_Subset, FS_CardinalityType
  <2>5. \A x \in Int : x + Cardinality(H) <= begun =>
          x + Cardinality(K) <= begun' /\ x + 1 + Cardinality(K) <= begun'
    BY <1>9, <2>3, <2>4
  <2>6. QED  BY <1>4, <2>4, <2>5 DEF Room, H, K
<1>10. CASE todo[h] = <<>> /\ begun' = begun + 1 /\ plan[1] \notin labels
  <2> HIDE DEF H, K
  <2>1. IsFiniteSet(H)
    BY DEF H
  <2>2. /\ IsFiniteSet(H \cup {h}) /\ Cardinality(H \cup {h}) <= Cardinality(H) + 1
        /\ Cardinality(H) \in Nat /\ Cardinality(H \cup {h}) \in Nat
    <3>1. /\ IsFiniteSet(H \cup {h})
          /\ Cardinality(H \cup {h}) = IF h \in H THEN Cardinality(H) ELSE Cardinality(H) + 1
      BY <2>1, FS_AddElement
    <3>2. Cardinality(H) \in Nat
      BY <2>1, FS_CardinalityType
    <3>3. QED  BY <3>1, <3>2
  <2>3. /\ IsFiniteSet(K) /\ Cardinality(K) <= Cardinality(H \cup {h})
        /\ Cardinality(K) \in Nat
    BY <1>5, <2>2, FS_Subset, FS_CardinalityType
  <2>4. \A x \in Int : x + Cardinality(H) <= begun => x + Cardinality(K) <= begun'
    BY <1>10, <2>2, <2>3
  <2>5. QED  BY <1>4, <1>10, <2>3, <2>4 DEF Room, H, K
<1>11. CASE todo[h] = plan /\ begun' = begun /\ plan[1] \notin labels
  BY <1>4, <1>5, <1>6, <1>8, <1>11
<1>12. CASE todo[h] = <<>> /\ begun' = begun + 1 /\ plan[1] \in labels
  BY <1>4, <1>5, <1>8, <1>12
<1>13. CASE todo[h] = <<>> /\ begun' = begun /\ Avoids(plan, labels)
  BY <1>4, <1>5, <1>7, <1>8, <1>13
<1>14. QED
  BY <1>1, <1>9, <1>10, <1>11, <1>12, <1>13 DEF Begins

\* What remains after a step has the shape of a plan in progress.
LEMMA ShapeKept ==
    ASSUME NEW plan \in Plans, NEW r, NEW n, NEW q, Next2(plan, n), n <= Len(plan),
           ListShape(plan, r), Versioning(plan, r, n, q), q.settles = r.settles
    PROVE  ListShape(SubSeq(plan, n, Len(plan)), q)
<1> DEFINE s == SubSeq(plan, n, Len(plan))
<1>1. n \in 1..Len(plan)
  BY DEF Next2, Plans
<1>2. s # <<>> /\ s[1] = plan[n]
  <2>1. s \in Plans /\ s # <<>> /\ Head(s) = plan[n]
    BY <1>1, Suffix
  <2> HIDE DEF s
  <2>2. Len(s) > 0
    BY <2>1 DEF Plans
  <2>3. QED  BY <2>1, <2>2, HeadIsFirst
<1>3. /\ WellFormed(s) /\ Tidy(s)
      /\ \A labels : Once(plan, labels) => Once(s, labels)
      /\ \A labels : Avoids(plan, labels) => Avoids(s, labels)
      /\ \A labels, end : After(plan, labels, end) => After(s, labels, end)
  BY <1>1, SuffixWellFormed, SuffixTidy, SuffixKeeps DEF ListShape
<1>4. /\ plan[n] = "initVersion" => n = 2 /\ plan[1] = "getVersion"
      /\ plan[n] = "getPage" =>
           (n = 3 /\ plan[1] = "getVersion") \/ (n = 2 /\ plan[1] = "initVersion")
      /\ plan[n] = "readTable" => n = 2 /\ plan[1] = "getPage"
      /\ plan[n] = "setPage" => n = 2 /\ plan[1] = "readTable"
  BY NextFollows DEF ListShape
<1> HIDE DEF s
<1>5. s[1] = "initVersion" => q.version = 0
  BY <1>2, <1>4 DEF Versioning
<1>6. s[1] \in {"getPage", "readTable", "setPage"} => q.version # 0
  BY <1>2, <1>4 DEF Versioning, ListShape
<1>7. ListShape(s, q)
  BY <1>3, <1>5, <1>6 DEF ListShape
<1>8. QED  BY <1>7 DEF s

\* Numbers that are bounded.
LEMMA CountTypes ==
    ASSUME VersionedCacheAssumption, Typed, CountInv
    PROVE  /\ begun \in Nat /\ begun <= MaxWrites /\ table \in Nat /\ table <= MaxWrites
           /\ version \in Versions \cup {0} /\ 1 \in Versions /\ MaxWrites \in Nat
           /\ row \in 0..table /\ listSettled \in 0..table /\ version \in Nat
<1>1. begun \in Nat /\ begun <= MaxWrites /\ MaxWrites \in Nat
  BY DEF VersionedCacheAssumption, CountInv, Stamps
<1>2. Cardinality(Having(Bump)) \in Nat /\ Cardinality(Having(Writing)) \in Nat
  BY FS_CardinalityType DEF CountInv
<1>3. table \in Nat /\ version \in Nat /\ row \in 0..table /\ listSettled \in 0..table
  BY DEF Typed, CountInv
<1>4. table + Cardinality(Having(Writing)) <= begun
      /\ version - 1 + Cardinality(Having(Bump)) <= begun
  BY DEF CountInv, Room
<1>5. QED
  BY <1>1, <1>2, <1>3, <1>4 DEF Versions

LEMMA DoesCountInv ==
    ASSUME VersionedCacheAssumption, Typed, CountInv, NEW h, NEW plan, NEW r, NEW n, NEW q,
           Counting(h, plan, r), Does(h, plan, r, n, q),
           begun' \in Stamps, faults' \in 0..MaxFaults
    PROVE  CountInv'
<1>1. /\ begun \in Nat /\ table \in Nat /\ version \in Versions \cup {0} /\ 1 \in Versions
      /\ row \in 0..table /\ listSettled \in 0..table /\ begun' \in Nat /\ version \in Nat
  BY CountTypes DEF Stamps
<1>2. /\ h \in Handlers /\ plan \in Plans /\ r \in Locals /\ q \in Locals /\ Next2(plan, n)
      /\ Progress(h, plan, n, q) /\ Bounded(r) /\ ListShape(plan, r) /\ q.settles = r.settles
      /\ Versioning(plan, r, n, q) /\ Paging(plan, r, q) /\ Tabling(plan, r, q)
  BY DEF Counting, Acting, Does
<1>3. /\ todo' \in [Handlers -> Plans] /\ req' \in [Handlers -> Locals]
      /\ \A g \in Handlers \ {h} : todo'[g] = todo[g] /\ req'[g] = req[g]
      /\ \/ todo'[h] = <<>> /\ req'[h] = NoRequest
         \/ /\ n <= Len(plan) /\ n \in 1..Len(plan)
            /\ todo'[h] = SubSeq(plan, n, Len(plan)) /\ req'[h] = q
  BY <1>2, MoveChanges
<1>4. /\ table' \in Nat /\ table <= table'
      /\ r.seen \in 0..table /\ q.seen \in 0..table' /\ q.wrote \in 0..table'
      /\ q.due \in 0..table' /\ q.version \in Versions \cup {0} /\ r.version \in Nat
  <2>1. /\ r.seen \in Nat /\ r.seen <= table /\ r.wrote \in Nat /\ r.wrote <= table
        /\ r.due \in Nat /\ r.due <= table /\ r.version \in Nat
        /\ r.version \in Versions \cup {0}
        /\ q.seen \in Nat /\ q.wrote \in Nat /\ q.due \in Nat
    BY <1>2 DEF Bounded, Locals
  <2>2. table' \in Nat /\ table <= table'
    BY <1>1, <1>2 DEF Tabling
  <2>3. q.seen <= table' /\ q.wrote <= table'
    BY <1>1, <1>2, <2>1, <2>2 DEF Tabling, Paging
  <2>4. q.due \in {listSettled, 0, r.due} /\ q.version \in {version, 1, 0, r.version}
    BY <1>2 DEF Versioning
  <2>5. QED  BY <1>1, <2>1, <2>2, <2>3, <2>4
<1>5. /\ gone' \in BOOLEAN /\ regressed' \in BOOLEAN
      /\ entry' \in (0..table') \cup {None} /\ pages' \in [Versions -> (0..table') \cup {None}]
  <2>1. gone' \in BOOLEAN /\ regressed' \in BOOLEAN
    BY DEF Does, Regression, Tabling
  <2>2. entry \in (0..table') \cup {None} /\ pages \in [Versions -> (0..table') \cup {None}]
    BY <1>1, <1>4 DEF CountInv
  <2>3. r.seen \in 0..table'
    BY <1>1, <1>4
  <2>4. entry' \in (0..table') \cup {None}
    BY <1>2, <2>2, <2>3 DEF Tabling
  <2>5. pages' \in [Versions -> (0..table') \cup {None}]
    BY <1>2, <2>2, <2>3 DEF Paging
  <2>6. QED  BY <2>1, <2>4, <2>5
<1>6. listSettled' <= table'
  <2>1. listSettled' \in {listSettled, q.wrote}
    BY <1>2 DEF Progress, Skip, Answered, Answer, Later
  <2>2. QED  BY <1>1, <1>4, <2>1
<1>7. ASSUME NEW g \in Handlers
      PROVE  Bounded(req[g])' /\ (todo'[g] # <<>> => ListShape(todo[g], req[g])')
  <2>1. CASE g # h
    <3>1. /\ Bounded(req[g]) /\ req'[g] = req[g] /\ todo'[g] = todo[g] /\ req[g] \in Locals
          /\ todo[g] # <<>> => ListShape(todo[g], req[g])
      BY <1>3, <2>1 DEF CountInv, Typed
    <3>2. req[g].seen \in Nat /\ req[g].wrote \in Nat /\ req[g].due \in Nat
      BY <3>1 DEF Locals
    <3>3. QED  BY <1>1, <1>4, <3>1, <3>2 DEF Bounded, ListShape
  <2>2. CASE g = h /\ todo'[h] = <<>> /\ req'[h] = NoRequest
    BY <1>4, <2>2 DEF Bounded, NoRequest
  <2>3. CASE /\ g = h /\ n <= Len(plan) /\ n \in 1..Len(plan)
             /\ todo'[h] = SubSeq(plan, n, Len(plan)) /\ req'[h] = q
    <3>1. ListShape(SubSeq(plan, n, Len(plan)), q)
      BY <1>2, <2>3, ShapeKept
    <3>2. ListShape(todo[g], req[g])'
      BY <2>3, <3>1
    <3>3. Bounded(req[g])'
      BY <1>4, <2>3 DEF Bounded
    <3>4. QED  BY <3>2, <3>3
  <2>4. QED  BY <1>3, <2>1, <2>2, <2>3
<1>8. /\ IsFiniteSet(Having(Bump))'
      /\ \A x \in Int : Room(x, Bump) => Room(x, Bump)'
      /\ plan[1] \in Bump => \A x \in Int : Room(x, Bump) => Room(x + 1, Bump)'
      /\ h \in Having(Bump)' => ~Avoids(plan, Bump) /\ plan[1] \notin Bump
  BY <1>1, DoesRoom DEF CountInv
<1>9. /\ IsFiniteSet(Having(Writing))'
      /\ \A x \in Int : Room(x, Writing) => Room(x, Writing)'
      /\ plan[1] \in Writing => \A x \in Int : Room(x, Writing) => Room(x + 1, Writing)'
  BY <1>1, DoesRoom DEF CountInv
<1>10. Room(0, Bump) /\ Room(version - 1, Bump) /\ Room(table, Writing)
       /\ (~Avoids(plan, Bump) => Room(r.version - 1, Bump))
  BY DEF CountInv, Counting
<1>11. Room(0, Bump)'
  BY <1>8, <1>10
<1>12. Room(version - 1, Bump)'
  <2>1. CASE plan[1] = "initVersion"
    <3>1. version' - 1 = 0
      BY <1>2, <2>1 DEF Versioning
    <3>2. QED  BY <1>11, <3>1 DEF Room
  <2>2. CASE plan[1] = "setVersion"
    <3>1. version' = r.version + 1 /\ plan[1] \in Bump
      BY <1>2, <2>2 DEF Versioning, Bump
    <3>2. ~Avoids(plan, Bump)
      <4>1. 1 \in 1..Len(plan)
        BY <1>2 DEF Counting, Acting, Plans
      <4>2. QED  BY <3>1, <4>1 DEF Avoids
    <3>3. Room(r.version - 1 + 1, Bump)'
      BY <1>4, <1>8, <1>10, <3>1, <3>2
    <3>4. r.version - 1 + 1 = version' - 1
      BY <1>4, <3>1
    <3>5. QED  BY <3>3, <3>4 DEF Room
  <2>3. CASE plan[1] \notin {"initVersion", "setVersion"}
    <3>1. version' = version /\ version - 1 \in Int
      BY <1>1, <1>2, <2>3 DEF Versioning
    <3>2. PICK x \in Int : x = version - 1
      BY <3>1
    <3>3. Room(x, Bump)'
      BY <1>8, <1>10, <3>2
    <3>4. QED  BY <3>1, <3>2, <3>3 DEF Room
  <2>4. QED  BY <2>1, <2>2, <2>3
<1>13. Room(table, Writing)'
  <2>1. PICK x \in Int : x = table
    BY <1>1
  <2>2. Room(x, Writing)' /\ (plan[1] \in Writing => Room(x + 1, Writing)')
    BY <1>9, <1>10, <2>1
  <2>3. table' = x \/ (plan[1] \in Writing /\ table' = x + 1)
    BY <1>2, <2>1 DEF Tabling
  <2>4. QED  BY <2>2, <2>3 DEF Room
<1>14. ASSUME NEW g \in Having(Bump)'
       PROVE  Room(req[g].version - 1, Bump)'
  <2>1. g \in Handlers /\ ~Avoids(todo'[g], Bump)
    BY <1>14 DEF Having
  <2>2. CASE g # h
    <3>1. g \in Having(Bump) /\ req'[g] = req[g] /\ req[g].version \in Nat
      BY <1>3, <2>1, <2>2 DEF Having, Typed, Locals
    <3>2. PICK x \in Int : x = req[g].version - 1
      BY <3>1
    <3>3. Room(x, Bump)'
      BY <1>8, <3>1, <3>2 DEF CountInv
    <3>4. QED  BY <3>1, <3>2, <3>3 DEF Room
  <2>3. CASE g = h
    <3>1. ~Avoids(plan, Bump) /\ plan[1] # "setVersion" /\ todo'[h] # <<>>
      <4>1. ~Avoids(plan, Bump) /\ plan[1] \notin Bump
        BY <1>8, <1>14, <2>3
      <4>2. Avoids(<<>>, Bump)
        BY DEF Avoids
      <4>3. QED  BY <2>1, <2>3, <4>1, <4>2 DEF Bump
    <3>2. req'[h] = q
      BY <1>3, <3>1
    <3>3. q.version \in {version, 1, r.version}
      BY <1>2, <3>1 DEF Versioning
    <3>4. /\ Room(r.version - 1, Bump) /\ Room(version - 1, Bump) /\ Room(0, Bump)
          /\ r.version - 1 \in Int /\ version - 1 \in Int /\ 0 \in Int
      BY <1>1, <1>4, <1>10, <3>1
    <3>5. PICK x \in Int : x = q.version - 1 /\ Room(x, Bump)
      BY <3>3, <3>4 DEF Room
    <3>6. Room(x, Bump)'
      BY <1>8, <3>5
    <3>7. QED  BY <2>3, <3>2, <3>5, <3>6 DEF Room
  <2>4. QED  BY <2>2, <2>3
<1>15. QED
  BY <1>5, <1>6, <1>7, <1>8, <1>9, <1>11, <1>12, <1>13, <1>14 DEF CountInv

\* Steps that do no more than drop, fail or write elsewhere.
LEMMA AsideCountInv ==
    ASSUME VersionedCacheAssumption, Typed, Typed', CountInv,
           \A g \in Handlers : \/ todo'[g] = todo[g] /\ req'[g] = req[g]
                               \/ todo'[g] = <<>> /\ req'[g] = NoRequest,
           \/ table' = table /\ begun' = begun
           \/ table' = table + 1 /\ begun' = begun + 1 /\ begun < MaxWrites,
           version' \in {version, 0}, entry' \in {entry, None}, listSettled' = listSettled,
           pages' = pages \/ \E v \in Versions : pages' = [pages EXCEPT ![v] = None],
           gone' \in BOOLEAN, regressed' \in BOOLEAN, faults' \in 0..MaxFaults
    PROVE  CountInv'
<1>1. /\ begun \in Nat /\ table \in Nat /\ version \in Nat /\ begun <= MaxWrites
      /\ MaxWrites \in Nat /\ listSettled \in 0..table
  BY CountTypes
<1>2. /\ begun' \in Nat /\ begun <= begun' /\ table' \in Nat /\ table <= table'
      /\ begun' \in Stamps
  BY <1>1 DEF Stamps
<1>3. /\ entry' \in (0..table') \cup {None} /\ pages' \in [Versions -> (0..table') \cup {None}]
      /\ listSettled' <= table'
  BY <1>1, <1>2 DEF CountInv
<1>4. \A g \in Handlers : todo'[g] # <<>> => todo'[g] = todo[g] /\ req'[g] = req[g]
  OBVIOUS
<1>5. ASSUME NEW g \in Handlers
      PROVE  Bounded(req[g])' /\ (todo'[g] # <<>> => ListShape(todo[g], req[g])')
  <2>1. CASE todo'[g] = todo[g] /\ req'[g] = req[g]
    <3>1. Bounded(req[g]) /\ req[g] \in Locals /\ (todo[g] # <<>> => ListShape(todo[g], req[g]))
      BY DEF CountInv, Typed
    <3>2. req[g].seen \in Nat /\ req[g].wrote \in Nat /\ req[g].due \in Nat
      BY <3>1 DEF Locals
    <3>3. QED  BY <1>1, <1>2, <2>1, <3>1, <3>2 DEF Bounded, ListShape
  <2>2. CASE todo'[g] = <<>> /\ req'[g] = NoRequest
    BY <1>2, <2>2 DEF Bounded, NoRequest
  <2>3. QED  BY <2>1, <2>2
<1>6. ASSUME NEW labels
      PROVE  Having(labels)' \subseteq Having(labels)
  <2>1. Avoids(<<>>, labels)
    BY DEF Avoids
  <2>2. QED  BY <1>4, <2>1 DEF Having
<1>7. ASSUME NEW labels \in {Bump, Writing}
      PROVE  /\ IsFiniteSet(Having(labels))'
             /\ \A x \in Int : Room(x, labels) => Room(x, labels)'
             /\ \A x \in Int : Room(x, labels) /\ begun < begun' => Room(x + 1, labels)'
  BY <1>1, <1>2, <1>6, RoomKept DEF CountInv
<1>8. Room(0, Bump)' /\ Room(version - 1, Bump)'
  <2>1. Room(0, Bump)'
    BY <1>7 DEF CountInv
  <2>2. PICK x \in Int : x = version - 1
    BY <1>1
  <2>3. Room(x, Bump)'
    BY <1>7, <2>2 DEF CountInv
  <2>4. Cardinality(Having(Bump))' \in Nat
    <3>1. IsFiniteSet(Having(Bump)')
      BY <1>7
    <3>2. QED  BY <3>1, FS_CardinalityType
  <2>5. QED  BY <1>1, <2>1, <2>2, <2>3, <2>4 DEF Room
<1>9. Room(table, Writing)'
  <2>1. PICK x \in Int : x = table
    BY <1>1
  <2>2. Room(x, Writing)' /\ (begun < begun' => Room(x + 1, Writing)')
    BY <1>7, <2>1 DEF CountInv
  <2>3. table' = x \/ (begun < begun' /\ table' = x + 1)
    BY <1>1, <2>1
  <2>4. QED  BY <2>2, <2>3 DEF Room
<1>10. ASSUME NEW g \in Having(Bump)'
       PROVE  Room(req[g].version - 1, Bump)'
  <2>1. g \in Handlers /\ g \in Having(Bump) /\ req'[g] = req[g]
    <3>1. ~Avoids(todo'[g], Bump) /\ Avoids(<<>>, Bump) /\ g \in Handlers
      BY <1>10 DEF Having, Avoids
    <3>2. QED  BY <1>4, <1>6, <1>10, <3>1
  <2>2. PICK x \in Int : x = req[g].version - 1
    BY <2>1 DEF Typed, Locals
  <2>3. Room(x, Bump)'
    BY <1>7, <2>1, <2>2 DEF CountInv
  <2>4. QED  BY <2>1, <2>2, <2>3 DEF Room
<1>11. QED
  BY <1>2, <1>3, <1>5, <1>7, <1>8, <1>9, <1>10 DEF CountInv

\* A request that comes in is one that Counting describes, and so is one at work.
LEMMA ArrivalCounts ==
    ASSUME VersionedCacheAssumption, Typed, CountInv, NEW h \in Handlers,
           NEW op \in Operations[service], Arrival(h, op),
           NEW r, r = [NoRequest EXCEPT !.settles = Settles(op)]
    PROVE  Counting(h, op, r) /\ begun' \in Stamps /\ faults' = faults
<1>1. ListSound(op)
  <2>1. service \in {"customers", "users", "tenants", "profiles"}
    BY DEF Typed, VersionedCacheAssumption
  <2>2. QED  BY <2>1, OperationsAreListSound
<1>2. /\ op \in Plans /\ Len(op) > 0 /\ WellFormed(op) /\ Tidy(op) /\ op[1] \notin Inner
  BY <1>1 DEF ListSound, WholeTidy, Whole
<1>3. /\ r \in Locals /\ r.settles = Settles(op) /\ r.seen = 0 /\ r.wrote = 0 /\ r.due = 0
      /\ r.version = 0
  <2>1. Settles(op) \in SUBSET {"lists", "entry"}
    BY DEF Settles
  <2>2. QED  BY <2>1 DEF NoRequest, Locals
<1>4. Acting(h, op, r)
  BY <1>2, <1>3 DEF Acting, CountInv
<1>5. /\ begun \in Nat /\ begun <= MaxWrites /\ MaxWrites \in Nat /\ table \in Nat
  BY CountTypes
<1>6. ListShape(op, r) /\ Bounded(r)
  <2>1. ListShape(op, r)
    BY <1>1, <1>2, <1>3 DEF ListShape, ListSound, Inner
  <2>2. QED  BY <1>3, <1>5, <2>1 DEF Bounded
<1>7. todo[h] = <<>> /\ faults' = faults
      /\ \/ Has(op, Writing) /\ begun < MaxWrites /\ begun' = begun + 1
         \/ ~Has(op, Writing) /\ begun' = begun
  BY DEF Arrival
<1>8. Begins(h, op)
  <2>1. Has(op, Writing) <=> ~Avoids(op, Writing)
    BY <1>2, HasIs
  <2>2. ~Avoids(op, Bump) => Has(op, Writing)
    BY <1>1 DEF ListSound, Bump
  <2>3. QED  BY <1>7, <2>1, <2>2 DEF Begins
<1>9. Room(r.version - 1, Bump)
  <2>1. Room(0, Bump) /\ Cardinality(Having(Bump)) \in Nat
    BY FS_CardinalityType DEF CountInv
  <2>2. QED  BY <1>3, <1>5, <2>1 DEF Room
<1>10. begun' \in Stamps
  BY <1>5, <1>7 DEF Stamps
<1>11. QED  BY <1>4, <1>6, <1>7, <1>8, <1>9, <1>10 DEF Counting

LEMMA HandlerStepCounts ==
    ASSUME Typed, CountInv, NEW h \in Handlers, HandlerStep(h), NEW plan, plan = todo[h],
           NEW r, r = req[h]
    PROVE  Counting(h, plan, r) /\ begun' = begun /\ faults' = faults
<1>1. /\ plan \in Plans /\ plan # <<>> /\ r \in Locals /\ Len(plan) > 0
      /\ begun' = begun /\ faults' = faults
  BY DEF HandlerStep, Typed, Plans, boundVars
<1>2. ListShape(plan, r) /\ Bounded(r)
  BY <1>1 DEF CountInv
<1>3. ~Avoids(plan, Bump) => Room(r.version - 1, Bump)
  BY DEF CountInv, Having
<1>4. QED
  BY <1>1, <1>2, <1>3 DEF Counting, Acting, Begins, CountInv

LEMMA InitCountInv == VersionedCacheAssumption /\ Init => CountInv
<1> SUFFICES ASSUME VersionedCacheAssumption, Init PROVE CountInv
  OBVIOUS
<1>1. \A labels : Having(labels) = {}
  BY DEF Init, Having, Avoids
<1>2. \A labels : IsFiniteSet(Having(labels)) /\ Cardinality(Having(labels)) = 0
  BY <1>1, FS_EmptySet
<1>3. /\ begun \in Stamps /\ faults \in 0..MaxFaults /\ gone \in BOOLEAN /\ regressed \in BOOLEAN
      /\ listSettled <= table /\ entry \in (0..table) \cup {None}
      /\ pages \in [Versions -> (0..table) \cup {None}]
  <2>1. begun \in Stamps /\ faults \in 0..MaxFaults /\ listSettled <= table
    BY DEF Init, VersionedCacheAssumption, Stamps
  <2>2. gone \in BOOLEAN /\ regressed \in BOOLEAN
    BY DEF Init
  <2>3. entry \in (0..table) \cup {None} /\ pages \in [Versions -> (0..table) \cup {None}]
    BY DEF Init
  <2>4. QED  BY <2>1, <2>2, <2>3
<1>4. \A h \in Handlers : Bounded(req[h]) /\ todo[h] = <<>>
  BY DEF Init, Bounded, NoRequest
<1>5. Room(0, Bump) /\ Room(version - 1, Bump) /\ Room(table, Writing)
  BY <1>2 DEF Init, Room
<1>6. QED  BY <1>1, <1>2, <1>3, <1>4, <1>5 DEF CountInv

LEMMA NextCountInv ==
    ASSUME VersionedCacheAssumption, Typed, Typed', CountInv, [Next]_vars
    PROVE  CountInv'
<1>1. /\ faults \in 0..MaxFaults /\ MaxFaults \in Nat /\ gone \in BOOLEAN
      /\ regressed \in BOOLEAN /\ begun \in Stamps
  BY DEF CountInv, VersionedCacheAssumption
<1>2. ASSUME NEW h \in Handlers, NEW op \in Operations[service], Arrival(h, op)
      PROVE  CountInv'
  <2>1. PICK r : r = [NoRequest EXCEPT !.settles = Settles(op)]
    OBVIOUS
  <2>2. Counting(h, op, r) /\ begun' \in Stamps /\ faults' = faults
    BY <1>2, <2>1, ArrivalCounts
  <2>3. Step(h, op, r)
    BY <1>2, <2>1 DEF Arrival
  <2>4. PICK n, q : Does(h, op, r, n, q)
    BY <2>2, <2>3, StepDoes DEF Counting
  <2>5. QED  BY <1>1, <2>2, <2>4, DoesCountInv
<1>3. ASSUME NEW h \in Handlers, HandlerStep(h)
      PROVE  CountInv'
  <2>1. PICK plan, r : plan = todo[h] /\ r = req[h]
    OBVIOUS
  <2>2. Counting(h, plan, r) /\ begun' = begun /\ faults' = faults
    BY <1>3, <2>1, HandlerStepCounts
  <2>3. Step(h, plan, r)
    BY <1>3, <2>1 DEF HandlerStep
  <2>4. PICK n, q : Does(h, plan, r, n, q)
    BY <2>2, <2>3, StepDoes DEF Counting
  <2>5. QED  BY <1>1, <2>2, <2>4, DoesCountInv
<1>4. ASSUME NEW h \in Handlers, Fail(h)
      PROVE  CountInv'
  <2>1. \A g \in Handlers : \/ todo'[g] = todo[g] /\ req'[g] = req[g]
                            \/ todo'[g] = <<>> /\ req'[g] = NoRequest
    BY <1>4 DEF Fail, Stop, Typed
  <2>2. /\ table' = table /\ begun' = begun /\ version' = version /\ entry' = entry
        /\ listSettled' = listSettled /\ pages' = pages /\ gone' = gone
        /\ regressed' = regressed /\ faults' \in 0..MaxFaults
    BY <1>1, <1>4 DEF Fail, dbVars, cacheVars, ghostVars
  <2>3. QED  BY <1>1, <2>1, <2>2, AsideCountInv
<1>5. CASE Crash
  <2>1. \A g \in Handlers : todo'[g] = <<>> /\ req'[g] = NoRequest
    BY <1>5 DEF Crash
  <2>2. /\ table' = table /\ begun' = begun /\ version' = version /\ entry' = entry
        /\ listSettled' = listSettled /\ pages' = pages /\ gone' = gone
        /\ regressed' = regressed /\ faults' \in 0..MaxFaults
    BY <1>1, <1>5 DEF Crash, dbVars, cacheVars, ghostVars
  <2>3. QED  BY <1>1, <2>1, <2>2, AsideCountInv
<1>6. CASE WriteElsewhere
  <2>1. /\ table' = table + 1 /\ begun' = begun + 1 /\ begun < MaxWrites /\ version' = version
        /\ entry' = entry /\ pages' = pages /\ gone' = gone /\ regressed' = regressed
        /\ faults' = faults /\ listSettled' = listSettled /\ todo' = todo /\ req' = req
    BY <1>6 DEF WriteElsewhere, cacheVars, handlerVars, ghostVars
  <2>2. QED  BY <1>1, <2>1, AsideCountInv
<1>7. CASE \/ \E v \in Versions : PageExpires(v)
           \/ EntryExpires
           \/ VersionExpires
           \/ UNCHANGED vars
  <2>1. /\ table' = table /\ begun' = begun /\ listSettled' = listSettled /\ gone' = gone
        /\ todo' = todo /\ req' = req /\ faults' = faults /\ entry' \in {entry, None}
    BY <1>7 DEF PageExpires, EntryExpires, VersionExpires, vars, dbVars, cacheVars,
       handlerVars, ghostVars, boundVars
  <2>2. pages' = pages \/ \E v \in Versions : pages' = [pages EXCEPT ![v] = None]
    BY <1>7 DEF PageExpires, EntryExpires, VersionExpires, vars, cacheVars
  <2>3. CASE VersionExpires
    <3>1. version' = 0 /\ (regressed' <=> regressed \/ 0 < version)
      BY <2>3, Zenon DEF VersionExpires, SetVersionTo
    <3>2. regressed' \in BOOLEAN
      BY <2>3, Zenon DEF VersionExpires, SetVersionTo
    <3>3. QED  BY <1>1, <2>1, <2>2, <3>1, <3>2, AsideCountInv
  <2>4. CASE version' = version /\ regressed' = regressed
    BY <1>1, <2>1, <2>2, <2>4, AsideCountInv
  <2>5. QED
    BY <1>7, <2>3, <2>4 DEF PageExpires, EntryExpires, vars, cacheVars, ghostVars
<1>8. QED
  BY <1>2, <1>3, <1>4, <1>5, <1>6, <1>7 DEF Next

\* What a request has read, written and bumped stays within the bounds that name it,
\* and the store, the tables and the handlers hold what they are for.
THEOREM TypeCorrect == Spec => []TypeOK
<1> DEFINE Inv == EntryInv /\ CountInv
<1>1. Init => Inv
  BY InitEntryInv, InitCountInv, VersionedCacheAssumption
<1>2. Inv /\ [Next]_vars => Inv'
  <2> SUFFICES ASSUME Inv, [Next]_vars PROVE Inv'
    OBVIOUS
  <2>1. EntryInv'
    BY NextEntryInv, VersionedCacheAssumption
  <2>2. Typed /\ Typed'
    BY <2>1 DEF EntryInv
  <2>3. QED  BY <2>1, <2>2, NextCountInv, VersionedCacheAssumption
<1>3. Inv => TypeOK
  <2> SUFFICES ASSUME Inv PROVE TypeOK
    OBVIOUS
  <2>1. Typed
    BY DEF EntryInv
  <2>2. /\ begun \in Nat /\ begun <= MaxWrites /\ table \in Nat /\ table <= MaxWrites
        /\ version \in Versions \cup {0} /\ MaxWrites \in Nat
        /\ row \in 0..table /\ listSettled \in 0..table
    BY <2>1, CountTypes, VersionedCacheAssumption
  <2>3. req \in [Handlers -> Request]
    <3>1. ASSUME NEW h \in Handlers
          PROVE  req[h] \in Request
      <4>1. req[h] \in Locals /\ Bounded(req[h])
        BY <2>1 DEF CountInv, Typed
      <4>2. QED  BY <2>2, <4>1 DEF Locals, Bounded, Request, Stamps
    <3>2. QED  BY <2>1, <3>1 DEF Typed
  <2>4. \A h \in Handlers : \A i \in DOMAIN todo[h] : todo[h][i] \in Labels
    BY <2>1 DEF Typed, Plans
  <2>5. /\ table \in Stamps /\ pages \in [Versions -> Stamps \cup {None}]
        /\ entry \in Stamps \cup {None}
    BY <2>2 DEF CountInv, Stamps
  <2>6. service \in Services /\ rowSettled \in 0..row /\ late \in BOOLEAN
    BY <2>1, <2>2 DEF Typed
  <2>7. gone \in BOOLEAN /\ regressed \in BOOLEAN /\ begun \in Stamps /\ faults \in 0..MaxFaults
    BY DEF CountInv
  <2>8. QED  BY <2>2, <2>3, <2>4, <2>5, <2>6, <2>7 DEF TypeOK
<1>4. QED
  BY <1>1, <1>2, <1>3, PTL DEF Spec

-----------------------------------------------------------------------------
(* What the pages show.                                                    *)

\* A page of version u or later, or one about to be stored under such a version,
\* shows write w.
Paged(w, u) ==
    /\ \A v \in Versions : v >= u => pages[v] = None \/ pages[v] >= w
    /\ \A g \in Handlers : At(g, "setPage") /\ req[g].version >= u => req[g].seen >= w

\* What a plan in progress is owed.  The page it will look for shows what was settled
\* when it asked.  If it is to settle lists and its bump has begun, the versions from
\* the one it sets on show what it wrote.
Owed(p, r) ==
    /\ r.version <= version
    /\ ~Avoids(p, {"getPage"}) => Paged(r.due, r.version)
    /\ "lists" \in r.settles /\ Avoids(p, {"getVersion"}) =>
         /\ Avoids(p, {"setVersion"}) => Paged(r.wrote, version)
         /\ ~Avoids(p, {"setVersion"}) => Paged(r.wrote, r.version + 1)

ListInv ==
    ~regressed =>
      /\ \A v \in Versions : v > version => pages[v] = None
      /\ Paged(listSettled, version)
      /\ \A h \in Handlers : todo[h] # <<>> => Owed(todo[h], req[h])

\* A step of h, as far as lists go.
Serving(h, plan, r) ==
    /\ CountInv /\ ListInv /\ Counting(h, plan, r)
    /\ ~regressed => Owed(plan, r)
    /\ plan[1] = "setPage" => todo[h] = plan /\ req[h] = r

LEMMA ZeroIsPaged ==
    ASSUME Typed, CountInv, NEW u
    PROVE  Paged(0, u)
<1>1. \A v \in Versions : pages[v] = None \/ pages[v] >= 0
  <2>1. table \in Nat /\ pages \in [Versions -> (0..table) \cup {None}]
    BY DEF Typed, CountInv
  <2>2. QED  BY <2>1
<1>2. \A g \in Handlers : req[g].seen >= 0
  BY DEF Typed, Locals
<1>3. QED  BY <1>1, <1>2 DEF Paged

\* What holds from one version on holds from a later one on.
LEMMA LaterIsPaged ==
    ASSUME Typed, NEW w, NEW u \in Nat, NEW u1 \in Nat, u <= u1, Paged(w, u)
    PROVE  Paged(w, u1)
<1>1. Versions \subseteq Int /\ \A g \in Handlers : req[g].version \in Nat
  BY DEF Versions, Typed, Locals
<1>2. \A v \in Int : v >= u1 => v >= u
  OBVIOUS
<1>3. QED  BY <1>1, <1>2 DEF Paged

\* Nothing is stored past the version.
LEMMA NothingPast ==
    ASSUME Typed, CountInv, ListInv, ~regressed, NEW w
    PROVE  Paged(w, version + 1)
<1>1. Versions \subseteq Int /\ version \in Nat /\ \A g \in Handlers : req[g].version \in Nat
  BY DEF Versions, Typed, Locals
<1>2. \A g \in Handlers : todo[g] # <<>> => req[g].version <= version
  BY DEF ListInv, Owed
<1>3. \A v \in Versions : v >= version + 1 => pages[v] = None
  BY <1>1 DEF ListInv
<1>4. \A g \in Handlers : At(g, "setPage") => ~(req[g].version >= version + 1)
  BY <1>1, <1>2 DEF At
<1>5. QED  BY <1>3, <1>4 DEF Paged

\* A page is stored by a request whose read came after what is shown.
LEMMA PagedKept ==
    ASSUME NEW h, NEW plan, NEW r, NEW n, NEW q, Serving(h, plan, r), Does(h, plan, r, n, q),
           NEW w \in Nat, w <= table, NEW u \in Nat, Paged(w, u)
    PROVE  Paged(w, u)'
<1>1. /\ Typed /\ h \in Handlers /\ plan \in Plans /\ Len(plan) > 0 /\ Len(plan) \in Nat
      /\ r \in Locals /\ q \in Locals /\ Next2(plan, n) /\ Progress(h, plan, n, q)
      /\ Paging(plan, r, q) /\ Versioning(plan, r, n, q)
      /\ WellFormed(plan) /\ Tidy(plan)
      /\ pages \in [Versions -> (0..table) \cup {None}]
  BY DEF Serving, CountInv, Counting, Acting, Does, ListShape, Plans
<1>2. /\ \A g \in Handlers \ {h} : todo'[g] = todo[g] /\ req'[g] = req[g]
      /\ \/ todo'[h] = <<>>
         \/ /\ n <= Len(plan) /\ n \in 1..Len(plan)
            /\ todo'[h] = SubSeq(plan, n, Len(plan)) /\ req'[h] = q
  BY <1>1, MoveChanges
<1>3. ASSUME NEW v \in Versions, v >= u
      PROVE  pages'[v] = None \/ pages'[v] >= w
  <2>1. pages[v] = None \/ pages[v] >= w
    BY <1>3 DEF Paged
  <2>2. CASE pages'[v] = pages[v]
    BY <2>1, <2>2
  <2>3. CASE pages'[v] # pages[v]
    <3>1. plan[1] = "setPage" /\ v = r.version /\ pages'[v] = r.seen
      BY <1>1, <2>3 DEF Paging
    <3>2. At(h, "setPage") /\ req[h] = r
      BY <1>1, <3>1, HeadIsFirst DEF Serving, At, Plans
    <3>3. r.seen >= w
      BY <1>1, <1>3, <3>1, <3>2 DEF Paged
    <3>4. QED  BY <3>1, <3>3
  <2>4. QED  BY <2>2, <2>3
<1>4. ASSUME NEW g \in Handlers, At(g, "setPage")', req'[g].version >= u
      PROVE  req'[g].seen >= w
  <2>1. CASE g # h
    BY <1>2, <1>4, <2>1 DEF At, Paged
  <2>2. CASE g = h
    <3>1. todo'[h] # <<>> /\ Head(todo'[h]) = "setPage"
      BY <1>4, <2>2 DEF At
    <3>2. n \in 1..Len(plan) /\ n <= Len(plan) /\ plan[n] = "setPage" /\ req'[h] = q
      BY <1>1, <1>2, <3>1, Suffix
    <3>3. plan[1] = "readTable"
      BY <1>1, <3>2, NextFollows
    <3>4. q.seen = table /\ table \in Nat
      BY <1>1, <3>3 DEF Paging, Typed
    <3>5. QED  BY <2>2, <3>2, <3>4
  <2>3. QED  BY <2>1, <2>2
<1>5. QED  BY <1>3, <1>4 DEF Paged

\* The version only grows, and nothing is stored past it.
LEMMA DoesBehind ==
    ASSUME VersionedCacheAssumption, NEW h, NEW plan, NEW r, NEW n, NEW q,
           Serving(h, plan, r), Does(h, plan, r, n, q), ~regressed'
    PROVE  /\ ~regressed /\ version \in Nat /\ version' \in Nat /\ version <= version'
           /\ r.version \in Nat /\ r.version <= version
           /\ q.version \in Nat /\ q.version <= version'
           /\ \A v \in Versions : v > version' => pages'[v] = None
<1>1. /\ Typed /\ r \in Locals /\ q \in Locals /\ Paging(plan, r, q)
      /\ Versioning(plan, r, n, q) /\ Regression
      /\ pages \in [Versions -> (0..table) \cup {None}]
  BY DEF Serving, CountInv, Counting, Acting, Does
<1>2. ~regressed /\ version <= version' /\ version \in Nat /\ r.version \in Nat
      /\ q.version \in Nat
  BY <1>1 DEF Regression, Typed, Locals
<1>3. r.version <= version
  BY <1>2 DEF Serving, Owed
<1>4. version' \in {version, 1, r.version + 1}
  BY <1>1 DEF Versioning
<1>5. version' \in Nat
  BY <1>2, <1>4
<1>6. q.version <= version'
  BY <1>1, <1>2, <1>3, <1>5 DEF Versioning
<1>7. ASSUME NEW v \in Versions, v > version'
      PROVE  pages'[v] = None
  <2>1. v > version /\ v # r.version
    BY <1>2, <1>3, <1>5, <1>7 DEF Versions
  <2>2. pages[v] = None
    BY <1>2, <2>1 DEF Serving, ListInv
  <2>3. QED  BY <1>1, <2>1, <2>2 DEF Paging
<1>8. QED  BY <1>2, <1>3, <1>5, <1>6, <1>7

LEMMA KeptLater ==
    ASSUME NEW h, NEW plan, NEW r, NEW n, NEW q, Serving(h, plan, r), Does(h, plan, r, n, q),
           NEW w \in Nat, w <= table, NEW u \in Nat, NEW u1 \in Nat, u <= u1, Paged(w, u)
    PROVE  Paged(w, u1)'
<1>1. Typed
  BY DEF Serving, Counting, Acting
<1>2. Paged(w, u1)
  BY <1>1, LaterIsPaged
<1>3. QED  BY <1>2, PagedKept

\* A reader asks for a page that shows what was settled when it asked.
LEMMA DoesDue ==
    ASSUME VersionedCacheAssumption, NEW h, NEW plan, NEW r, NEW n, NEW q,
           Serving(h, plan, r), Does(h, plan, r, n, q), ~regressed', ~Avoids(plan, {"getPage"})
    PROVE  Paged(q.due, q.version)'
<1>1. /\ ~regressed /\ version \in Nat /\ r.version \in Nat /\ q.version \in Nat
  BY DoesBehind
<1>2. /\ Typed /\ CountInv /\ plan \in Plans /\ Len(plan) > 0 /\ Len(plan) \in Nat
      /\ ListShape(plan, r) /\ Versioning(plan, r, n, q) /\ Bounded(r) /\ r \in Locals
      /\ q \in Locals
  BY DEF Serving, Counting, Acting, Does, Plans
<1>3. PICK w, u : w = q.due /\ u = q.version
  OBVIOUS
<1>4. SUFFICES \E u0 \in Nat : u0 <= u /\ w <= table /\ Paged(w, u0)
  <2>1. w \in Nat /\ u \in Nat
    BY <1>1, <1>2, <1>3 DEF Locals
  <2>2. Paged(w, u)'
    BY <1>4, <2>1, KeptLater
  <2>3. QED  BY <1>3, <2>2
<1>5. CASE plan[1] = "getVersion"
  <2>1. w = listSettled /\ u = version
    BY <1>2, <1>3, <1>5 DEF Versioning
  <2>2. Paged(listSettled, version) /\ listSettled <= table
    BY <1>1 DEF Serving, ListInv, CountInv
  <2>3. Paged(w, u)
    BY <2>1, <2>2
  <2>4. QED  BY <1>1, <2>1, <2>2, <2>3
<1>6. CASE plan[1] = "getPage"
  <2>1. w = 0
    BY <1>2, <1>3, <1>6 DEF Versioning
  <2>2. Paged(w, u) /\ w <= table
    BY <1>2, <2>1, ZeroIsPaged DEF Typed
  <2>3. QED  BY <1>1, <1>3, <2>2
<1>7. CASE plan[1] \notin {"getVersion", "getPage"}
  <2>1. w = r.due /\ Paged(r.due, r.version) /\ r.due <= table
    BY <1>1, <1>2, <1>3, <1>7 DEF Versioning, Serving, Owed, Bounded
  <2>2. plan[1] # "setVersion"
    <3>1. 1 \in 1..Len(plan)
      BY <1>2
    <3>2. QED  BY <1>2, <3>1 DEF ListShape, Avoids
  <2>3. r.version <= u
    BY <1>1, <1>2, <1>3, <1>7, <2>2 DEF Versioning, ListShape
  <2>4. QED  BY <1>1, <2>1, <2>3
<1>8. QED  BY <1>5, <1>6, <1>7

\* A request that settles lists: before its bump it owes nothing; from the bump on, no
\* page it leaves to be found misses what it wrote.
LEMMA DoesWrote ==
    ASSUME VersionedCacheAssumption, NEW h, NEW plan, NEW r, NEW n, NEW q,
           Serving(h, plan, r), Does(h, plan, r, n, q), ~regressed', "lists" \in r.settles,
           NEW s, s = SubSeq(plan, n, Len(plan)), n <= Len(plan) => Avoids(s, {"getVersion"})
    PROVE  /\ q.wrote \in Nat /\ q.wrote <= table
           /\ (n <= Len(plan) => Avoids(s, {"setVersion"})) => Paged(q.wrote, version)'
           /\ n <= Len(plan) /\ ~Avoids(s, {"setVersion"}) => Paged(q.wrote, q.version + 1)'
<1>1. /\ ~regressed /\ version \in Nat /\ r.version \in Nat /\ q.version \in Nat
      /\ version' \in Nat /\ version <= version'
  BY DoesBehind
<1>2. /\ Typed /\ CountInv /\ ListInv /\ plan \in Plans /\ Len(plan) > 0 /\ Len(plan) \in Nat
      /\ Next2(plan, n) /\ WellFormed(plan) /\ 1 \in 1..Len(plan)
      /\ ListShape(plan, r) /\ Versioning(plan, r, n, q) /\ Tabling(plan, r, q)
      /\ Bounded(r) /\ r \in Locals /\ Owed(plan, r)
      /\ After(plan, Writing, "getVersion") /\ After(plan, {"getVersion"}, "setVersion")
  BY <1>1 DEF Serving, Counting, Acting, Does, Plans, ListShape
<1>3. ASSUME NEW label, label \notin {"initVersion", "readRow", "setEntry"},
             plan[1] # label, n <= Len(plan) => Avoids(s, {label})
      PROVE  Avoids(plan, {label})
  <2>1. {label} \cap {"initVersion", "readRow", "setEntry"} = {} /\ plan[1] \notin {label}
    BY <1>3
  <2>2. QED  BY <1>2, <1>3, <2>1, SuffixSkips
<1>4. ASSUME NEW labels, NEW end, After(plan, labels, end), plan[1] \in labels
      PROVE  ~Avoids(plan, {end})
  <2>1. PICK k \in 1+1..Len(plan) : plan[k] = end
    BY <1>2, <1>4 DEF After
  <2>2. k \in 1..Len(plan)
    BY <1>2
  <2>3. QED  BY <2>1, <2>2 DEF Avoids
<1>5. plan[1] \notin Writing
  <2>1. ASSUME plan[1] \in Writing
        PROVE  FALSE
    <3>1. plan[1] # "getVersion"
      BY <2>1 DEF Writing
    <3>2. Avoids(plan, {"getVersion"})
      BY <1>3, <3>1
    <3>3. QED  BY <1>2, <1>4, <2>1, <3>2
  <2>2. QED  BY <2>1
<1>6. PICK w : w = r.wrote
  OBVIOUS
<1>7. q.wrote = w /\ w \in Nat /\ w <= table
  BY <1>2, <1>5, <1>6 DEF Tabling, Bounded, Locals
<1>8. ASSUME NEW u \in Nat, NEW u1 \in Nat, u <= u1, Paged(w, u)
      PROVE  Paged(w, u1)'
  BY <1>7, <1>8, KeptLater
<1>9. PICK v0, v1 : v0 = version /\ v1 = version'
  OBVIOUS
<1>10. CASE plan[1] = "getVersion"
  <2>1. n <= Len(plan) /\ ~Avoids(s, {"setVersion"})
    <3>1. ~Avoids(plan, {"setVersion"})
      BY <1>2, <1>4, <1>10
    <3>2. QED  BY <1>3, <1>10, <3>1
  <2>2. Paged(w, v0 + 1)
    <3>1. Paged(w, version + 1)
      BY <1>1, <1>2, NothingPast
    <3>2. QED  BY <1>9, <3>1
  <2>3. q.version = v0
    BY <1>2, <1>9, <1>10 DEF Versioning
  <2>4. Paged(w, v0 + 1)'
    BY <1>1, <1>8, <1>9, <2>2
  <2>5. QED  BY <1>7, <2>1, <2>3, <2>4
<1>11. CASE plan[1] # "getVersion"
  <2>1. Avoids(plan, {"getVersion"})
    BY <1>3, <1>11
  <2>2. /\ Avoids(plan, {"setVersion"}) => Paged(w, v0)
        /\ ~Avoids(plan, {"setVersion"}) => Paged(w, r.version + 1)
    BY <1>2, <1>6, <1>9, <2>1 DEF Owed
  <2>3. ASSUME n <= Len(plan) => Avoids(s, {"setVersion"})
        PROVE  Paged(w, v1)'
    <3>1. CASE plan[1] = "setVersion"
      <4>1. ~Avoids(plan, {"setVersion"}) /\ v1 = r.version + 1
        BY <1>2, <1>9, <3>1 DEF Versioning, Avoids
      <4>2. QED  BY <1>1, <1>8, <1>9, <2>2, <4>1
    <3>2. CASE plan[1] # "setVersion"
      <4>1. Avoids(plan, {"setVersion"})
        BY <1>3, <2>3, <3>2
      <4>2. QED  BY <1>1, <1>8, <1>9, <2>2, <4>1
    <3>3. QED  BY <3>1, <3>2
  <2>4. ASSUME n <= Len(plan), ~Avoids(s, {"setVersion"})
        PROVE  Paged(w, q.version + 1)'
    <3>1. n \in 2..Len(plan) /\ n \in 1..Len(plan)
      BY <1>2, <2>4 DEF Next2
    <3>2. ~Avoids(plan, {"setVersion"})
      BY <1>2, <2>4, <3>1, SuffixKeeps
    <3>3. plan[1] # "setVersion"
      BY <1>2, <2>4, <3>1, SuffixOnce DEF ListShape
    <3>4. r.version + 1 <= q.version + 1
      BY <1>1, <1>2, <1>11, <3>3 DEF Versioning, ListShape
    <3>5. QED  BY <1>1, <1>8, <2>2, <3>2, <3>4
  <2>5. Paged(w, v1)' => Paged(q.wrote, version)'
    BY <1>7, <1>9 DEF Paged
  <2>6. QED  BY <1>7, <2>3, <2>4, <2>5
<1>12. QED  BY <1>10, <1>11

LEMMA DoesListInv ==
    ASSUME VersionedCacheAssumption, NEW h, NEW plan, NEW r, NEW n, NEW q,
           Serving(h, plan, r), Does(h, plan, r, n, q)
    PROVE  ListInv'
<1> SUFFICES ASSUME ~regressed'
             PROVE  /\ \A v \in Versions : v > version' => pages'[v] = None
                    /\ Paged(listSettled, version)'
                    /\ \A g \in Handlers : todo'[g] # <<>> => Owed(todo[g], req[g])'
  BY DEF ListInv
<1>1. /\ ~regressed /\ version \in Nat /\ version' \in Nat /\ version <= version'
      /\ q.version \in Nat /\ q.version <= version'
      /\ \A v \in Versions : v > version' => pages'[v] = None
  BY DoesBehind
<1>2. /\ Typed /\ CountInv /\ ListInv /\ h \in Handlers /\ plan \in Plans /\ Len(plan) \in Nat
      /\ q \in Locals /\ Next2(plan, n) /\ Progress(h, plan, n, q) /\ q.settles = r.settles
  BY DEF Serving, Counting, Acting, Does, Plans
<1>3. /\ \A g \in Handlers \ {h} : todo'[g] = todo[g] /\ req'[g] = req[g]
      /\ \/ todo'[h] = <<>>
         \/ /\ n <= Len(plan) /\ n \in 1..Len(plan)
            /\ todo'[h] = SubSeq(plan, n, Len(plan)) /\ req'[h] = q
  BY <1>2, MoveChanges
<1>4. PICK v0, v1 : v0 = version /\ v1 = version'
  OBVIOUS
<1>5. Paged(listSettled, version)'
  <2>1. PICK w : w = listSettled
    OBVIOUS
  <2>2. w \in Nat /\ w <= table /\ Paged(w, v0)
    BY <1>1, <1>2, <1>4, <2>1 DEF CountInv, ListInv, Typed
  <2>3. Paged(w, v1)'
    BY <1>1, <1>4, <2>2, KeptLater
  <2>4. CASE listSettled' = listSettled
    BY <1>4, <2>1, <2>3, <2>4 DEF Paged
  <2>5. CASE listSettled' # listSettled
    <3>1. n > Len(plan) /\ "lists" \in q.settles /\ listSettled' \in {w, q.wrote}
      BY <1>2, <2>1, <2>5 DEF Progress, Skip, Answered, Answer, Later
    <3>2. ~(n <= Len(plan))
      BY <1>2, <3>1 DEF Next2
    <3>3. Paged(q.wrote, version)'
      BY <1>2, <3>1, <3>2, DoesWrote
    <3>4. QED  BY <1>4, <2>3, <3>1, <3>3 DEF Paged
  <2>6. QED  BY <2>4, <2>5
<1>6. ASSUME NEW g \in Handlers, todo'[g] # <<>>
      PROVE  Owed(todo[g], req[g])'
  <2>1. CASE g # h
    <3>1. PICK p, a : p = todo[g] /\ a = req[g]
      OBVIOUS
    <3>2. todo'[g] = p /\ req'[g] = a /\ p # <<>> /\ Owed(p, a)
      BY <1>1, <1>2, <1>3, <1>6, <2>1, <3>1 DEF ListInv
    <3>3. /\ a.version \in Nat /\ a.due \in Nat /\ a.wrote \in Nat
          /\ a.due <= table /\ a.wrote <= table
      BY <1>2, <3>1 DEF Typed, Locals, CountInv, Bounded
    <3>4. a.version <= version'
      BY <1>1, <3>2, <3>3 DEF Owed
    <3>5. ~Avoids(p, {"getPage"}) => Paged(a.due, a.version)'
      BY <3>2, <3>3, PagedKept DEF Owed
    <3>6. ASSUME "lists" \in a.settles, Avoids(p, {"getVersion"})
          PROVE  /\ Avoids(p, {"setVersion"}) => Paged(a.wrote, version)'
                 /\ ~Avoids(p, {"setVersion"}) => Paged(a.wrote, a.version + 1)'
      <4>1. ASSUME Avoids(p, {"setVersion"})
            PROVE  Paged(a.wrote, version)'
        <5>1. Paged(a.wrote, v0)
          BY <1>4, <3>2, <3>6, <4>1 DEF Owed
        <5>2. Paged(a.wrote, v1)'
          BY <1>1, <1>4, <3>3, <5>1, KeptLater
        <5>3. QED  BY <1>4, <5>2 DEF Paged
      <4>2. ASSUME ~Avoids(p, {"setVersion"})
            PROVE  Paged(a.wrote, a.version + 1)'
        <5>1. Paged(a.wrote, a.version + 1)
          BY <3>2, <3>6, <4>2 DEF Owed
        <5>2. a.version + 1 \in Nat
          BY <3>3
        <5>3. QED  BY <3>3, <5>1, <5>2, PagedKept
      <4>3. QED  BY <4>1, <4>2
    <3>7. Owed(p, a)'
      BY <3>4, <3>5, <3>6 DEF Owed
    <3>8. QED  BY <3>2, <3>7
  <2>2. CASE g = h
    <3>1. PICK s : s = SubSeq(plan, n, Len(plan))
      OBVIOUS
    <3>2. n <= Len(plan) /\ n \in 1..Len(plan) /\ todo'[h] = s /\ req'[h] = q
      BY <1>3, <1>6, <2>2, <3>1
    <3>3. ~Avoids(s, {"getPage"}) => Paged(q.due, q.version)'
      <4>1. ~Avoids(s, {"getPage"}) => ~Avoids(plan, {"getPage"})
        BY <1>2, <3>1, <3>2, SuffixKeeps
      <4>2. QED  BY <4>1, DoesDue
    <3>4. "lists" \in q.settles /\ Avoids(s, {"getVersion"}) =>
            /\ Avoids(s, {"setVersion"}) => Paged(q.wrote, version)'
            /\ ~Avoids(s, {"setVersion"}) => Paged(q.wrote, q.version + 1)'
      BY <1>2, <3>1, <3>2, DoesWrote
    <3>5. Owed(s, q)'
      BY <1>1, <3>3, <3>4 DEF Owed
    <3>6. QED  BY <2>2, <3>2, <3>5
  <2>3. QED  BY <2>1, <2>2
<1>7. QED  BY <1>1, <1>5, <1>6

\* What happens outside the handlers stores no page and takes no version back unseen.
LEMMA AsideListInv ==
    ASSUME VersionedCacheAssumption, Typed, CountInv, ListInv,
           \A g \in Handlers : \/ todo'[g] = todo[g] /\ req'[g] = req[g]
                               \/ todo'[g] = <<>> /\ req'[g] = NoRequest,
           version' = version \/ regressed', regressed' \/ ~regressed,
           listSettled' = listSettled,
           pages' = pages \/ \E v \in Versions : pages' = [pages EXCEPT ![v] = None]
    PROVE  ListInv'
<1> SUFFICES ASSUME ~regressed'
             PROVE  /\ \A v \in Versions : v > version' => pages'[v] = None
                    /\ Paged(listSettled, version)'
                    /\ \A g \in Handlers : todo'[g] # <<>> => Owed(todo[g], req[g])'
  BY DEF ListInv
<1>1. /\ version' = version /\ ~regressed
      /\ \A v \in Versions : pages'[v] = pages[v] \/ pages'[v] = None
  BY DEF CountInv
<1>2. \A g \in Handlers : todo'[g] # <<>> => todo'[g] = todo[g] /\ req'[g] = req[g]
  OBVIOUS
<1>3. ASSUME NEW w, NEW u, Paged(w, u)
      PROVE  Paged(w, u)'
  BY <1>1, <1>2, <1>3 DEF Paged, At
<1>4. Paged(listSettled, version)'
  <2>1. PICK w, u : w = listSettled /\ u = version
    OBVIOUS
  <2>2. Paged(w, u)'
    BY <1>1, <1>3, <2>1 DEF ListInv
  <2>3. QED  BY <1>1, <2>1, <2>2 DEF Paged
<1>5. ASSUME NEW g \in Handlers, todo'[g] # <<>>
      PROVE  Owed(todo[g], req[g])'
  <2>1. PICK p, a, u : p = todo[g] /\ a = req[g] /\ u = version
    OBVIOUS
  <2>2. todo'[g] = p /\ req'[g] = a /\ Owed(p, a) /\ version' = u
    BY <1>1, <1>2, <1>5, <2>1 DEF ListInv
  <2>3. Paged(a.wrote, u)' => Paged(a.wrote, version)'
    BY <2>2 DEF Paged
  <2>4. Paged(a.wrote, version) => Paged(a.wrote, u)
    BY <2>1
  <2>5. Owed(p, a)'
    BY <1>1, <1>3, <2>2, <2>3, <2>4 DEF Owed
  <2>6. QED  BY <2>2, <2>5
<1>6. QED  BY <1>1, <1>4, <1>5 DEF ListInv

LEMMA NextListInv ==
    ASSUME VersionedCacheAssumption, Typed, CountInv, ListInv, [Next]_vars
    PROVE  ListInv'
<1>1. ASSUME NEW h \in Handlers, NEW op \in Operations[service], Arrival(h, op)
      PROVE  ListInv'
  <2>1. PICK r : r = [NoRequest EXCEPT !.settles = Settles(op)]
    OBVIOUS
  <2>2. Counting(h, op, r)
    BY <1>1, <2>1, ArrivalCounts
  <2>3. Step(h, op, r)
    BY <1>1, <2>1 DEF Arrival
  <2>4. PICK n, q : Does(h, op, r, n, q)
    BY <2>2, <2>3, StepDoes DEF Counting
  <2>5. r.version = 0 /\ r.due = 0 /\ r.wrote = 0
    BY <2>1 DEF NoRequest
  <2>6. Owed(op, r)
    BY <2>5, ZeroIsPaged DEF Owed, Typed
  <2>7. op[1] # "setPage"
    <3>1. service \in {"customers", "users", "tenants", "profiles"}
      BY DEF Typed, VersionedCacheAssumption
    <3>2. ListSound(op)
      BY <3>1, OperationsAreListSound
    <3>3. QED  BY <3>2 DEF ListSound, WholeTidy, Inner
  <2>8. Serving(h, op, r)
    BY <2>2, <2>6, <2>7 DEF Serving
  <2>9. QED  BY <2>4, <2>8, DoesListInv
<1>2. ASSUME NEW h \in Handlers, HandlerStep(h)
      PROVE  ListInv'
  <2>1. PICK plan, r : plan = todo[h] /\ r = req[h]
    OBVIOUS
  <2>2. Counting(h, plan, r)
    BY <1>2, <2>1, HandlerStepCounts
  <2>3. Step(h, plan, r)
    BY <1>2, <2>1 DEF HandlerStep
  <2>4. PICK n, q : Does(h, plan, r, n, q)
    BY <2>2, <2>3, StepDoes DEF Counting
  <2>5. ~regressed => Owed(plan, r)
    BY <1>2, <2>1 DEF ListInv, HandlerStep
  <2>6. Serving(h, plan, r)
    BY <2>1, <2>2, <2>5 DEF Serving
  <2>7. QED  BY <2>4, <2>6, DoesListInv
<1>3. ASSUME NEW h \in Handlers, Fail(h)
      PROVE  ListInv'
  <2>1. \A g \in Handlers : \/ todo'[g] = todo[g] /\ req'[g] = req[g]
                            \/ todo'[g] = <<>> /\ req'[g] = NoRequest
    BY <1>3 DEF Fail, Stop, Typed
  <2>2. version' = version /\ regressed' = regressed /\ listSettled' = listSettled
        /\ pages' = pages
    BY <1>3 DEF Fail, cacheVars, ghostVars
  <2>3. QED  BY <2>1, <2>2, AsideListInv
<1>4. CASE Crash
  <2>1. \A g \in Handlers : todo'[g] = <<>> /\ req'[g] = NoRequest
    BY <1>4 DEF Crash
  <2>2. version' = version /\ regressed' = regressed /\ listSettled' = listSettled
        /\ pages' = pages
    BY <1>4 DEF Crash, cacheVars, ghostVars
  <2>3. QED  BY <2>1, <2>2, AsideListInv
<1>5. CASE \/ WriteElsewhere
           \/ \E v \in Versions : PageExpires(v)
           \/ EntryExpires
           \/ VersionExpires
           \/ UNCHANGED vars
  <2>1. /\ todo' = todo /\ req' = req /\ listSettled' = listSettled
        /\ pages' = pages \/ \E v \in Versions : pages' = [pages EXCEPT ![v] = None]
    BY <1>5 DEF WriteElsewhere, PageExpires, EntryExpires, VersionExpires, vars, cacheVars,
       handlerVars, ghostVars
  <2>2. CASE VersionExpires
    <3>1. version \in Nat /\ version # 0 /\ (regressed' <=> regressed \/ 0 < version)
      BY <2>2, Zenon DEF VersionExpires, SetVersionTo, Typed
    <3>2. regressed'
      BY <3>1
    <3>3. QED  BY <2>1, <3>2, AsideListInv
  <2>3. CASE version' = version /\ regressed' = regressed
    BY <2>1, <2>3, AsideListInv
  <2>4. QED
    BY <1>5, <2>2, <2>3 DEF WriteElsewhere, PageExpires, EntryExpires, vars, cacheVars,
       ghostVars
<1>6. QED
  BY <1>1, <1>2, <1>3, <1>4, <1>5 DEF Next

LEMMA InitListInv == Init => ListInv
<1> SUFFICES ASSUME Init PROVE ListInv
  OBVIOUS
<1>1. \A v \in Versions : pages[v] = None
  BY DEF Init
<1>2. \A h \in Handlers : todo[h] = <<>>
  BY DEF Init
<1>3. Paged(listSettled, version)
  BY <1>1, <1>2 DEF Paged, At
<1>4. QED  BY <1>1, <1>2, <1>3 DEF ListInv

\* However bumps overlap, readers store late, calls fail and pages lapse: as long as the
\* version has not moved back, a page that is served shows every write whose writer was
\* answered before the reader asked, the lagging writers excepted.
THEOREM ListsShowWhatIsSettled == Spec => []ListsShowSettled
<1> DEFINE Inv == EntryInv /\ CountInv /\ ListInv
<1>1. Init => Inv
  BY InitEntryInv, InitCountInv, InitListInv, VersionedCacheAssumption
<1>2. Inv /\ [Next]_vars => Inv'
  <2> SUFFICES ASSUME Inv, [Next]_vars PROVE Inv'
    OBVIOUS
  <2>1. EntryInv'
    BY NextEntryInv, VersionedCacheAssumption
  <2>2. Typed /\ Typed'
    BY <2>1 DEF EntryInv
  <2>3. CountInv'
    BY <2>2, NextCountInv, VersionedCacheAssumption
  <2>4. ListInv'
    BY <2>2, NextListInv, VersionedCacheAssumption
  <2>5. QED  BY <2>1, <2>3, <2>4
<1>3. Inv => ListsShowSettled
  <2> SUFFICES ASSUME Inv, ~regressed, NEW h \in Handlers, At(h, "getPage"),
                      pages[req[h].version] # None
               PROVE  pages[req[h].version] >= req[h].due
    BY DEF ListsShowSettled
  <2>1. /\ todo[h] \in Plans /\ todo[h] # <<>> /\ Head(todo[h]) = "getPage"
        /\ req[h] \in Locals
    BY DEF EntryInv, Typed, At
  <2>2. 1 \in 1..Len(todo[h]) /\ todo[h][1] = "getPage"
    BY <2>1, HeadIsFirst DEF Plans
  <2>3. req[h].version \in Versions /\ req[h].version \in Nat
    BY <2>1, <2>2 DEF CountInv, ListShape, Bounded, Locals
  <2>4. Paged(req[h].due, req[h].version)
    BY <2>1, <2>2 DEF ListInv, Owed, Avoids
  <2>5. QED  BY <2>3, <2>4 DEF Paged
<1>4. QED
  BY <1>1, <1>2, <1>3, PTL DEF Spec

-----------------------------------------------------------------------------
(* The safety half of CachesCatchUp for the list pages, under every version *)
(* there is and whether or not the version has moved back.                  *)

StaleReads(w) == {h \in Handlers : At(h, "setPage") /\ req[h].seen < w}

StaleLists(w) == {v \in Versions : pages[v] # None /\ pages[v] < w}

OnlyOldLists(w) ==
    /\ table' >= w
    /\ StaleReads(w)' \subseteq StaleReads(w)
    /\ StaleLists(w)' \subseteq StaleLists(w) \/ StaleReads(w)' # StaleReads(w)

\* No step adds a request that may store a page without a write that was made.
ListStalenessRunsOut == [][\A w \in 1..MaxWrites : table >= w => OnlyOldLists(w)]_vars

\* A handler that is about to store a page has just read the table.
LEMMA DoesStoreLists ==
    ASSUME NEW h, NEW plan, NEW r, NEW n, NEW q, Counting(h, plan, r), Does(h, plan, r, n, q),
           CountInv, plan[1] = "setPage" => todo[h] = plan /\ req[h] = r,
           NEW w \in Nat, w <= table
    PROVE  OnlyOldLists(w)
<1>1. /\ Typed /\ h \in Handlers /\ plan \in Plans /\ Len(plan) > 0 /\ Len(plan) \in Nat
      /\ r \in Locals /\ q \in Locals /\ Next2(plan, n) /\ Progress(h, plan, n, q)
      /\ Paging(plan, r, q) /\ Tabling(plan, r, q) /\ WellFormed(plan) /\ Tidy(plan)
      /\ pages \in [Versions -> (0..table) \cup {None}]
  BY DEF CountInv, Counting, Acting, Does, ListShape, Plans
<1>2. /\ \A g \in Handlers \ {h} : todo'[g] = todo[g] /\ req'[g] = req[g]
      /\ \/ todo'[h] = <<>>
         \/ /\ n <= Len(plan) /\ n \in 1..Len(plan)
            /\ todo'[h] = SubSeq(plan, n, Len(plan)) /\ req'[h] = q
  BY <1>1, MoveChanges
<1>3. table \in Nat /\ table' >= w
  BY <1>1 DEF Tabling, Typed
<1>4. h \notin StaleReads(w)'
  <2>1. ASSUME At(h, "setPage")' PROVE ~(req'[h].seen < w)
    <3>1. todo'[h] # <<>> /\ Head(todo'[h]) = "setPage"
      BY <2>1 DEF At
    <3>2. n \in 1..Len(plan) /\ n <= Len(plan) /\ plan[n] = "setPage" /\ req'[h] = q
      BY <1>1, <1>2, <3>1, Suffix
    <3>3. plan[1] = "readTable"
      BY <1>1, <3>2, NextFollows
    <3>4. q.seen = table
      BY <1>1, <3>3 DEF Paging
    <3>5. QED  BY <1>3, <3>2, <3>4
  <2>2. QED  BY <2>1 DEF StaleReads
<1>5. StaleReads(w)' \subseteq StaleReads(w)
  <2>1. \A g \in Handlers \ {h} : g \in StaleReads(w)' => g \in StaleReads(w)
    BY <1>2 DEF StaleReads, At
  <2>2. StaleReads(w)' \subseteq Handlers
    BY DEF StaleReads
  <2>3. QED  BY <1>4, <2>1, <2>2
<1>6. ASSUME h \notin StaleReads(w)
      PROVE  StaleLists(w)' \subseteq StaleLists(w)
  <2>1. CASE plan[1] = "setPage"
    <3>1. At(h, "setPage") /\ req[h] = r
      BY <1>1, <2>1, HeadIsFirst DEF At, Plans
    <3>2. ~(r.seen < w)
      BY <1>1, <1>6, <3>1 DEF StaleReads
    <3>3. pages' = [pages EXCEPT ![r.version] = r.seen]
      BY <1>1, <2>1 DEF Paging
    <3>4. QED  BY <1>1, <3>2, <3>3 DEF StaleLists
  <2>2. CASE plan[1] # "setPage"
    BY <1>1, <2>2 DEF Paging, StaleLists
  <2>3. QED  BY <2>1, <2>2
<1>7. QED
  BY <1>3, <1>4, <1>5, <1>6 DEF OnlyOldLists

\* Nothing but a handler stores a page.
LEMMA AsideStoresLists ==
    ASSUME Typed, table' \in Nat, table <= table', CountInv,
           pages' = pages \/ \E v \in Versions : pages' = [pages EXCEPT ![v] = None],
           \A g \in Handlers : todo'[g] = <<>> \/ (todo'[g] = todo[g] /\ req'[g] = req[g]),
           NEW w \in Nat, w <= table
    PROVE  OnlyOldLists(w)
<1>1. table' >= w
  BY DEF Typed
<1>2. StaleReads(w)' \subseteq StaleReads(w)
  BY DEF StaleReads, At
<1>3. StaleLists(w)' \subseteq StaleLists(w)
  <2>1. pages \in [Versions -> (0..table) \cup {None}]
    BY DEF CountInv
  <2>2. \A v \in Versions : pages'[v] = pages[v] \/ pages'[v] = None
    BY <2>1
  <2>3. QED  BY <2>2 DEF StaleLists
<1>4. QED
  BY <1>1, <1>2, <1>3 DEF OnlyOldLists

\* Every step stores no page staler than what was about to be stored.
LEMMA NextStoresLists ==
    ASSUME VersionedCacheAssumption, Typed, CountInv, [Next]_vars, NEW w \in Nat, w <= table
    PROVE  OnlyOldLists(w)
<1>1. ASSUME NEW h \in Handlers, NEW op \in Operations[service], Arrival(h, op)
      PROVE  OnlyOldLists(w)
  <2>1. PICK r : r = [NoRequest EXCEPT !.settles = Settles(op)]
    OBVIOUS
  <2>2. Counting(h, op, r)
    BY <1>1, <2>1, ArrivalCounts
  <2>3. Step(h, op, r)
    BY <1>1, <2>1 DEF Arrival
  <2>4. PICK n, q : Does(h, op, r, n, q)
    BY <2>2, <2>3, StepDoes DEF Counting
  <2>5. op[1] # "setPage"
    <3>1. service \in {"customers", "users", "tenants", "profiles"}
      BY DEF Typed, VersionedCacheAssumption
    <3>2. ListSound(op)
      BY <3>1, OperationsAreListSound
    <3>3. QED  BY <3>2 DEF ListSound, WholeTidy, Inner
  <2>6. QED  BY <2>2, <2>4, <2>5, DoesStoreLists
<1>2. ASSUME NEW h \in Handlers, HandlerStep(h)
      PROVE  OnlyOldLists(w)
  <2>1. PICK plan, r : plan = todo[h] /\ r = req[h]
    OBVIOUS
  <2>2. Counting(h, plan, r)
    BY <1>2, <2>1, HandlerStepCounts
  <2>3. Step(h, plan, r)
    BY <1>2, <2>1 DEF HandlerStep
  <2>4. PICK n, q : Does(h, plan, r, n, q)
    BY <2>2, <2>3, StepDoes DEF Counting
  <2>5. QED  BY <2>1, <2>2, <2>4, DoesStoreLists
<1>3. CASE Crash \/ \E h \in Handlers : Fail(h)
  <2>1. /\ table' = table /\ pages' = pages
        /\ \A g \in Handlers : todo'[g] = <<>> \/ (todo'[g] = todo[g] /\ req'[g] = req[g])
    BY <1>3 DEF Fail, Crash, Stop, Typed, dbVars, cacheVars
  <2>2. QED  BY <2>1, AsideStoresLists DEF Typed
<1>4. CASE \/ WriteElsewhere
           \/ \E v \in Versions : PageExpires(v)
           \/ EntryExpires
           \/ VersionExpires
           \/ UNCHANGED vars
  <2>1. /\ todo' = todo /\ req' = req
        /\ pages' = pages \/ \E v \in Versions : pages' = [pages EXCEPT ![v] = None]
    BY <1>4 DEF WriteElsewhere, PageExpires, EntryExpires, VersionExpires, vars, cacheVars,
       handlerVars
  <2>2. table' = table \/ table' = table + 1
    BY <1>4 DEF WriteElsewhere, PageExpires, EntryExpires, VersionExpires, vars, dbVars
  <2>3. table' \in Nat /\ table <= table'
    BY <2>2 DEF Typed
  <2>4. QED  BY <2>1, <2>3, AsideStoresLists
<1>5. QED
  BY <1>1, <1>2, <1>3, <1>4 DEF Next

\* From the moment a write is in the table, a page without it is stored only by a
\* request that had read the table before, by each of them at most once, and no
\* request joins them, whatever has become of the version: bumps that are lost, early
\* or overwritten cost the life of the pages such requests store, and no more.
THEOREM StaleListsRunOut == Spec => ListStalenessRunsOut
<1> DEFINE Inv == EntryInv /\ CountInv
<1>1. Init => Inv
  BY InitEntryInv, InitCountInv, VersionedCacheAssumption
<1>2. Inv /\ [Next]_vars => Inv'
  <2> SUFFICES ASSUME Inv, [Next]_vars PROVE Inv'
    OBVIOUS
  <2>1. EntryInv'
    BY NextEntryInv, VersionedCacheAssumption
  <2>2. CountInv'
    BY <2>1, NextCountInv, VersionedCacheAssumption DEF EntryInv
  <2>3. QED  BY <2>1, <2>2
<1>3. Inv /\ [Next]_vars => \A w \in 1..MaxWrites : table >= w => OnlyOldLists(w)
  <2> SUFFICES ASSUME Inv, [Next]_vars, NEW w \in Nat, w <= table
               PROVE  OnlyOldLists(w)
    BY VersionedCacheAssumption DEF EntryInv, Typed
  <2>1. QED
    BY NextStoresLists, VersionedCacheAssumption DEF EntryInv
<1>4. QED
  BY <1>1, <1>2, <1>3, PTL DEF Spec, ListStalenessRunsOut
=============================================================================
