-------------------------- MODULE AssocArrayProofs --------------------------
(***************************************************************************)
(* Theorems about the hash table, for every set of keys and items, every   *)
(* hash, every size of the first table, and every failure of calloc and    *)
(* pthread_create.                                                         *)
(***************************************************************************)
EXTENDS AssocArray, TLAPS, FiniteSetTheorems, SequenceTheorems, WellFoundedInduction

(***************************************************************************)
(* A set of natural numbers has a least member.                            *)
(***************************************************************************)
LEMMA LeastNatural ==
  ASSUME NEW T, T \subseteq Nat, T # {}
  PROVE  \E x \in T : \A y \in T : x <= y
<1> DEFINE R == OpToRel(<, Nat)
<1>1. IsWellFoundedOn(R, Nat)
  BY NatLessThanWellFounded
<1>2. \A x, y \in Nat : <<x, y>> \in R <=> x < y
  BY DEF OpToRel
<1> HIDE DEF R
<1>3. PICK x \in T : \A y \in T : ~ (<<y, x>> \in R)
  BY <1>1, WFMin
<1>4. ASSUME NEW y \in T PROVE x <= y
  <2>1. ~ (y < x)
    BY <1>2, <1>3
  <2> QED
    BY <2>1
<1> QED
  BY <1>4

(***************************************************************************)
(* Induction up to n, with the set of the numbers that have the property.  *)
(***************************************************************************)
LEMMA UpTo ==
  ASSUME NEW n \in Nat, NEW G, 0 \in G, \A i \in 1 .. n : i - 1 \in G => i \in G
  PROVE  0 .. n \subseteq G
<1> DEFINE T == (0 .. n) \ G
<1> SUFFICES ASSUME T # {} PROVE FALSE
  OBVIOUS
<1>1. PICK x \in T : \A y \in T : x <= y
  <2>1. T \subseteq Nat
    OBVIOUS
  <2> HIDE DEF T
  <2> QED
    BY <2>1, LeastNatural
<1>2. x \in 1 .. n /\ x - 1 \in 0 .. n
  BY <1>1
<1>3. x - 1 \in G
  BY <1>1, <1>2
<1> QED
  BY <1>1, <1>2, <1>3

(***************************************************************************)
(* Tables are never empty: 2 ^ n is the number of subsets of 1 .. n.       *)
(***************************************************************************)
LEMMA HashsizePositive == \A n \in Nat : hashsize(n) \in Nat \ {0}
<1> SUFFICES ASSUME NEW n \in Nat PROVE 2 ^ n \in Nat \ {0}
  BY DEF hashsize
<1>1. IsFiniteSet(1 .. n) /\ Cardinality(1 .. n) = n
  BY FS_Interval
<1>2. IsFiniteSet(SUBSET (1 .. n)) /\ Cardinality(SUBSET (1 .. n)) = 2 ^ n
  BY <1>1, FS_SUBSET
<1>3. SUBSET (1 .. n) # {}
  OBVIOUS
<1>4. Cardinality(SUBSET (1 .. n)) \in Nat /\ Cardinality(SUBSET (1 .. n)) # 0
  BY <1>2, <1>3, FS_CardinalityType, FS_EmptySet
<1> QED
  BY <1>2, <1>4

Buckets(n) == 0 .. hashsize(n) - 1

LEMMA BucketLemma ==
  ASSUME NEW a, AssocOK(a), NEW h \in Nat
  PROVE  /\ get_bucket(a, h) \in Buckets(a.hashpower)
         /\ a.expanding => old_bucket(a, h) \in Buckets(a.hashpower - 1)
<1>1. \A n \in Nat : h % hashsize(n) \in Buckets(n)
  <2> TAKE n \in Nat
  <2>1. hashsize(n) \in Nat \ {0}
    BY HashsizePositive
  <2> QED
    BY <2>1 DEF Buckets
<1>2. a.hashpower \in Nat /\ (a.expanding => a.hashpower - 1 \in Nat)
  BY DEF AssocOK
<1> QED
  BY <1>1, <1>2 DEF get_bucket, old_bucket

LEMMA HashType == \A k \in Keys : Hash[k] \in Nat
BY AssocAssumption

-----------------------------------------------------------------------------

LEMMA ChainType ==
  ASSUME NEW a, AssocOK(a), NEW h \in Nat
  PROVE  Chain(a, h) \in Seq(Entries)
BY BucketLemma DEF AssocOK, IsTable, Chain, which_hashtable, Buckets

\* Where a search for a hash begins.
Home(a, h) == IF which_hashtable(a, h) THEN <<"old", old_bucket(a, h)>>
                                       ELSE <<"primary", get_bucket(a, h)>>

SameFields(a, b) ==
  /\ a.hashpower = b.hashpower /\ a.hash_items = b.hash_items
  /\ a.expanding = b.expanding /\ a.expand_bucket = b.expand_bucket

(***************************************************************************)
(* A new chain for one hash changes nothing else.                          *)
(***************************************************************************)
LEMMA WithChainLemma ==
  ASSUME NEW a, AssocOK(a), NEW h \in Nat, NEW chain \in Seq(Entries)
  PROVE  /\ AssocOK(WithChain(a, h, chain)) /\ SameFields(WithChain(a, h, chain), a)
         /\ \A b \in Buckets(a.hashpower) : WithChain(a, h, chain).primary[b] =
              IF Home(a, h) = <<"primary", b>> THEN chain ELSE a.primary[b]
         /\ a.expanding => \A b \in Buckets(a.hashpower - 1) : WithChain(a, h, chain).old[b] =
              IF Home(a, h) = <<"old", b>> THEN chain ELSE a.old[b]
<1> DEFINE w == WithChain(a, h, chain)
<1>1. CASE which_hashtable(a, h)
  <2>1. a.expanding /\ old_bucket(a, h) \in Buckets(a.hashpower - 1)
    BY <1>1, BucketLemma DEF which_hashtable
  <2>2. w = [a EXCEPT !.old = [a.old EXCEPT ![old_bucket(a, h)] = chain]]
    BY <1>1, <2>1 DEF WithChain, AssocOK
  <2> HIDE DEF w
  <2>3. /\ w.old = [a.old EXCEPT ![old_bucket(a, h)] = chain] /\ w.primary = a.primary
        /\ SameFields(w, a) /\ DOMAIN w = DOMAIN a /\ w = [f \in DOMAIN w |-> w[f]]
    BY <2>2 DEF AssocOK, SameFields
  <2>4. AssocOK(w)
    <3>1. IsTable(w.primary, a.hashpower)
      BY <2>3 DEF AssocOK
    <3>2. IsTable(a.old, a.hashpower - 1)
      BY <2>1 DEF AssocOK
    <3> PICK old : old = a.old
      OBVIOUS
    <3>3. IsTable([old EXCEPT ![old_bucket(a, h)] = chain], a.hashpower - 1)
      BY <2>1, <3>2 DEF IsTable, Buckets
    <3>4. IsTable(w.old, a.hashpower - 1)
      BY <2>3, <3>3
    <3> QED
      BY <2>3, <3>1, <3>4 DEF AssocOK, SameFields
  <2>5. Home(a, h) = <<"old", old_bucket(a, h)>>
    BY <1>1 DEF Home
  <2>6. \A b \in Buckets(a.hashpower - 1) : w.old[b] =
          IF Home(a, h) = <<"old", b>> THEN chain ELSE a.old[b]
    <3>1. a.old = [b \in Buckets(a.hashpower - 1) |-> a.old[b]]
      BY <2>1 DEF AssocOK, IsTable, Buckets
    <3>2. \A b : Home(a, h) = <<"old", b>> <=> b = old_bucket(a, h)
      BY <2>5
    <3> QED
      BY <2>3, <3>1, <3>2
  <2>7. \A b \in Buckets(a.hashpower) : Home(a, h) # <<"primary", b>>
    BY <2>5
  <2> QED
    BY <2>3, <2>4, <2>6, <2>7 DEF w
<1>2. CASE ~which_hashtable(a, h)
  <2>1. get_bucket(a, h) \in Buckets(a.hashpower)
    BY BucketLemma
  <2>2. w = [a EXCEPT !.primary = [a.primary EXCEPT ![get_bucket(a, h)] = chain]]
    BY <1>2, <2>1 DEF WithChain, AssocOK
  <2> HIDE DEF w
  <2>3. /\ w.primary = [a.primary EXCEPT ![get_bucket(a, h)] = chain] /\ w.old = a.old
        /\ SameFields(w, a) /\ DOMAIN w = DOMAIN a /\ w = [f \in DOMAIN w |-> w[f]]
    BY <2>2 DEF AssocOK, SameFields
  <2>4. AssocOK(w)
    BY <2>1, <2>3 DEF AssocOK, IsTable, SameFields, Buckets
  <2>5. Home(a, h) = <<"primary", get_bucket(a, h)>>
    BY <1>2 DEF Home
  <2>6. \A b \in Buckets(a.hashpower) : w.primary[b] =
          IF Home(a, h) = <<"primary", b>> THEN chain ELSE a.primary[b]
    BY <2>1, <2>3, <2>5 DEF AssocOK, IsTable, Buckets
  <2>7. \A b : Home(a, h) # <<"old", b>>
    BY <2>5
  <2> QED
    BY <2>3, <2>4, <2>6, <2>7 DEF w
<1> QED
  BY <1>1, <1>2

-----------------------------------------------------------------------------

\* What the loop of the maintenance thread does to the main table.
IsPush(f, a, moved) ==
  f = [i \in 0 .. Len(moved) |->
         IF i = 0 THEN a.primary
         ELSE [f[i - 1] EXCEPT
                 ![get_bucket(a, Hash[moved[i].key])] = <<moved[i]>> \o @]]

(***************************************************************************)
(* The recursion of Pushed defines a function.                             *)
(***************************************************************************)
LEMMA PushedLemma ==
  ASSUME NEW a, NEW moved \in Seq(Entries)
  PROVE  \E f : IsPush(f, a, moved) /\ Pushed(a, moved) = f[Len(moved)]
<1> DEFINE n == Len(moved)
           Step(t, i) == [t EXCEPT ![get_bucket(a, Hash[moved[i].key])] = <<moved[i]>> \o @]
           Sound(f, m) == f = [i \in 0 .. m |-> IF i = 0 THEN a.primary ELSE Step(f[i - 1], i)]
           G == {m \in 0 .. n : \E f : Sound(f, m)}
<1>1. n \in Nat
  OBVIOUS
<1> HIDE DEF Step, n
<1>2. 0 \in G
  <2>1. Sound([i \in 0 .. 0 |-> a.primary], 0)
    OBVIOUS
  <2>2. 0 \in 0 .. n
    BY <1>1
  <2> HIDE DEF Sound
  <2> QED
    BY <2>1, <2>2
<1>3. ASSUME NEW m \in 1 .. n, m - 1 \in G PROVE m \in G
  <2>1. PICK f : Sound(f, m - 1)
    BY <1>3
  <2> DEFINE g == [i \in 0 .. m |-> IF i = m THEN Step(f[m - 1], m) ELSE f[i]]
  <2>2. m - 1 \in Nat /\ m \in Nat /\ m # 0
    BY <1>1
  <2>3. \A i \in 0 .. m : i = m \/ i \in 0 .. m - 1
    BY <2>2
  <2>4. \A i \in 1 .. m : i - 1 \in 0 .. m - 1 /\ i - 1 # m
    BY <2>2
  <2>5. \A i \in 0 .. m - 1 : f[i] = IF i = 0 THEN a.primary ELSE Step(f[i - 1], i)
    BY <2>1
  <2>6. \A i \in 0 .. m : g[i] = IF i = 0 THEN a.primary ELSE Step(g[i - 1], i)
    <3> TAKE i \in 0 .. m
    <3>1. i # 0 => i \in 1 .. m
      BY <2>2
    <3>2. i # 0 => g[i - 1] = f[i - 1]
      BY <2>4, <3>1
    <3>3. CASE i = m
      BY <2>2, <3>2, <3>3
    <3>4. CASE i # m
      BY <2>3, <2>5, <3>2, <3>4
    <3> QED
      BY <3>3, <3>4
  <2>7. Sound(g, m)
    <3> DEFINE e == [i \in 0 .. m |-> IF i = 0 THEN a.primary ELSE Step(g[i - 1], i)]
    <3>1. g = [i \in 0 .. m |-> g[i]]
      OBVIOUS
    <3> HIDE DEF g
    <3>2. g = e
      BY <2>6, <3>1
    <3> QED
      BY <3>2
  <2> HIDE DEF Sound
  <2> QED
    BY <2>7
<1>4. n \in G
  <2> HIDE DEF G
  <2>1. 0 .. n \subseteq G
    BY <1>1, <1>2, <1>3, UpTo
  <2> QED
    BY <1>1, <2>1
<1>5. \E f : IsPush(f, a, moved)
  BY <1>4 DEF IsPush, Step, n
<1> QED
  BY <1>5 DEF Pushed, IsPush

-----------------------------------------------------------------------------

\* Entry e is in chain c, and its key in no other place; key k is not in c.
Once(c, e) == \E i \in DOMAIN c : c[i] = e /\ \A j \in DOMAIN c : c[j].key = e.key => j = i
Absent(c, k) == \A i \in DOMAIN c : c[i].key # k

Prepended(d, x, c) ==
  /\ d \in Seq(Entries)
  /\ \A i \in DOMAIN d : d[i] = x \/ \E j \in DOMAIN c : d[i] = c[j]
  /\ \A k : x.key # k /\ Absent(c, k) => Absent(d, k)
  /\ \A e : x.key # e.key /\ Once(c, e) => Once(d, e)
  /\ Absent(c, x.key) => Once(d, x)

LEMMA PrependLemma ==
  ASSUME NEW c \in Seq(Entries), NEW x \in Entries
  PROVE  Prepended(<<x>> \o c, x, c)
<1> DEFINE d == <<x>> \o c
           n == Len(c)
<1>1. /\ d \in Seq(Entries) /\ Len(d) = n + 1 /\ n \in Nat /\ d[1] = x
      /\ DOMAIN c = 1 .. n /\ DOMAIN d = 1 .. n + 1
      /\ \A i \in 1 .. n : d[i + 1] = c[i]
  OBVIOUS
<1>2. /\ 1 \in 1 .. n + 1
      /\ \A i \in 1 .. n : i + 1 \in 1 .. n + 1 /\ i + 1 # 1
      /\ \A i \in 1 .. n + 1 : i = 1 \/ (i - 1 \in 1 .. n /\ (i - 1) + 1 = i)
  BY <1>1
<1> HIDE DEF d, n
<1>3. \A i \in 1 .. n + 1 : (i = 1 /\ d[i] = x) \/ (i - 1 \in 1 .. n /\ d[i] = c[i - 1])
  BY <1>1, <1>2
<1>4. \A i \in DOMAIN d : d[i] = x \/ \E j \in DOMAIN c : d[i] = c[j]
  BY <1>1, <1>3
<1>5. ASSUME NEW k, x.key # k, Absent(c, k) PROVE Absent(d, k)
  BY <1>1, <1>3, <1>5 DEF Absent
<1>6. ASSUME NEW e, x.key # e.key, Once(c, e) PROVE Once(d, e)
  <2>1. PICK i \in 1 .. n : c[i] = e /\ \A j \in 1 .. n : c[j].key = e.key => j = i
    BY <1>1, <1>6 DEF Once
  <2>2. \A j \in 1 .. n + 1 : d[j].key = e.key => j = i + 1
    <3> SUFFICES ASSUME NEW j \in 1 .. n + 1, d[j].key = e.key PROVE j = i + 1
      OBVIOUS
    <3>1. j - 1 \in 1 .. n /\ d[j] = c[j - 1]
      BY <1>3, <1>6
    <3>2. j - 1 = i
      BY <2>1, <3>1
    <3> QED
      BY <1>1, <3>2
  <2>3. i + 1 \in 1 .. n + 1 /\ d[i + 1] = e
    BY <1>1, <1>2, <2>1
  <2> QED
    BY <1>1, <2>2, <2>3 DEF Once
<1>7. ASSUME Absent(c, x.key) PROVE Once(d, x)
  BY <1>1, <1>2, <1>3, <1>7 DEF Absent, Once
<1> QED
  BY <1>1, <1>4, <1>5, <1>6, <1>7 DEF d, Prepended

LEMMA PushTypes ==
  ASSUME NEW a, AssocOK(a), NEW moved \in Seq(Entries), NEW f, IsPush(f, a, moved)
  PROVE  /\ f[0] = a.primary
         /\ \A i \in 0 .. Len(moved) : IsTable(f[i], a.hashpower)
         /\ \A i \in 1 .. Len(moved) :
              LET h == get_bucket(a, Hash[moved[i].key]) IN
              /\ i - 1 \in 0 .. Len(moved)
              /\ moved[i] \in Entries /\ h \in Buckets(a.hashpower)
              /\ \A b \in Buckets(a.hashpower) :
                   f[i][b] = IF b = h THEN <<moved[i]>> \o f[i - 1][b] ELSE f[i - 1][b]
<1> DEFINE n == Len(moved)
           B == Buckets(a.hashpower)
           h(i) == get_bucket(a, Hash[moved[i].key])
           G == {i \in 0 .. n : IsTable(f[i], a.hashpower)}
<1>1. n \in Nat /\ \A i \in 1 .. n : i - 1 \in 0 .. n /\ i \in 0 .. n /\ i # 0
  OBVIOUS
<1>2. \A i \in 1 .. n : moved[i] \in Entries /\ h(i) \in B
  <2> TAKE i \in 1 .. n
  <2>1. moved[i] \in Entries
    OBVIOUS
  <2>2. Hash[moved[i].key] \in Nat
    BY <2>1, HashType DEF Entries
  <2> QED
    BY <2>1, <2>2, BucketLemma
<1>3. f[0] = a.primary /\ \A i \in 1 .. n : f[i] = [f[i - 1] EXCEPT ![h(i)] = <<moved[i]>> \o f[i - 1][h(i)]]
  <2>1. 0 \in 0 .. n
    BY <1>1
  <2>2. f[0] = a.primary
    BY <2>1 DEF IsPush
  <2>3. ASSUME NEW i \in 1 .. n
        PROVE  f[i] = [f[i - 1] EXCEPT ![h(i)] = <<moved[i]>> \o f[i - 1][h(i)]]
    BY <1>1 DEF IsPush
  <2> QED
    BY <2>2, <2>3
<1> HIDE DEF n, h, B
<1>4. ASSUME NEW i \in 1 .. n, i - 1 \in G
      PROVE  /\ i \in G
             /\ \A b \in B : f[i][b] = IF b = h(i) THEN <<moved[i]>> \o f[i - 1][b] ELSE f[i - 1][b]
  <2>1. f[i - 1] = [b \in B |-> f[i - 1][b]] /\ \A b \in B : f[i - 1][b] \in Seq(Entries)
    BY <1>4 DEF IsTable, B, Buckets
  <2>2. \A b \in B : f[i][b] = IF b = h(i) THEN <<moved[i]>> \o f[i - 1][b] ELSE f[i - 1][b]
    BY <1>2, <1>3, <2>1
  <2>3. <<moved[i]>> \o f[i - 1][h(i)] \in Seq(Entries)
    BY <1>2, <2>1, PrependLemma DEF Prepended
  <2>4. f[i] = [b \in B |-> f[i][b]] /\ \A b \in B : f[i][b] \in Seq(Entries)
    BY <1>2, <1>3, <2>1, <2>2, <2>3
  <2> QED
    BY <1>1, <2>2, <2>4 DEF IsTable, B, Buckets
<1>5. 0 \in G
  BY <1>1, <1>3 DEF AssocOK
<1>6. 0 .. n \subseteq G
  <2> HIDE DEF G
  <2> QED
    BY <1>1, <1>4, <1>5, UpTo
<1>7. \A i \in 1 .. n : i - 1 \in G
  BY <1>1, <1>6
<1> QED
  BY <1>1, <1>2, <1>3, <1>4, <1>6, <1>7 DEF n, h, B

\* Main table t of a after the chain moved has been pushed: it holds what it held
\* and the chain, every entry of that in its bucket; a key that was once in
\* either is there once.
HoldsBoth(t, a, moved) ==
  /\ IsTable(t, a.hashpower)
  /\ \A b \in Buckets(a.hashpower) : \A i \in DOMAIN t[b] :
       \/ \E j \in DOMAIN a.primary[b] : t[b][i] = a.primary[b][j]
       \/ \E j \in DOMAIN moved : t[b][i] = moved[j] /\ get_bucket(a, Hash[moved[j].key]) = b
  /\ \A k : \A b \in Buckets(a.hashpower) :
       Absent(moved, k) /\ Absent(a.primary[b], k) => Absent(t[b], k)
  /\ \A e : \A b \in Buckets(a.hashpower) :
       Absent(moved, e.key) /\ Once(a.primary[b], e) => Once(t[b], e)
  /\ \A e : \A b \in Buckets(a.hashpower) :
       /\ b = get_bucket(a, Hash[e.key])
       /\ Once(moved, e) /\ Absent(a.primary[b], e.key)
       => Once(t[b], e)

(***************************************************************************)
(* The loop of the maintenance thread pushes the whole chain.              *)
(***************************************************************************)
LEMMA PushContents ==
  ASSUME NEW a, AssocOK(a), NEW moved \in Seq(Entries)
  PROVE  HoldsBoth(Pushed(a, moved), a, moved)
<1> DEFINE t == Pushed(a, moved)
           B == Buckets(a.hashpower)
           n == Len(moved)
           h(e) == get_bucket(a, Hash[e.key])
           p == a.primary
<1>1. PICK f : IsPush(f, a, moved) /\ t = f[n]
  BY PushedLemma
<1>2. /\ f[0] = p /\ \A i \in 0 .. n : IsTable(f[i], a.hashpower)
      /\ \A i \in 1 .. n :
           /\ i - 1 \in 0 .. n /\ moved[i] \in Entries /\ h(moved[i]) \in B
           /\ \A b \in B : f[i][b] = IF b = h(moved[i]) THEN <<moved[i]>> \o f[i - 1][b]
                                                        ELSE f[i - 1][b]
  BY <1>1, PushTypes
<1>3. n \in Nat /\ DOMAIN moved = 1 .. n /\ n \in 0 .. n /\ 0 \in 0 .. n
      /\ \A i \in 1 .. n : i \in 0 .. n
  OBVIOUS
<1>4. \A i \in 0 .. n, b \in B : f[i][b] \in Seq(Entries)
  BY <1>2 DEF IsTable, Buckets
<1> HIDE DEF t, B, n, h, p
<1>5. IsTable(t, a.hashpower)
  BY <1>1, <1>2, <1>3
<1>6. \A b \in B : \A i \in DOMAIN t[b] :
        \/ \E j \in DOMAIN p[b] : t[b][i] = p[b][j]
        \/ \E j \in DOMAIN moved : t[b][i] = moved[j] /\ h(moved[j]) = b
  <2> DEFINE From(e, b) == \/ \E j \in DOMAIN p[b] : e = p[b][j]
                           \/ \E j \in DOMAIN moved : e = moved[j] /\ h(moved[j]) = b
             G == {m \in 0 .. n : \A b \in B : \A i \in DOMAIN f[m][b] : From(f[m][b][i], b)}
  <2>1. 0 \in G
    BY <1>2, <1>3
  <2>2. ASSUME NEW m \in 1 .. n, m - 1 \in G PROVE m \in G
    <3> SUFFICES ASSUME NEW b \in B, NEW i \in DOMAIN f[m][b] PROVE From(f[m][b][i], b)
      BY <1>3
    <3> HIDE DEF From
    <3>1. CASE b # h(moved[m])
      BY <1>2, <2>2, <3>1
    <3>2. CASE b = h(moved[m])
      <4>1. f[m][b] = <<moved[m]>> \o f[m - 1][b] /\ f[m - 1][b] \in Seq(Entries)
        BY <1>2, <1>4, <3>2
      <4>2. Prepended(f[m][b], moved[m], f[m - 1][b])
        BY <1>2, <4>1, PrependLemma
      <4>3. From(moved[m], b)
        BY <1>3, <3>2 DEF From
      <4> QED
        BY <2>2, <4>2, <4>3 DEF Prepended
    <3> QED
      BY <3>1, <3>2
  <2>3. 0 .. n \subseteq G
    <3> HIDE DEF G
    <3> QED
      BY <1>3, <2>1, <2>2, UpTo
  <2> QED
    BY <1>1, <1>3, <2>3
<1>7. ASSUME NEW k, Absent(moved, k), NEW b \in B
      PROVE  /\ Absent(p[b], k) => Absent(t[b], k)
             /\ \A e : e.key = k /\ Once(p[b], e) => Once(t[b], e)
  <2> DEFINE G == {m \in 0 .. n : /\ Absent(p[b], k) => Absent(f[m][b], k)
                                  /\ \A e : e.key = k /\ Once(p[b], e) => Once(f[m][b], e)}
  <2>1. 0 \in G
    BY <1>2, <1>3
  <2>2. ASSUME NEW m \in 1 .. n, m - 1 \in G PROVE m \in G
    <3>1. moved[m].key # k
      BY <1>3, <1>7 DEF Absent
    <3>2. CASE b # h(moved[m])
      BY <1>2, <1>3, <2>2, <3>2
    <3>3. CASE b = h(moved[m])
      <4>1. f[m][b] = <<moved[m]>> \o f[m - 1][b] /\ f[m - 1][b] \in Seq(Entries)
        BY <1>2, <1>4, <3>3
      <4>2. Prepended(f[m][b], moved[m], f[m - 1][b])
        BY <1>2, <4>1, PrependLemma
      <4> QED
        BY <1>3, <2>2, <3>1, <4>2 DEF Prepended
    <3> QED
      BY <3>2, <3>3
  <2>3. 0 .. n \subseteq G
    <3> HIDE DEF G
    <3> QED
      BY <1>3, <2>1, <2>2, UpTo
  <2> QED
    BY <1>1, <1>3, <2>3
<1>8. ASSUME NEW e, Once(moved, e), Absent(p[h(e)], e.key)
      PROVE  Once(t[h(e)], e)
  <2>1. PICK s \in 1 .. n : moved[s] = e /\ \A j \in 1 .. n : moved[j].key = e.key => j = s
    BY <1>3, <1>8 DEF Once
  <2> DEFINE b == h(e)
             G == {m \in 0 .. n : IF m < s THEN Absent(f[m][b], e.key) ELSE Once(f[m][b], e)}
  <2>2. b \in B /\ b = h(e)
    BY <1>2, <2>1
  <2> HIDE DEF b
  <2>3. 0 \in G
    BY <1>2, <1>3, <1>8, <2>1, <2>2
  <2>4. ASSUME NEW m \in 1 .. n, m - 1 \in G PROVE m \in G
    <3>1. f[m - 1][b] \in Seq(Entries)
      BY <1>2, <1>4, <2>2
    <3>2. CASE m = s
      <4>1. Absent(f[m - 1][b], e.key) /\ f[m][b] = <<e>> \o f[m - 1][b]
        <5>1. m - 1 < s
          BY <3>2
        <5>2. moved[m] = e
          BY <2>1, <3>2
        <5>3. f[m][b] = IF b = h(moved[m]) THEN <<moved[m]>> \o f[m - 1][b] ELSE f[m - 1][b]
          BY <1>2, <2>2
        <5> QED
          BY <2>2, <2>4, <5>1, <5>2, <5>3
      <4>2. Prepended(f[m][b], e, f[m - 1][b])
        BY <1>2, <2>1, <3>1, <4>1, PrependLemma
      <4>3. Once(f[m][b], e)
        BY <4>1, <4>2 DEF Prepended
      <4>4. ~ (m < s) /\ m \in 0 .. n
        BY <1>3, <3>2
      <4> QED
        BY <4>3, <4>4
    <3>3. CASE m # s
      <4>1. moved[m].key # e.key /\ moved[m] \in Entries
        BY <1>2, <2>1, <3>3
      <4>2. f[m][b] \in {f[m - 1][b], <<moved[m]>> \o f[m - 1][b]}
        BY <1>2, <2>2
      <4>3. f[m][b] = f[m - 1][b] \/ Prepended(f[m][b], moved[m], f[m - 1][b])
        BY <3>1, <4>1, <4>2, PrependLemma
      <4>4. m < s <=> m - 1 < s
        BY <3>3
      <4>5. m \in 0 .. n /\ m - 1 \in 0 .. n
        BY <1>2, <1>3
      <4> QED
        BY <2>4, <4>1, <4>3, <4>4, <4>5 DEF Prepended
    <3> QED
      BY <3>2, <3>3
  <2>5. 0 .. n \subseteq G
    <3> HIDE DEF G
    <3> QED
      BY <1>3, <2>3, <2>4, UpTo
  <2>6. n \in G /\ ~(n < s)
    BY <1>3, <2>1, <2>5
  <2> QED
    BY <1>1, <2>2, <2>6
<1> QED
  BY <1>5, <1>6, <1>7, <1>8 DEF HoldsBoth, t, B, n, h, p

-----------------------------------------------------------------------------

\* No key is a proper prefix of another one with the same hash.
NoPrefixes == \A k, l \in Keys : Hash[k] = Hash[l] /\ <<k, l>> \in SameBytes => k = l

(***************************************************************************)
(* The first match is in the chain; without prefixes it is the entry of    *)
(* the key.                                                                *)
(***************************************************************************)
LEMMA FirstMatchLemma ==
  ASSUME NEW c \in Seq(Entries), NEW k \in Keys
  PROVE  /\ FirstMatch(c, k) \in DOMAIN c \cup {0}
         /\ NoPrefixes /\ Absent(c, k) => FirstMatch(c, k) = 0
         /\ NoPrefixes => \A e : e.key = k /\ Once(c, e) =>
              FirstMatch(c, k) \in DOMAIN c /\ FirstMatch(c, k) # 0 /\ c[FirstMatch(c, k)] = e
<1> DEFINE hits == {i \in DOMAIN c : IsMatch(c[i], k)}
           first == CHOOSE i \in hits : \A j \in hits : i <= j
<1>1. DOMAIN c = 1 .. Len(c) /\ Len(c) \in Nat /\ 0 \notin DOMAIN c
      /\ \A i \in DOMAIN c : c[i].key \in Keys
  <2>1. DOMAIN c = 1 .. Len(c) /\ Len(c) \in Nat /\ \A i \in 1 .. Len(c) : c[i] \in Entries
    OBVIOUS
  <2> QED
    BY <2>1 DEF Entries
<1>2. FirstMatch(c, k) = IF hits = {} THEN 0 ELSE first
  BY DEF FirstMatch
<1>3. hits \subseteq Nat /\ hits \subseteq DOMAIN c
  BY <1>1
<1> HIDE DEF hits
<1>4. hits # {} => first \in hits
  <2> SUFFICES ASSUME hits # {} PROVE first \in hits
    OBVIOUS
  <2>1. \E i \in hits : \A j \in hits : i <= j
    BY <1>3, LeastNatural
  <2> QED
    BY <2>1
<1> HIDE DEF first
<1>5. NoPrefixes => \A i \in DOMAIN c : i \in hits <=> c[i].key = k
  BY <1>1, AssocAssumption DEF hits, IsMatch, NoPrefixes
<1>6. NoPrefixes /\ Absent(c, k) => hits = {}
  BY <1>3, <1>5 DEF Absent
<1>7. ASSUME NoPrefixes, NEW e, e.key = k, Once(c, e)
      PROVE  hits # {} /\ \A i \in hits : c[i] = e
  BY <1>3, <1>5, <1>7 DEF Once
<1> QED
  BY <1>1, <1>2, <1>3, <1>4, <1>6, <1>7

Removed(r, c, i) ==
  /\ r \in Seq(Entries)
  /\ \A j \in DOMAIN r : \E m \in DOMAIN c : r[j] = c[m]
  /\ \A k : Absent(c, k) => Absent(r, k)
  /\ \A e : c[i].key # e.key /\ Once(c, e) => Once(r, e)
  /\ Once(c, c[i]) => Absent(r, c[i].key)

LEMMA RemoveLemma ==
  ASSUME NEW c \in Seq(Entries), NEW i \in DOMAIN c
  PROVE  Removed(RemoveAt(c, i), c, i)
<1> DEFINE r == RemoveAt(c, i)
           n == Len(c)
<1>1. /\ DOMAIN c = 1 .. n /\ n \in Nat /\ i \in 1 .. n /\ n \in Int /\ i - 1 \in Int /\ i + 1 \in Int
      /\ \A j \in 1 .. i - 1 : c[j] \in Entries
      /\ \A j \in i + 1 .. n : c[j] \in Entries
  OBVIOUS
<1>2. /\ SubSeq(c, 1, i - 1) \in Seq(Entries) /\ Len(SubSeq(c, 1, i - 1)) = i - 1
      /\ \A j \in 1 .. i - 1 : SubSeq(c, 1, i - 1)[j] = c[j]
  BY <1>1
<1>3. /\ SubSeq(c, i + 1, n) \in Seq(Entries) /\ Len(SubSeq(c, i + 1, n)) = n - i
      /\ \A j \in 1 .. n - i : SubSeq(c, i + 1, n)[j] = c[i + j]
  BY <1>1
<1>4. r = SubSeq(c, 1, i - 1) \o SubSeq(c, i + 1, n)
  BY DEF RemoveAt
<1> HIDE DEF r
<1>5. /\ r \in Seq(Entries) /\ Len(r) = n - 1 /\ DOMAIN r = 1 .. n - 1
      /\ \A j \in 1 .. n - 1 : r[j] = IF j < i THEN c[j] ELSE c[j + 1]
  <2> DEFINE p == SubSeq(c, 1, i - 1)
             q == SubSeq(c, i + 1, n)
  <2>1. /\ p \in Seq(Entries) /\ Len(p) = i - 1 /\ \A j \in 1 .. i - 1 : p[j] = c[j]
        /\ q \in Seq(Entries) /\ Len(q) = n - i /\ \A j \in 1 .. n - i : q[j] = c[i + j]
        /\ r = p \o q
    BY <1>2, <1>3, <1>4
  <2> HIDE DEF p, q, n
  <2>2. /\ r \in Seq(Entries) /\ Len(r) = (i - 1) + (n - i)
        /\ \A j \in 1 .. (i - 1) + (n - i) : r[j] = IF j <= i - 1 THEN p[j] ELSE q[j - (i - 1)]
    BY <2>1, ConcatProperties
  <2>3. (i - 1) + (n - i) = n - 1 /\ DOMAIN r = 1 .. Len(r)
    BY <1>1, <2>2
  <2>4. ASSUME NEW j \in 1 .. n - 1 PROVE r[j] = IF j < i THEN c[j] ELSE c[j + 1]
    <3>1. r[j] = IF j <= i - 1 THEN p[j] ELSE q[j - (i - 1)]
      BY <2>2, <2>3
    <3>2. CASE j < i
      BY <1>1, <2>1, <3>1, <3>2
    <3>3. CASE ~ (j < i)
      <4>1. j - (i - 1) \in 1 .. n - i /\ i + (j - (i - 1)) = j + 1 /\ ~ (j <= i - 1)
        BY <1>1, <3>3
      <4> QED
        BY <2>1, <3>1, <3>3, <4>1
    <3> QED
      BY <3>2, <3>3
  <2> QED
    BY <2>2, <2>3, <2>4
<1> HIDE DEF n
<1>6. \A j \in 1 .. n - 1 : \/ j < i /\ j \in 1 .. n /\ r[j] = c[j]
                            \/ j >= i /\ j + 1 \in 1 .. n /\ j + 1 # i /\ r[j] = c[j + 1]
  BY <1>1, <1>5
<1>7. \A m \in 1 .. n : m # i => \E j \in 1 .. n - 1 : r[j] = c[m] /\ j = IF m < i THEN m ELSE m - 1
  <2> SUFFICES ASSUME NEW m \in 1 .. n, m # i
               PROVE  \E j \in 1 .. n - 1 : r[j] = c[m] /\ j = IF m < i THEN m ELSE m - 1
    OBVIOUS
  <2>1. CASE m < i
    BY <1>1, <1>5, <2>1
  <2>2. CASE ~ (m < i)
    <3>1. m - 1 \in 1 .. n - 1 /\ ~ (m - 1 < i) /\ (m - 1) + 1 = m
      BY <1>1, <2>2
    <3> QED
      BY <1>5, <2>2, <3>1
  <2> QED
    BY <2>1, <2>2
<1>8. \A j \in 1 .. n - 1 : \E m \in 1 .. n : r[j] = c[m] /\ m # i
  BY <1>1, <1>6
<1>9. ASSUME NEW k, Absent(c, k) PROVE Absent(r, k)
  BY <1>1, <1>5, <1>8, <1>9 DEF Absent
<1>10. ASSUME NEW e, c[i].key # e.key, Once(c, e) PROVE Once(r, e)
  <2>1. PICK m \in 1 .. n : c[m] = e /\ \A l \in 1 .. n : c[l].key = e.key => l = m
    BY <1>1, <1>10 DEF Once
  <2>2. m # i
    BY <1>10, <2>1
  <2>3. PICK j \in 1 .. n - 1 : r[j] = c[m] /\ j = IF m < i THEN m ELSE m - 1
    BY <1>7, <2>2
  <2>4. \A l \in 1 .. n - 1 : r[l].key = e.key => l = j
    <3> SUFFICES ASSUME NEW l \in 1 .. n - 1, r[l].key = e.key PROVE l = j
      OBVIOUS
    <3>1. CASE l < i
      <4>1. l \in 1 .. n /\ c[l].key = e.key
        BY <1>6, <3>1
      <4>2. l = m
        BY <2>1, <4>1
      <4> QED
        BY <2>3, <3>1, <4>2
    <3>2. CASE l >= i
      <4>1. l + 1 \in 1 .. n /\ c[l + 1].key = e.key
        BY <1>1, <1>6, <3>2
      <4>2. l + 1 = m
        BY <2>1, <4>1
      <4> QED
        BY <1>1, <2>3, <3>2, <4>2
    <3> QED
      BY <1>1, <3>1, <3>2
  <2> QED
    BY <1>5, <2>1, <2>3, <2>4 DEF Once
<1>11. ASSUME Once(c, c[i]) PROVE Absent(r, c[i].key)
  BY <1>1, <1>5, <1>8, <1>11 DEF Once, Absent
<1> QED
  BY <1>1, <1>5, <1>8, <1>9, <1>10, <1>11 DEF Removed, r

-----------------------------------------------------------------------------

LEMMA KeyType ==
  ASSUME NEW c \in Seq(Entries), NEW i \in DOMAIN c
  PROVE  c[i] \in Entries /\ c[i].it \in Items /\ c[i].key \in Keys /\ c[i] = Entry(c[i].it, c[i].key)
<1>1. c[i] \in Entries
  OBVIOUS
<1> QED
  BY <1>1 DEF Entries, Entry

\* InItsPlace, for each of the two tables.
InPlace(a) ==
  /\ \A b \in Buckets(a.hashpower) : \A i \in DOMAIN a.primary[b] :
       Home(a, Hash[a.primary[b][i].key]) = <<"primary", b>>
  /\ a.expanding => \A b \in Buckets(a.hashpower - 1) : \A i \in DOMAIN a.old[b] :
       Home(a, Hash[a.old[b][i].key]) = <<"old", b>>

\* A search of every key comes upon its item and upon no other entry of the key.
Holds(a, map) ==
  \A k \in Keys :
    IF map[k] = NULL THEN Absent(Chain(a, Hash[k]), k)
                     ELSE Once(Chain(a, Hash[k]), Entry(map[k], k))

SameTables(a, b) ==
  /\ a.primary = b.primary /\ a.old = b.old /\ a.hashpower = b.hashpower
  /\ a.expanding = b.expanding /\ a.expand_bucket = b.expand_bucket

LEMMA SameTablesLemma ==
  ASSUME NEW a, NEW b, SameTables(a, b)
  PROVE  /\ \A h : Chain(a, h) = Chain(b, h) /\ Home(a, h) = Home(b, h)
         /\ InPlace(a) <=> InPlace(b)
<1>1. \A h : Chain(a, h) = Chain(b, h) /\ Home(a, h) = Home(b, h)
  BY DEF SameTables, Chain, Home, which_hashtable, old_bucket, get_bucket
<1>2. InPlace(a) <=> InPlace(b)
  BY <1>1 DEF SameTables, InPlace
<1> QED
  BY <1>1, <1>2

LEMMA CountLemma ==
  ASSUME NEW a, AssocOK(a), NEW x \in 0 .. CounterMod - 1, NEW b,
         b = [a EXCEPT !.hash_items = x]
  PROVE  AssocOK(b) /\ SameTables(a, b) /\ b.hash_items = x
<1>1. /\ b.hash_items = x /\ SameTables(a, b) /\ DOMAIN b = DOMAIN a
      /\ b = [f \in DOMAIN b |-> b[f]]
  BY DEF AssocOK, SameTables
<1> QED
  BY <1>1 DEF AssocOK, SameTables

\* The entries of a chain all begin their search where the chain is.
LEMMA ChainInPlace ==
  ASSUME NEW a, AssocOK(a), InPlace(a), NEW h \in Nat
  PROVE  \A i \in DOMAIN Chain(a, h) : Home(a, Hash[Chain(a, h)[i].key]) = Home(a, h)
BY BucketLemma DEF InPlace, Chain, Home, which_hashtable

LEMMA SetChainLemma ==
  ASSUME NEW a, AssocOK(a), NEW h \in Nat, NEW chain \in Seq(Entries),
         NEW w, w = WithChain(a, h, chain)
  PROVE  /\ AssocOK(w) /\ SameFields(w, a)
         /\ \A g \in Nat : Home(w, g) = Home(a, g)
         /\ \A g \in Nat : Chain(w, g) = IF Home(a, g) = Home(a, h) THEN chain ELSE Chain(a, g)
         /\ InPlace(a) /\ (\A i \in DOMAIN chain : Home(a, Hash[chain[i].key]) = Home(a, h))
              => InPlace(w)
<1>1. /\ AssocOK(w) /\ SameFields(w, a)
      /\ \A b \in Buckets(a.hashpower) : w.primary[b] =
           IF Home(a, h) = <<"primary", b>> THEN chain ELSE a.primary[b]
      /\ a.expanding => \A b \in Buckets(a.hashpower - 1) : w.old[b] =
           IF Home(a, h) = <<"old", b>> THEN chain ELSE a.old[b]
  BY WithChainLemma
<1>2. \A g : /\ which_hashtable(w, g) = which_hashtable(a, g)
             /\ old_bucket(w, g) = old_bucket(a, g) /\ get_bucket(w, g) = get_bucket(a, g)
  BY <1>1 DEF SameFields, which_hashtable, old_bucket, get_bucket
<1>3. \A g \in Nat : Home(w, g) = Home(a, g)
  BY <1>2 DEF Home
<1>4. ASSUME NEW g \in Nat
      PROVE  Chain(w, g) = IF Home(a, g) = Home(a, h) THEN chain ELSE Chain(a, g)
  <2>1. CASE which_hashtable(a, g)
    <3>1. a.expanding /\ old_bucket(a, g) \in Buckets(a.hashpower - 1)
      BY <2>1, BucketLemma DEF which_hashtable
    <3>2. /\ Home(a, g) = <<"old", old_bucket(a, g)>> /\ Chain(a, g) = a.old[old_bucket(a, g)]
          /\ Chain(w, g) = w.old[old_bucket(a, g)]
      BY <1>2, <2>1 DEF Home, Chain
    <3> QED
      BY <1>1, <3>1, <3>2
  <2>2. CASE ~which_hashtable(a, g)
    <3>1. get_bucket(a, g) \in Buckets(a.hashpower)
      BY BucketLemma
    <3>2. /\ Home(a, g) = <<"primary", get_bucket(a, g)>>
          /\ Chain(a, g) = a.primary[get_bucket(a, g)]
          /\ Chain(w, g) = w.primary[get_bucket(a, g)]
      BY <1>2, <2>2 DEF Home, Chain
    <3> QED
      BY <1>1, <3>1, <3>2
  <2> QED
    BY <2>1, <2>2
<1>5. ASSUME InPlace(a), \A i \in DOMAIN chain : Home(a, Hash[chain[i].key]) = Home(a, h)
      PROVE  InPlace(w)
  <2>1. ASSUME NEW b \in Buckets(a.hashpower), NEW i \in DOMAIN w.primary[b]
        PROVE  Home(w, Hash[w.primary[b][i].key]) = <<"primary", b>>
    <3>1. w.primary[b][i].key \in Keys
      <4>1. w.primary[b] \in Seq(Entries)
        BY <1>1, <2>1 DEF AssocOK, IsTable, Buckets, SameFields
      <4> QED
        BY <2>1, <4>1, KeyType
    <3>2. Home(a, Hash[w.primary[b][i].key]) = <<"primary", b>>
      BY <1>1, <1>5, <2>1 DEF InPlace
    <3> QED
      BY <1>3, <3>1, <3>2, HashType
  <2>2. ASSUME a.expanding, NEW b \in Buckets(a.hashpower - 1), NEW i \in DOMAIN w.old[b]
        PROVE  Home(w, Hash[w.old[b][i].key]) = <<"old", b>>
    <3>1. w.old[b][i].key \in Keys
      <4>1. w.old[b] \in Seq(Entries)
        BY <1>1, <2>2 DEF AssocOK, IsTable, Buckets, SameFields
      <4> QED
        BY <2>2, <4>1, KeyType
    <3>2. Home(a, Hash[w.old[b][i].key]) = <<"old", b>>
      BY <1>1, <1>5, <2>2 DEF InPlace
    <3> QED
      BY <1>3, <3>1, <3>2, HashType
  <2> QED
    BY <1>1, <2>1, <2>2 DEF InPlace, SameFields
<1> QED
  BY <1>1, <1>3, <1>4, <1>5

-----------------------------------------------------------------------------

LEMMA CounterType == CounterMod \in Nat \ {0} /\ \A x \in Int : x % CounterMod \in 0 .. CounterMod - 1
<1>1. CounterMod \in Nat \ {0}
  BY AssocAssumption
<1> QED
  BY <1>1

LEMMA EmptyTableLemma ==
  ASSUME NEW n \in Nat
  PROVE  IsTable(EmptyTable(n), n) /\ \A b \in Buckets(n) : EmptyTable(n)[b] = <<>>
<1>1. <<>> \in Seq(Entries)
  OBVIOUS
<1> QED
  BY <1>1 DEF IsTable, EmptyTable, Buckets

(***************************************************************************)
(* assoc_expand changes no chain: if it succeeds they are all in the old   *)
(* table, and if it fails the main table is as it was.                     *)
(***************************************************************************)
LEMMA ExpandLemma ==
  ASSUME NEW a, AssocOK(a), ~a.expanding, NEW b \in assoc_expand(a)
  PROVE  /\ AssocOK(b) /\ b.hash_items = a.hash_items
         /\ IF b.expanding THEN b.hashpower = a.hashpower + 1 /\ b.expand_bucket = 0
                           ELSE b.hashpower = a.hashpower
         /\ \A g \in Nat : Chain(b, g) = Chain(a, g)
         /\ InPlace(a) => InPlace(b)
<1>1. PICK nomem \in CallocFails, nothread \in ThreadFails :
        b = IF nomem \/ nothread
            THEN [a EXCEPT !.expand_bucket = IF nomem THEN @ ELSE 0]
            ELSE [a EXCEPT !.old = a.primary,
                           !.primary = EmptyTable(a.hashpower + 1),
                           !.hashpower = @ + 1,
                           !.expanding = TRUE,
                           !.expand_bucket = 0]
  BY DEF assoc_expand
<1>2. CASE nomem \/ nothread
  <2>1. /\ b.expand_bucket \in {0, a.expand_bucket} /\ DOMAIN b = DOMAIN a
        /\ b = [f \in DOMAIN b |-> b[f]] /\ b.primary = a.primary /\ b.old = a.old
        /\ b.hashpower = a.hashpower /\ b.hash_items = a.hash_items /\ b.expanding = a.expanding
    BY <1>1, <1>2 DEF AssocOK
  <2>2. AssocOK(b)
    BY <2>1 DEF AssocOK
  <2>3. \A g : Chain(b, g) = Chain(a, g) /\ Home(b, g) = Home(a, g)
    BY <2>1 DEF Chain, Home, which_hashtable, get_bucket, old_bucket
  <2>4. InPlace(a) => InPlace(b)
    BY <2>1, <2>3 DEF InPlace
  <2> QED
    BY <2>1, <2>2, <2>3, <2>4
<1>3. CASE ~ (nomem \/ nothread)
  <2> DEFINE new == EmptyTable(a.hashpower + 1)
  <2>1. a.hashpower \in Nat /\ a.hashpower + 1 \in Nat /\ (a.hashpower + 1) - 1 = a.hashpower
    BY DEF AssocOK
  <2>2. IsTable(new, a.hashpower + 1) /\ \A x \in Buckets(a.hashpower + 1) : new[x] = <<>>
    BY <2>1, EmptyTableLemma
  <2> HIDE DEF new
  <2>3. /\ b.expand_bucket = 0 /\ DOMAIN b = DOMAIN a /\ b = [f \in DOMAIN b |-> b[f]]
        /\ b.primary = new /\ b.old = a.primary /\ b.expanding = TRUE
        /\ b.hashpower = a.hashpower + 1 /\ b.hash_items = a.hash_items
    BY <1>1, <1>3 DEF AssocOK, new
  <2>4. AssocOK(b)
    <3>1. /\ b.hashpower \in Nat /\ b.hashpower > 0 /\ b.hashpower - 1 = a.hashpower
          /\ b.expand_bucket \in Nat
      BY <2>1, <2>3
    <3>2. IsTable(b.primary, b.hashpower) /\ IsTable(b.old, b.hashpower - 1)
      BY <2>2, <2>3, <3>1 DEF AssocOK
    <3> QED
      BY <2>3, <3>1, <3>2 DEF AssocOK
  <2>5. ASSUME NEW g \in Nat
        PROVE  /\ old_bucket(b, g) = get_bucket(a, g) /\ which_hashtable(b, g)
               /\ ~which_hashtable(a, g)
    <3>1. old_bucket(b, g) = get_bucket(a, g)
      BY <2>1, <2>3 DEF old_bucket, get_bucket
    <3>2. get_bucket(a, g) \in Nat
      BY BucketLemma, HashsizePositive, <2>1 DEF Buckets
    <3> QED
      BY <2>3, <3>1, <3>2 DEF which_hashtable
  <2>6. \A g \in Nat : Chain(b, g) = Chain(a, g)
    BY <2>3, <2>5 DEF Chain
  <2>7. ASSUME InPlace(a) PROVE InPlace(b)
    <3>1. ASSUME NEW x \in Buckets(a.hashpower), NEW i \in DOMAIN a.primary[x]
          PROVE  Home(b, Hash[a.primary[x][i].key]) = <<"old", x>>
      <4>1. a.primary[x] \in Seq(Entries)
        BY DEF AssocOK, IsTable, Buckets
      <4>2. Hash[a.primary[x][i].key] \in Nat
        BY <3>1, <4>1, KeyType, HashType
      <4>3. Home(a, Hash[a.primary[x][i].key]) = <<"primary", x>>
        BY <2>7, <3>1 DEF InPlace
      <4>4. get_bucket(a, Hash[a.primary[x][i].key]) = x
        BY <2>5, <4>2, <4>3 DEF Home
      <4> QED
        BY <2>5, <4>2, <4>4 DEF Home
    <3>2. \A x \in Buckets(b.hashpower) : DOMAIN b.primary[x] = {}
      BY <2>2, <2>3
    <3> QED
      BY <2>1, <2>3, <3>1, <3>2 DEF InPlace
  <2> QED
    BY <2>3, <2>4, <2>6, <2>7
<1> QED
  BY <1>2, <1>3

\* An insertion goes on with the expansion that is under way or begins one.
ExpandsOnce(a, b) ==
  /\ a.expanding => /\ b.expanding /\ b.hashpower = a.hashpower
                    /\ b.expand_bucket = a.expand_bucket
  /\ ~a.expanding /\ b.expanding => b.hashpower = a.hashpower + 1 /\ b.expand_bucket = 0
  /\ ~a.expanding /\ ~b.expanding => b.hashpower = a.hashpower

(***************************************************************************)
(* assoc_insert puts the item before its chain and changes no other; the   *)
(* bit of the expansion goes up only if it was down.                       *)
(***************************************************************************)
LEMMA InsertLemma ==
  ASSUME NEW a, AssocOK(a), NEW it \in Items, NEW k \in Keys, NEW b \in assoc_insert(a, it, k)
  PROVE  LET h == Hash[k] IN
         /\ AssocOK(b) /\ ExpandsOnce(a, b) /\ b.hash_items = (a.hash_items + 1) % CounterMod
         /\ \A g \in Nat : Chain(b, g) = IF Home(a, g) = Home(a, h)
                                         THEN <<Entry(it, k)>> \o Chain(a, h) ELSE Chain(a, g)
         /\ InPlace(a) => InPlace(b)
<1> DEFINE h == Hash[k]
           e == Entry(it, k)
           chain == <<e>> \o Chain(a, h)
           w == WithChain(a, h, chain)
           x == (w.hash_items + 1) % CounterMod
           c == [w EXCEPT !.hash_items = x]
<1>1. h \in Nat /\ e \in Entries /\ e.key = k /\ Chain(a, h) \in Seq(Entries)
  BY HashType, ChainType DEF Entry, Entries
<1>2. chain \in Seq(Entries) /\ Prepended(chain, e, Chain(a, h))
  BY <1>1, PrependLemma DEF Prepended
<1>3. b \in IF ~c.expanding /\ c.hash_items > (hashsize(c.hashpower) * 3) \div 2
            THEN assoc_expand(c) ELSE {c}
  BY DEF assoc_insert
<1> HIDE DEF chain, e
<1>4. /\ AssocOK(w) /\ SameFields(w, a)
      /\ \A g \in Nat : Chain(w, g) = IF Home(a, g) = Home(a, h) THEN chain ELSE Chain(a, g)
      /\ InPlace(a) /\ (\A i \in DOMAIN chain : Home(a, Hash[chain[i].key]) = Home(a, h))
           => InPlace(w)
  <2> PICK g : g = h
    OBVIOUS
  <2> PICK v : v = WithChain(a, g, chain)
    OBVIOUS
  <2>1. g \in Nat /\ chain \in Seq(Entries)
    BY <1>1, <1>2
  <2>2. /\ AssocOK(v) /\ SameFields(v, a)
        /\ \A n \in Nat : Chain(v, n) = IF Home(a, n) = Home(a, g) THEN chain ELSE Chain(a, n)
        /\ InPlace(a) /\ (\A i \in DOMAIN chain : Home(a, Hash[chain[i].key]) = Home(a, g))
             => InPlace(v)
    BY <2>1, SetChainLemma
  <2>3. v = w /\ g = h
    OBVIOUS
  <2> HIDE DEF h, w
  <2> QED BY <2>2, <2>3
<1>5. InPlace(a) => \A i \in DOMAIN chain : Home(a, Hash[chain[i].key]) = Home(a, h)
  BY <1>1, <1>2, ChainInPlace DEF Prepended
<1> HIDE DEF h, w
<1>6. w.hash_items = a.hash_items /\ x \in 0 .. CounterMod - 1
  <2>1. w.hash_items \in Int /\ w.hash_items = a.hash_items
    BY <1>4, CounterType DEF SameFields, AssocOK
  <2>2. w.hash_items + 1 \in Int
    BY <2>1
  <2> QED
    BY <2>1, <2>2, CounterType
<1> HIDE DEF x
<1>7. AssocOK(c) /\ SameTables(w, c) /\ c.hash_items = x
  BY <1>4, <1>6, CountLemma
<1>8. /\ \A g \in Nat : Chain(c, g) = IF Home(a, g) = Home(a, h) THEN chain ELSE Chain(a, g)
      /\ InPlace(a) => InPlace(c)
      /\ c.expanding = a.expanding /\ c.hashpower = a.hashpower
      /\ c.expand_bucket = a.expand_bucket
  <2>1. (\A g : Chain(w, g) = Chain(c, g)) /\ (InPlace(w) <=> InPlace(c))
    BY <1>7, SameTablesLemma
  <2>2. /\ c.expanding = a.expanding /\ c.hashpower = a.hashpower
        /\ c.expand_bucket = a.expand_bucket
    BY <1>4, <1>7 DEF SameTables, SameFields
  <2> HIDE DEF c
  <2> QED
    BY <1>4, <1>5, <2>1, <2>2
<1> HIDE DEF c
<1>9. \/ b = c
      \/ /\ ~c.expanding /\ AssocOK(b) /\ b.hash_items = c.hash_items
         /\ IF b.expanding THEN b.hashpower = c.hashpower + 1 /\ b.expand_bucket = 0
                           ELSE b.hashpower = c.hashpower
         /\ \A g \in Nat : Chain(b, g) = Chain(c, g)
         /\ InPlace(c) => InPlace(b)
  BY <1>3, <1>7, ExpandLemma
<1>10. x = (a.hash_items + 1) % CounterMod
  BY <1>6 DEF x
<1>11. a.expanding \in BOOLEAN
  BY DEF AssocOK
<1> QED
  BY <1>7, <1>8, <1>9, <1>10, <1>11 DEF ExpandsOnce, chain, h, e

(***************************************************************************)
(* assoc_delete removes the first match from its chain.                    *)
(***************************************************************************)
LEMMA DeleteLemma ==
  ASSUME NEW a, AssocOK(a), NEW k \in Keys, NEW b, b = assoc_delete(a, k)
  PROVE  LET h == Hash[k]
             i == hashitem_before(a, k)
         IN  /\ AssocOK(b) /\ b.hashpower = a.hashpower
             /\ b.expanding = a.expanding /\ b.expand_bucket = a.expand_bucket
             /\ i = 0 => b = a
             /\ i # 0 => /\ i \in DOMAIN Chain(a, h)
                         /\ b.hash_items = (a.hash_items - 1) % CounterMod
                         /\ \A g \in Nat : Chain(b, g) =
                              IF Home(a, g) = Home(a, h) THEN RemoveAt(Chain(a, h), i)
                                                         ELSE Chain(a, g)
             /\ InPlace(a) => InPlace(b)
<1> DEFINE h == Hash[k]
           i == hashitem_before(a, k)
           chain == RemoveAt(Chain(a, h), i)
           w == WithChain(a, h, chain)
           x == (w.hash_items - 1) % CounterMod
           c == [w EXCEPT !.hash_items = x]
<1>1. h \in Nat /\ Chain(a, h) \in Seq(Entries)
  BY HashType, ChainType
<1>2. i \in DOMAIN Chain(a, h) \cup {0}
  BY <1>1, FirstMatchLemma DEF hashitem_before
<1>3. b = IF i = 0 THEN a ELSE c
  BY DEF assoc_delete
<1> HIDE DEF chain, i
<1>4. CASE i = 0
  BY <1>3, <1>4 DEF i
<1>5. CASE i # 0
  <2>1. chain \in Seq(Entries) /\ Removed(chain, Chain(a, h), i)
    BY <1>1, <1>2, <1>5, RemoveLemma DEF Removed, chain
  <2>2. /\ AssocOK(w) /\ SameFields(w, a)
        /\ \A g \in Nat : Chain(w, g) = IF Home(a, g) = Home(a, h) THEN chain ELSE Chain(a, g)
        /\ InPlace(a) /\ (\A j \in DOMAIN chain : Home(a, Hash[chain[j].key]) = Home(a, h))
             => InPlace(w)
    BY <1>1, <2>1, SetChainLemma
  <2>3. InPlace(a) => \A j \in DOMAIN chain : Home(a, Hash[chain[j].key]) = Home(a, h)
    BY <1>1, <2>1, ChainInPlace DEF Removed
  <2> HIDE DEF h, w
  <2>4. w.hash_items = a.hash_items /\ x \in 0 .. CounterMod - 1
    <3>1. w.hash_items \in Int /\ w.hash_items = a.hash_items
      BY <2>2, CounterType DEF SameFields, AssocOK
    <3>2. w.hash_items - 1 \in Int
      BY <3>1
    <3> QED
      BY <3>1, <3>2, CounterType
  <2> HIDE DEF x
  <2>5. AssocOK(c) /\ SameTables(w, c) /\ c.hash_items = x
    BY <2>2, <2>4, CountLemma
  <2>6. (\A g : Chain(w, g) = Chain(c, g)) /\ (InPlace(w) <=> InPlace(c))
    BY <2>5, SameTablesLemma
  <2>7. /\ c.expanding = a.expanding /\ c.hashpower = a.hashpower
        /\ c.expand_bucket = a.expand_bucket
    BY <2>2, <2>5 DEF SameTables, SameFields
  <2>8. x = (a.hash_items - 1) % CounterMod
    BY <2>4 DEF x
  <2> HIDE DEF c
  <2> QED
    BY <1>2, <1>3, <1>5, <2>2, <2>3, <2>5, <2>6, <2>7, <2>8 DEF chain, h, i
<1> QED
  BY <1>4, <1>5

(***************************************************************************)
(* MigrateBucket empties one bucket of the old table; every search that    *)
(* began there finds in the main table what it found before.               *)
(***************************************************************************)
LEMMA MigrateLemma ==
  ASSUME NEW a, AssocOK(a), a.expanding, ExpandBucketOK(a), NEW b, b = MigrateBucket(a)
  PROVE  /\ AssocOK(b) /\ ExpandBucketOK(b)
         /\ b.hashpower = a.hashpower /\ b.hash_items = a.hash_items
         /\ InPlace(a) => InPlace(b) /\ \A map : Holds(a, map) => Holds(b, map)
<1> DEFINE x == a.expand_bucket
           moved == a.old[x]
           t == Pushed(a, moved)
           m == hashsize(a.hashpower - 1)
<1>1. /\ a.hashpower \in Nat /\ a.hashpower - 1 \in Nat /\ m \in Nat \ {0}
      /\ x \in Nat /\ x \in Buckets(a.hashpower - 1) /\ x < m
      /\ a.old = [c \in Buckets(a.hashpower - 1) |-> a.old[c]]
      /\ moved \in Seq(Entries)
  <2>1. a.hashpower \in Nat /\ a.hashpower - 1 \in Nat /\ x \in Nat
    BY DEF AssocOK
  <2>2. m \in Nat \ {0}
    BY <2>1, HashsizePositive
  <2>3. x < m
    BY DEF ExpandBucketOK
  <2>4. x \in Buckets(a.hashpower - 1)
    BY <2>1, <2>2, <2>3 DEF Buckets
  <2> QED
    BY <2>1, <2>2, <2>3, <2>4 DEF AssocOK, IsTable, Buckets
<1>2. HoldsBoth(t, a, moved)
  <2> HIDE DEF moved, x, m
  <2> QED
    BY <1>1, PushContents
<1>3. b = [a EXCEPT !.primary = t, !.old = [a.old EXCEPT ![x] = <<>>],
                    !.expand_bucket = x + 1, !.expanding = x + 1 # m]
  BY DEF MigrateBucket, AssocOK
<1> HIDE DEF t, m, moved, x
<1>4. /\ b.primary = t /\ b.old = [a.old EXCEPT ![x] = <<>>] /\ b.expand_bucket = x + 1
      /\ b.expanding = (x + 1 # m) /\ b.hashpower = a.hashpower /\ b.hash_items = a.hash_items
      /\ DOMAIN b = DOMAIN a /\ b = [f \in DOMAIN b |-> b[f]]
  BY <1>3 DEF AssocOK
<1>5. /\ \A c \in Buckets(a.hashpower - 1) : b.old[c] = IF c = x THEN <<>> ELSE a.old[c]
      /\ b.old = [c \in Buckets(a.hashpower - 1) |-> b.old[c]]
  BY <1>1, <1>4
<1>6. AssocOK(b) /\ ExpandBucketOK(b)
  <2>1. x + 1 \in Nat /\ (x + 1 # m => x + 1 < m)
    BY <1>1
  <2>2. ExpandBucketOK(b)
    BY <1>4, <2>1 DEF ExpandBucketOK, m
  <2>3. <<>> \in Seq(Entries)
    OBVIOUS
  <2>4. IsTable(b.old, a.hashpower - 1)
    BY <1>5, <2>3 DEF AssocOK, IsTable, Buckets
  <2>5. IsTable(b.primary, a.hashpower)
    BY <1>2, <1>4 DEF HoldsBoth
  <2>6. a.hashpower > 0 /\ a.hashpower \in Nat /\ a.hash_items \in 0 .. CounterMod - 1
    BY DEF AssocOK
  <2>7. b.expanding \in BOOLEAN
    BY <1>4
  <2> QED
    BY <1>4, <2>1, <2>2, <2>4, <2>5, <2>6, <2>7 DEF AssocOK
<1>7. \A g : old_bucket(b, g) = old_bucket(a, g) /\ get_bucket(b, g) = get_bucket(a, g)
  BY <1>4 DEF old_bucket, get_bucket
<1>8. ASSUME NEW g \in Nat
      PROVE  /\ get_bucket(a, g) \in Buckets(a.hashpower)
             /\ old_bucket(a, g) \in Buckets(a.hashpower - 1)
             /\ \/ /\ old_bucket(a, g) # x
                   /\ which_hashtable(a, g) <=> which_hashtable(b, g)
                \/ /\ old_bucket(a, g) = x
                   /\ which_hashtable(a, g) /\ ~which_hashtable(b, g)
  <2>1. get_bucket(a, g) \in Buckets(a.hashpower) /\ old_bucket(a, g) \in Buckets(a.hashpower - 1)
    BY BucketLemma
  <2>2. old_bucket(a, g) \in Nat /\ old_bucket(a, g) < m
    BY <1>1, <2>1 DEF Buckets, m
  <2>3. which_hashtable(a, g) <=> old_bucket(a, g) >= x
    BY DEF which_hashtable, x
  <2>4. which_hashtable(b, g) <=> (x + 1 # m /\ old_bucket(a, g) >= x + 1)
    BY <1>4, <1>7 DEF which_hashtable
  <2>5. which_hashtable(b, g) <=> old_bucket(a, g) > x
    BY <1>1, <2>2, <2>4
  <2>6. \/ old_bucket(a, g) # x /\ (old_bucket(a, g) >= x <=> old_bucket(a, g) > x)
        \/ old_bucket(a, g) = x /\ old_bucket(a, g) >= x /\ ~ (old_bucket(a, g) > x)
    BY <1>1, <2>2
  <2> QED
    BY <2>1, <2>3, <2>5, <2>6
<1>9. ASSUME InPlace(a) PROVE InPlace(b)
  <2>1. ASSUME NEW c \in Buckets(a.hashpower), NEW i \in DOMAIN t[c]
        PROVE  Home(b, Hash[t[c][i].key]) = <<"primary", c>>
    <3> DEFINE g == Hash[t[c][i].key]
    <3>1. g \in Nat
      <4>1. t[c] \in Seq(Entries)
        BY <1>2 DEF HoldsBoth, IsTable, Buckets
      <4> QED
        BY <2>1, <4>1, KeyType, HashType
    <3>2. CASE \E j \in DOMAIN a.primary[c] : t[c][i] = a.primary[c][j]
      <4>1. Home(a, g) = <<"primary", c>>
        BY <1>9, <3>2 DEF InPlace
      <4>2. get_bucket(a, g) = c /\ ~which_hashtable(a, g)
        BY <4>1 DEF Home
      <4>3. ~which_hashtable(b, g)
        BY <1>8, <3>1, <4>2
      <4> QED
        BY <1>7, <4>2, <4>3 DEF Home
    <3>3. CASE \E j \in DOMAIN moved : t[c][i] = moved[j] /\ get_bucket(a, Hash[moved[j].key]) = c
      <4>1. Home(a, g) = <<"old", x>> /\ get_bucket(a, g) = c
        BY <1>1, <1>9, <3>3 DEF InPlace, moved
      <4>2. old_bucket(a, g) = x
        BY <4>1 DEF Home
      <4>3. ~which_hashtable(b, g)
        BY <1>8, <3>1, <4>2
      <4> QED
        BY <1>7, <4>1, <4>3 DEF Home
    <3> QED
      BY <1>2, <2>1, <3>2, <3>3 DEF HoldsBoth
  <2>2. ASSUME NEW c \in Buckets(a.hashpower - 1), NEW i \in DOMAIN b.old[c], b.expanding
        PROVE  Home(b, Hash[b.old[c][i].key]) = <<"old", c>>
    <3>1. c # x /\ b.old[c] = a.old[c]
      BY <1>5, <2>2
    <3> DEFINE g == Hash[a.old[c][i].key]
    <3>2. g \in Nat
      <4>1. a.old[c] \in Seq(Entries)
        BY <2>2 DEF AssocOK, IsTable, Buckets
      <4> QED
        BY <2>2, <3>1, <4>1, KeyType, HashType
    <3>3. Home(a, g) = <<"old", c>>
      BY <1>9, <2>2, <3>1 DEF InPlace
    <3>4. old_bucket(a, g) = c /\ which_hashtable(a, g)
      BY <3>3 DEF Home
    <3>5. which_hashtable(b, g)
      BY <1>8, <3>1, <3>2, <3>4
    <3> QED
      BY <1>7, <3>1, <3>4, <3>5 DEF Home
  <2> QED
    BY <1>4, <2>1, <2>2 DEF InPlace
<1>10. ASSUME InPlace(a), NEW map, Holds(a, map) PROVE Holds(b, map)
  <2> SUFFICES ASSUME NEW k \in Keys
               PROVE  IF map[k] = NULL THEN Absent(Chain(b, Hash[k]), k)
                                       ELSE Once(Chain(b, Hash[k]), Entry(map[k], k))
    BY DEF Holds
  <2> DEFINE g == Hash[k]
             c == get_bucket(a, g)
             e == Entry(map[k], k)
  <2>1. g \in Nat /\ e.key = k /\ c \in Buckets(a.hashpower)
    BY <1>8, HashType DEF Entry
  <2>2. IF map[k] = NULL THEN Absent(Chain(a, g), k) ELSE Once(Chain(a, g), e)
    BY <1>10 DEF Holds
  <2>3. CASE old_bucket(a, g) # x /\ which_hashtable(a, g)
    <3>1. which_hashtable(b, g)
      BY <1>8, <2>1, <2>3
    <3>2. Chain(b, g) = Chain(a, g)
      BY <1>5, <1>7, <1>8, <2>1, <2>3, <3>1 DEF Chain
    <3> QED
      BY <2>2, <3>2
  <2>4. CASE old_bucket(a, g) # x /\ ~which_hashtable(a, g)
    <3>1. ~which_hashtable(b, g)
      BY <1>8, <2>1, <2>4
    <3>2. Chain(b, g) = t[c] /\ Chain(a, g) = a.primary[c]
      BY <1>4, <1>7, <2>4, <3>1 DEF Chain
    <3>3. Absent(moved, k)
      <4> SUFFICES ASSUME NEW j \in DOMAIN moved, moved[j].key = k PROVE FALSE
        BY DEF Absent
      <4>1. Home(a, g) = <<"old", x>>
        BY <1>1, <1>10 DEF InPlace, moved
      <4> QED
        BY <2>4, <4>1 DEF Home
    <3>4. map[k] = NULL => Absent(t[c], k)
      BY <1>2, <2>1, <2>2, <3>2, <3>3 DEF HoldsBoth
    <3>5. map[k] # NULL => Once(t[c], e)
      BY <1>2, <2>1, <2>2, <3>2, <3>3 DEF HoldsBoth
    <3> QED
      BY <3>2, <3>4, <3>5
  <2>5. CASE old_bucket(a, g) = x
    <3>1. ~which_hashtable(b, g) /\ which_hashtable(a, g)
      BY <1>8, <2>1, <2>5
    <3>2. Chain(b, g) = t[c] /\ Chain(a, g) = moved
      BY <1>4, <1>7, <2>5, <3>1 DEF Chain, moved
    <3>3. Absent(a.primary[c], k)
      <4> SUFFICES ASSUME NEW j \in DOMAIN a.primary[c], a.primary[c][j].key = k PROVE FALSE
        BY DEF Absent
      <4>1. Home(a, g) = <<"primary", c>>
        BY <1>10, <2>1 DEF InPlace
      <4> QED
        BY <3>1, <4>1 DEF Home
    <3>4. map[k] = NULL => Absent(t[c], k)
      BY <1>2, <2>1, <2>2, <3>2, <3>3 DEF HoldsBoth
    <3>5. map[k] # NULL => Once(t[c], e)
      BY <1>2, <2>1, <2>2, <3>2, <3>3 DEF HoldsBoth
    <3> QED
      BY <3>2, <3>4, <3>5
  <2> QED
    BY <2>3, <2>4, <2>5
<1> QED
  BY <1>4, <1>6, <1>9, <1>10

-----------------------------------------------------------------------------
(***************************************************************************)
(* The shape of the table, and the maintenance threads.                    *)
(***************************************************************************)

ShapeInv == TypeOK /\ OneMigrator

LEMMA InitTable ==
  ASSUME NEW items \in 0 .. CounterMod - 1
  PROVE  /\ AssocOK(InitAssoc(items)) /\ ~InitAssoc(items).expanding
         /\ InPlace(InitAssoc(items)) /\ \A g \in Nat : Chain(InitAssoc(items), g) = <<>>
<1> DEFINE a == InitAssoc(items)
           table == EmptyTable(InitHashpower)
<1>1. InitHashpower \in Nat
  BY AssocAssumption
<1>2. IsTable(table, InitHashpower) /\ \A b \in Buckets(InitHashpower) : table[b] = <<>>
  BY <1>1, EmptyTableLemma
<1> HIDE DEF table
<1>3. /\ a.hashpower = InitHashpower /\ a.hash_items = items /\ a.primary = table
      /\ a.expanding \in BOOLEAN /\ ~a.expanding /\ a.expand_bucket = 0
      /\ DOMAIN a = {"hashpower", "hash_items", "primary", "old", "expanding", "expand_bucket"}
      /\ a = [f \in DOMAIN a |-> a[f]]
  BY DEF InitAssoc, table
<1> HIDE DEF a
<1>4. AssocOK(a)
  <2>1. ~a.expanding /\ a.expanding \in BOOLEAN /\ a.expand_bucket \in Nat
    BY <1>3
  <2>2. a.hashpower \in Nat /\ a.hash_items \in 0 .. CounterMod - 1
    BY <1>1, <1>3
  <2>3. IsTable(a.primary, a.hashpower)
    BY <1>2, <1>3
  <2> QED
    BY <1>3, <2>1, <2>2, <2>3 DEF AssocOK
<1>5. InPlace(a)
  BY <1>2, <1>3 DEF InPlace
<1>6. \A g \in Nat : Chain(a, g) = <<>>
  BY <1>2, <1>3, <1>4, BucketLemma DEF Chain, which_hashtable
<1> QED
  BY <1>3, <1>4, <1>5, <1>6 DEF a

LEMMA ShapeInit == Init => ShapeInv
<1> SUFFICES ASSUME Init PROVE ShapeInv
  OBVIOUS
<1>1. started \in InitHashItems /\ started \in 0 .. CounterMod - 1
  BY AssocArrayAssumption DEF Init
<1>2. AssocOK(assoc) /\ ~assoc.expanding
  BY <1>1, InitTable DEF Init
<1> QED
  BY <1>1, <1>2 DEF Init, ShapeInv, TypeOK, OneMigrator, ExpandBucketOK

LEMMA ShapeNext == ShapeInv /\ [Next]_vars => ShapeInv'
<1> SUFFICES ASSUME ShapeInv, [Next]_vars PROVE ShapeInv'
  OBVIOUS
<1> USE DEF ShapeInv, TypeOK, OneMigrator, ExpandBucketOK
<1>1. ASSUME NEW it \in Items, NEW k \in Keys, Insert(it, k) PROVE ShapeInv'
  <2>1. PICK b \in assoc_insert(assoc, it, k) :
          /\ assoc' = b
          /\ migrators' = IF b.hashpower > assoc.hashpower THEN migrators + 1 ELSE migrators
    BY <1>1 DEF Insert
  <2>2. AssocOK(b) /\ ExpandsOnce(assoc, b)
    BY <1>1, <2>1, InsertLemma
  <2>3. contents' \in [Keys -> Items \cup {NULL}] /\ started' = started
    BY <1>1 DEF Insert
  <2>4. assoc.hashpower \in Nat /\ assoc.expanding \in BOOLEAN /\ b.expanding \in BOOLEAN
    BY <2>2 DEF AssocOK
  <2>5. CASE assoc.expanding
    BY <2>1, <2>2, <2>3, <2>4, <2>5 DEF ExpandsOnce
  <2>6. CASE ~assoc.expanding /\ b.expanding
    <3>1. (assoc.hashpower + 1) - 1 = assoc.hashpower /\ 0 < hashsize(assoc.hashpower)
      BY <2>4, HashsizePositive
    <3>2. migrators' = 1
      BY <2>1, <2>2, <2>4, <2>6 DEF ExpandsOnce
    <3> QED
      BY <2>1, <2>2, <2>3, <2>6, <3>1, <3>2 DEF ExpandsOnce
  <2>7. CASE ~assoc.expanding /\ ~b.expanding
    <3>1. migrators' = 0
      BY <2>1, <2>2, <2>4, <2>7 DEF ExpandsOnce
    <3> QED
      BY <2>1, <2>2, <2>3, <2>7, <3>1
  <2> QED
    BY <2>5, <2>6, <2>7
<1>2. ASSUME NEW k \in Keys, Delete(k) PROVE ShapeInv'
  <2>1. PICK b : b = assoc_delete(assoc, k) /\ assoc' = b
    BY <1>2 DEF Delete
  <2>2. /\ AssocOK(b) /\ b.hashpower = assoc.hashpower
        /\ b.expanding = assoc.expanding /\ b.expand_bucket = assoc.expand_bucket
    BY <2>1, DeleteLemma
  <2> QED
    BY <1>2, <2>1, <2>2 DEF Delete
<1>3. ASSUME Maintain PROVE ShapeInv'
  <2>1. assoc.expanding
    BY <1>3 DEF Maintain
  <2>2. PICK b : b = MigrateBucket(assoc) /\ assoc' = b
    BY <1>3, <2>1 DEF Maintain
  <2>3. AssocOK(b) /\ ExpandBucketOK(b)
    BY <2>1, <2>2, MigrateLemma
  <2>4. migrators' = IF b.expanding THEN 1 ELSE 0
    BY <1>3, <2>1, <2>2 DEF Maintain
  <2> QED
    BY <1>3, <2>2, <2>3, <2>4 DEF Maintain
<1>4. CASE UNCHANGED vars
  BY <1>4 DEF vars
<1> QED
  BY <1>1, <1>2, <1>3, <1>4 DEF Next

LEMMA ShapeAlways == Spec => []ShapeInv
BY ShapeInit, ShapeNext, PTL DEF Spec

(***************************************************************************)
(* The tables always have the sizes hashpower says, and their chains hold  *)
(* items under keys.                                                       *)
(***************************************************************************)
THEOREM TypeCorrect == Spec => []TypeOK
<1>1. ShapeInv => TypeOK
  BY DEF ShapeInv
<1> QED
  BY <1>1, ShapeAlways, PTL

(***************************************************************************)
(* Every expansion has its maintenance thread, there is never a second one *)
(* to free the old table of the first, and expand_bucket stays in the old  *)
(* table.                                                                  *)
(***************************************************************************)
THEOREM OneThreadPerExpansion == Spec => []OneMigrator
<1>1. ShapeInv => OneMigrator
  BY DEF ShapeInv
<1> QED
  BY <1>1, ShapeAlways, PTL

-----------------------------------------------------------------------------
(***************************************************************************)
(* What is in the table.  assoc_find compares hashes and as many bytes as  *)
(* the search key has, so a key that is a prefix of another with the same  *)
(* hash would be mistaken for it: NoPrefixes is the premise.               *)
(***************************************************************************)

TableInv ==
  /\ ShapeInv
  /\ InPlace(assoc)
  /\ Holds(assoc, contents)

\* A search from one place sees one chain.
LEMMA SameHome ==
  ASSUME NEW a, NEW g, NEW h, Home(a, g) = Home(a, h)
  PROVE  Chain(a, g) = Chain(a, h)
BY DEF Home, Chain

LEMMA FindLemma ==
  ASSUME NoPrefixes, NEW a, AssocOK(a), NEW map, Holds(a, map), NEW k \in Keys
  PROVE  /\ assoc_find(a, k) = map[k]
         /\ map[k] # NULL => /\ hashitem_before(a, k) # 0
                             /\ Chain(a, Hash[k])[hashitem_before(a, k)] = Entry(map[k], k)
<1> DEFINE c == Chain(a, Hash[k])
           i == FirstMatch(c, k)
<1>1. c \in Seq(Entries)
  BY HashType, ChainType
<1>2. /\ assoc_find(a, k) = IF i = 0 THEN NULL ELSE c[i].it
      /\ hashitem_before(a, k) = i
  BY DEF assoc_find, hashitem_before
<1>3. CASE map[k] = NULL
  <2>1. Absent(c, k)
    BY <1>3 DEF Holds
  <2> HIDE DEF c
  <2>2. i = 0
    BY <1>1, <2>1, FirstMatchLemma
  <2> QED
    BY <1>2, <1>3, <2>2
<1>4. CASE map[k] # NULL
  <2> DEFINE e == Entry(map[k], k)
  <2>1. Once(c, e) /\ e.key = k /\ e.it = map[k]
    BY <1>4 DEF Holds, Entry
  <2> HIDE DEF c, e
  <2>2. i # 0 /\ c[i] = e
    BY <1>1, <2>1, FirstMatchLemma
  <2> QED
    BY <1>2, <2>1, <2>2 DEF c, e
<1> QED
  BY <1>3, <1>4

LEMMA InsertHolds ==
  ASSUME NEW a, AssocOK(a), NEW map \in [Keys -> Items \cup {NULL}], Holds(a, map),
         NEW it \in Items, NEW k \in Keys, map[k] = NULL, NEW b \in assoc_insert(a, it, k)
  PROVE  Holds(b, [map EXCEPT ![k] = it])
<1> DEFINE new == [map EXCEPT ![k] = it]
           e == Entry(it, k)
           h == Hash[k]
<1> SUFFICES ASSUME NEW l \in Keys
             PROVE  IF new[l] = NULL THEN Absent(Chain(b, Hash[l]), l)
                                     ELSE Once(Chain(b, Hash[l]), Entry(new[l], l))
  BY DEF Holds
<1>1. h \in Nat /\ Hash[l] \in Nat /\ e \in Entries /\ e.key = k /\ Chain(a, h) \in Seq(Entries)
  BY HashType, ChainType DEF Entry, Entries
<1>2. Chain(b, Hash[l]) = IF Home(a, Hash[l]) = Home(a, h) THEN <<e>> \o Chain(a, h)
                                                            ELSE Chain(a, Hash[l])
  <2>1. \A g \in Nat : Chain(b, g) = IF Home(a, g) = Home(a, h) THEN <<e>> \o Chain(a, h)
                                                               ELSE Chain(a, g)
    <3> HIDE DEF new
    <3> QED
      BY InsertLemma
  <2> QED
    BY <1>1, <2>1
<1>3. new[k] = it /\ it # NULL /\ (l # k => new[l] = map[l])
  BY AssocArrayAssumption
<1>4. IF map[l] = NULL THEN Absent(Chain(a, Hash[l]), l)
                       ELSE Once(Chain(a, Hash[l]), Entry(map[l], l))
  BY DEF Holds
<1>5. Prepended(<<e>> \o Chain(a, h), e, Chain(a, h))
  BY <1>1, PrependLemma
<1> HIDE DEF e, new
<1>6. CASE l = k
  <2>1. Absent(Chain(a, h), k)
    BY <1>4, <1>6
  <2>2. Once(<<e>> \o Chain(a, h), e)
    BY <1>1, <1>5, <2>1 DEF Prepended
  <2>3. Chain(b, Hash[l]) = <<e>> \o Chain(a, h)
    BY <1>2, <1>6
  <2> QED
    BY <1>3, <1>6, <2>2, <2>3 DEF e
<1>7. CASE l # k /\ Home(a, Hash[l]) = Home(a, h)
  <2>1. Chain(a, Hash[l]) = Chain(a, h) /\ Chain(b, Hash[l]) = <<e>> \o Chain(a, h)
    BY <1>2, <1>7, SameHome
  <2>2. Entry(map[l], l).key = l
    BY DEF Entry
  <2>3. map[l] = NULL => Absent(Chain(b, Hash[l]), l)
    BY <1>1, <1>4, <1>5, <1>7, <2>1 DEF Prepended
  <2>4. map[l] # NULL => Once(Chain(b, Hash[l]), Entry(map[l], l))
    BY <1>1, <1>4, <1>5, <1>7, <2>1, <2>2 DEF Prepended
  <2> QED
    BY <1>3, <1>7, <2>3, <2>4
<1>8. CASE l # k /\ Home(a, Hash[l]) # Home(a, h)
  BY <1>2, <1>3, <1>4, <1>8
<1> QED
  BY <1>6, <1>7, <1>8

LEMMA DeleteHolds ==
  ASSUME NoPrefixes, NEW a, AssocOK(a), NEW map \in [Keys -> Items \cup {NULL}], Holds(a, map),
         NEW k \in Keys, map[k] # NULL, NEW b, b = assoc_delete(a, k)
  PROVE  Holds(b, [map EXCEPT ![k] = NULL])
<1> DEFINE new == [map EXCEPT ![k] = NULL]
           e == Entry(map[k], k)
           h == Hash[k]
           c == Chain(a, h)
           i == hashitem_before(a, k)
<1> SUFFICES ASSUME NEW l \in Keys
             PROVE  IF new[l] = NULL THEN Absent(Chain(b, Hash[l]), l)
                                     ELSE Once(Chain(b, Hash[l]), Entry(new[l], l))
  BY DEF Holds
<1>1. h \in Nat /\ Hash[l] \in Nat /\ c \in Seq(Entries) /\ e.key = k
  BY HashType, ChainType DEF Entry
<1>2. i # 0 /\ c[i] = e
  BY FindLemma
<1>3. /\ i \in DOMAIN c
      /\ Chain(b, Hash[l]) = IF Home(a, Hash[l]) = Home(a, h) THEN RemoveAt(c, i)
                                                              ELSE Chain(a, Hash[l])
  BY <1>1, <1>2, DeleteLemma
<1>4. new[k] = NULL /\ (l # k => new[l] = map[l])
  OBVIOUS
<1>5. IF map[l] = NULL THEN Absent(Chain(a, Hash[l]), l)
                       ELSE Once(Chain(a, Hash[l]), Entry(map[l], l))
  BY DEF Holds
<1>6. Once(c, e)
  BY DEF Holds
<1> HIDE DEF e, new, i
<1>7. Removed(RemoveAt(c, i), c, i)
  BY <1>1, <1>3, RemoveLemma
<1>8. CASE l = k
  <2>1. Absent(RemoveAt(c, i), k)
    BY <1>1, <1>2, <1>6, <1>7 DEF Removed
  <2> QED
    BY <1>3, <1>4, <1>8, <2>1
<1>9. CASE l # k /\ Home(a, Hash[l]) = Home(a, h)
  <2>1. Chain(a, Hash[l]) = c /\ Chain(b, Hash[l]) = RemoveAt(c, i)
    BY <1>3, <1>9, SameHome
  <2>2. Entry(map[l], l).key = l
    BY DEF Entry
  <2>3. map[l] = NULL => Absent(Chain(b, Hash[l]), l)
    BY <1>5, <1>7, <2>1 DEF Removed
  <2>4. map[l] # NULL => Once(Chain(b, Hash[l]), Entry(map[l], l))
    BY <1>1, <1>2, <1>5, <1>7, <1>9, <2>1, <2>2 DEF Removed
  <2> QED
    BY <1>4, <1>9, <2>3, <2>4
<1>10. CASE l # k /\ Home(a, Hash[l]) # Home(a, h)
  BY <1>3, <1>4, <1>5, <1>10
<1> QED
  BY <1>8, <1>9, <1>10

LEMMA TableInit == Init => TableInv
<1> SUFFICES ASSUME Init PROVE TableInv
  OBVIOUS
<1>1. ShapeInv
  BY ShapeInit
<1>2. started \in 0 .. CounterMod - 1 /\ assoc = InitAssoc(started) /\ \A k \in Keys : contents[k] = NULL
  BY AssocArrayAssumption DEF Init
<1>3. InPlace(assoc) /\ \A g \in Nat : Chain(assoc, g) = <<>>
  BY <1>2, InitTable
<1>4. Holds(assoc, contents)
  BY <1>2, <1>3, HashType DEF Holds, Absent
<1> QED
  BY <1>1, <1>3, <1>4 DEF TableInv

LEMMA TableNext ==
  ASSUME NoPrefixes
  PROVE  TableInv /\ [Next]_vars => TableInv'
<1> SUFFICES ASSUME TableInv, [Next]_vars PROVE TableInv'
  OBVIOUS
<1>1. ShapeInv /\ InPlace(assoc) /\ Holds(assoc, contents)
  BY DEF TableInv
<1>2. AssocOK(assoc) /\ contents \in [Keys -> Items \cup {NULL}]
  BY <1>1 DEF ShapeInv, TypeOK
<1>3. ShapeInv'
  BY <1>1, ShapeNext
<1>4. ASSUME NEW it \in Items, NEW k \in Keys, Insert(it, k) PROVE TableInv'
  <2>1. PICK b \in assoc_insert(assoc, it, k) : assoc' = b
    BY <1>4 DEF Insert
  <2>2. PICK map : map = [contents EXCEPT ![k] = it] /\ contents' = map
    BY <1>4 DEF Insert
  <2>3. InPlace(b)
    BY <1>1, <1>2, <1>4, <2>1, InsertLemma
  <2>4. contents[k] = NULL
    BY <1>1, <1>2, <1>4, FindLemma DEF Insert
  <2>5. Holds(b, map)
    BY <1>1, <1>2, <1>4, <2>1, <2>2, <2>4, InsertHolds
  <2> QED
    BY <1>3, <2>1, <2>2, <2>3, <2>5 DEF TableInv
<1>5. ASSUME NEW k \in Keys, Delete(k) PROVE TableInv'
  <2>1. PICK b : b = assoc_delete(assoc, k) /\ assoc' = b
    BY <1>5 DEF Delete
  <2>2. PICK map : map = [contents EXCEPT ![k] = NULL] /\ contents' = map
    BY <1>5 DEF Delete
  <2>3. InPlace(b)
    BY <1>1, <1>2, <1>5, <2>1, DeleteLemma
  <2>4. Holds(b, map)
    BY <1>1, <1>2, <1>5, <2>1, <2>2, DeleteHolds DEF Delete
  <2> QED
    BY <1>3, <2>1, <2>2, <2>3, <2>4 DEF TableInv
<1>6. ASSUME Maintain PROVE TableInv'
  <2>1. assoc.expanding /\ ExpandBucketOK(assoc)
    BY <1>1, <1>6 DEF Maintain, ShapeInv, OneMigrator, TypeOK, AssocOK
  <2>2. PICK b : b = MigrateBucket(assoc) /\ assoc' = b
    BY <1>6, <2>1 DEF Maintain
  <2>3. InPlace(b) /\ Holds(b, contents)
    BY <1>1, <1>2, <2>1, <2>2, MigrateLemma
  <2> QED
    BY <1>3, <1>6, <2>2, <2>3 DEF TableInv, Maintain
<1>7. CASE UNCHANGED vars
  BY <1>1, <1>3, <1>7 DEF vars, TableInv
<1> QED
  BY <1>4, <1>5, <1>6, <1>7 DEF Next

LEMMA TableAlways ==
  ASSUME NoPrefixes
  PROVE  Spec => []TableInv
BY TableInit, TableNext, PTL DEF Spec

(***************************************************************************)
(* assoc_find returns the item last linked under the key, or nothing, in   *)
(* the middle of an expansion too.                                         *)
(***************************************************************************)
THEOREM FindIsExact ==
  ASSUME NoPrefixes
  PROVE  Spec => []FindExact
<1>1. TableInv => FindExact
  BY FindLemma DEF TableInv, ShapeInv, TypeOK, FindExact
<1> QED
  BY <1>1, TableAlways, PTL

\* The entry at a place, and its key's search, which comes upon the place.
LEMMA PlaceLemma ==
  ASSUME NEW a, AssocOK(a), InPlace(a), NEW p \in Places(a)
  PROVE  LET e == At(a, p)
             c == Chain(a, Hash[e.key])
         IN  /\ p = <<p[1], p[2], p[3]>> /\ e.key \in Keys
             /\ Home(a, Hash[e.key]) = <<p[1], p[2]>>
             /\ p[3] \in DOMAIN c /\ c[p[3]] = e
<1>1. PICK t \in Tables(a) : p \in UNION {{t} \X {b} \X DOMAIN a[t][b] : b \in DOMAIN a[t]}
  BY DEF Places
<1>2. PICK b \in DOMAIN a[t] : p \in {t} \X {b} \X DOMAIN a[t][b]
  BY <1>1
<1>3. PICK i \in DOMAIN a[t][b] : p = <<t, b, i>>
  BY <1>2
<1>4. At(a, p) = a[t][b][i]
  BY <1>3 DEF At
<1>5. CASE t = "primary"
  <2>1. b \in Buckets(a.hashpower) /\ i \in DOMAIN a.primary[b] /\ At(a, p) = a.primary[b][i]
    BY <1>2, <1>3, <1>4, <1>5 DEF AssocOK, IsTable, Buckets
  <2>2. a.primary[b] \in Seq(Entries)
    BY <2>1 DEF AssocOK, IsTable, Buckets
  <2>3. At(a, p).key \in Keys
    BY <2>1, <2>2, KeyType
  <2>4. Home(a, Hash[At(a, p).key]) = <<"primary", b>>
    BY <2>1 DEF InPlace
  <2>5. Chain(a, Hash[At(a, p).key]) = a.primary[b]
    BY <2>4 DEF Home, Chain
  <2> QED
    BY <1>3, <1>5, <2>1, <2>3, <2>4, <2>5
<1>6. CASE t = "old" /\ a.expanding
  <2>1. b \in Buckets(a.hashpower - 1) /\ i \in DOMAIN a.old[b] /\ At(a, p) = a.old[b][i]
    BY <1>2, <1>3, <1>4, <1>6 DEF AssocOK, IsTable, Buckets
  <2>2. a.old[b] \in Seq(Entries)
    BY <1>6, <2>1 DEF AssocOK, IsTable, Buckets
  <2>3. At(a, p).key \in Keys
    BY <2>1, <2>2, KeyType
  <2>4. Home(a, Hash[At(a, p).key]) = <<"old", b>>
    BY <1>6, <2>1 DEF InPlace
  <2>5. Chain(a, Hash[At(a, p).key]) = a.old[b]
    BY <2>4 DEF Home, Chain
  <2> QED
    BY <1>3, <1>6, <2>1, <2>3, <2>4, <2>5
<1> QED
  BY <1>1, <1>5, <1>6 DEF Tables

\* Where a search comes upon an entry, there is a place.
LEMMA ChainPlace ==
  ASSUME NEW a, AssocOK(a), NEW h \in Nat, NEW i \in DOMAIN Chain(a, h)
  PROVE  \E p \in Places(a) : At(a, p) = Chain(a, h)[i]
<1>1. CASE which_hashtable(a, h)
  <2> DEFINE b == old_bucket(a, h)
             p == <<"old", b, i>>
  <2>1. a.expanding /\ b \in DOMAIN a["old"] /\ i \in DOMAIN a["old"][b]
    BY <1>1, BucketLemma DEF which_hashtable, Chain, AssocOK, IsTable, Buckets
  <2>2. At(a, p) = Chain(a, h)[i]
    BY <1>1 DEF At, Chain
  <2> HIDE DEF b
  <2>3. p \in Places(a)
    BY <2>1 DEF Places, Tables
  <2> QED
    BY <2>2, <2>3
<1>2. CASE ~which_hashtable(a, h)
  <2> DEFINE b == get_bucket(a, h)
             p == <<"primary", b, i>>
  <2>1. b \in DOMAIN a["primary"] /\ i \in DOMAIN a["primary"][b]
    BY <1>2, BucketLemma DEF Chain, AssocOK, IsTable, Buckets
  <2>2. At(a, p) = Chain(a, h)[i]
    BY <1>2 DEF At, Chain
  <2> HIDE DEF b
  <2>3. p \in Places(a)
    BY <2>1 DEF Places, Tables
  <2> QED
    BY <2>2, <2>3
<1> QED
  BY <1>1, <1>2

(***************************************************************************)
(* Every binding of the map has a place and only one, and no place holds   *)
(* anything else.                                                          *)
(***************************************************************************)
LEMMA PlacesLemma ==
  ASSUME NEW a, AssocOK(a), InPlace(a), NEW map, Holds(a, map)
  PROVE  /\ \A p \in Places(a) : /\ At(a, p).key \in Keys /\ At(a, p).it = map[At(a, p).key]
                                 /\ map[At(a, p).key] # NULL
         /\ \A p, q \in Places(a) : At(a, p).key = At(a, q).key => p = q
         /\ \A k \in Keys : map[k] # NULL => \E p \in Places(a) : At(a, p).key = k
<1>1. ASSUME NEW p \in Places(a), NEW k, k = At(a, p).key
      PROVE  /\ k \in Keys /\ At(a, p).it = map[k] /\ map[k] # NULL
             /\ \A j \in DOMAIN Chain(a, Hash[k]) :
                  Chain(a, Hash[k])[j].key = k => j = p[3]
  <2> DEFINE c == Chain(a, Hash[k])
  <2>1. k \in Keys /\ p[3] \in DOMAIN c /\ c[p[3]] = At(a, p)
    BY <1>1, PlaceLemma
  <2>2. IF map[k] = NULL THEN Absent(c, k) ELSE Once(c, Entry(map[k], k))
    BY <2>1 DEF Holds
  <2> HIDE DEF c
  <2>3. map[k] # NULL /\ Once(c, Entry(map[k], k))
    BY <1>1, <2>1, <2>2 DEF Absent
  <2>4. PICK i \in DOMAIN c : c[i] = Entry(map[k], k) /\ \A j \in DOMAIN c : c[j].key = k => j = i
    BY <2>3 DEF Once, Entry
  <2>5. p[3] = i
    BY <1>1, <2>1, <2>4
  <2>6. At(a, p).it = map[k]
    BY <2>1, <2>4, <2>5 DEF Entry
  <2> QED
    BY <2>1, <2>3, <2>4, <2>5, <2>6 DEF c
<1>2. ASSUME NEW p \in Places(a), NEW q \in Places(a), At(a, p).key = At(a, q).key
      PROVE  p = q
  <2> DEFINE k == At(a, p).key
  <2>1. /\ p = <<p[1], p[2], p[3]>> /\ Home(a, Hash[k]) = <<p[1], p[2]>>
        /\ q = <<q[1], q[2], q[3]>> /\ Home(a, Hash[k]) = <<q[1], q[2]>>
        /\ q[3] \in DOMAIN Chain(a, Hash[k]) /\ Chain(a, Hash[k])[q[3]].key = k
    BY <1>2, PlaceLemma
  <2>2. q[3] = p[3]
    BY <1>1, <2>1
  <2> QED
    BY <2>1, <2>2
<1>3. ASSUME NEW k \in Keys, map[k] # NULL
      PROVE  \E p \in Places(a) : At(a, p).key = k
  <2>1. Once(Chain(a, Hash[k]), Entry(map[k], k)) /\ Hash[k] \in Nat
    BY <1>3, HashType DEF Holds
  <2>2. PICK i \in DOMAIN Chain(a, Hash[k]) : Chain(a, Hash[k])[i].key = k
    BY <2>1 DEF Once, Entry
  <2> QED
    BY <2>1, <2>2, ChainPlace
<1> QED
  BY <1>1, <1>2, <1>3

(***************************************************************************)
(* Every linked item is in exactly one chain, where its search begins, and *)
(* nothing else is in a chain.                                             *)
(***************************************************************************)
THEOREM OnePlacePerItem ==
  ASSUME NoPrefixes
  PROVE  Spec => []OnePlaceEach
<1>1. TableInv => OnePlaceEach
  <2> SUFFICES ASSUME TableInv PROVE OnePlaceEach
    OBVIOUS
  <2>1. AssocOK(assoc) /\ InPlace(assoc) /\ Holds(assoc, contents)
    BY DEF TableInv, ShapeInv, TypeOK
  <2>2. InItsPlace(assoc)
    BY <2>1, PlaceLemma DEF InItsPlace, Home
  <2> QED
    BY <2>1, <2>2, PlacesLemma DEF OnePlaceEach
<1> QED
  BY <1>1, TableAlways, PTL

(***************************************************************************)
(* The table implements the map of module KeyMap: an insertion binds its   *)
(* key, a deletion unbinds it, migration, expansion and the failures of    *)
(* calloc and pthread_create do nothing.                                   *)
(***************************************************************************)
THEOREM TableIsMap ==
  ASSUME NoPrefixes
  PROVE  Spec => ImplementsMap
<1> DEFINE found == [k \in Keys |-> assoc_find(assoc, k)]
           IsContents == found = contents
<1>1. TableInv => IsContents
  <2> SUFFICES ASSUME TableInv PROVE found = contents
    OBVIOUS
  <2>1. AssocOK(assoc) /\ Holds(assoc, contents) /\ contents = [k \in Keys |-> contents[k]]
    BY DEF TableInv, ShapeInv, TypeOK
  <2>2. \A k \in Keys : assoc_find(assoc, k) = contents[k]
    BY <2>1, FindLemma
  <2> QED
    BY <2>1, <2>2
<1>2. Init => Map!Init
  <2>1. TableInv => found = contents
    BY <1>1
  <2> QED
    BY <2>1, TableInit DEF Init, Map!Init
<1>3. found = contents /\ found' = contents' /\ [Next]_vars => [Map!Next]_found
  <2> SUFFICES ASSUME found = contents, found' = contents', [Next]_vars
               PROVE  [Map!Next]_found
    OBVIOUS
  <2> HIDE DEF found
  <2>1. ASSUME NEW it \in Items, NEW k \in Keys, Insert(it, k) PROVE Map!Bind(k, it)
    <3>1. contents[k] = NULL /\ contents' = [contents EXCEPT ![k] = it]
      BY <2>1 DEF Insert, found
    <3> QED
      BY <3>1 DEF Map!Bind, found
  <2>2. ASSUME NEW k \in Keys, Delete(k) PROVE Map!Unbind(k)
    <3>1. contents[k] # NULL /\ contents' = [contents EXCEPT ![k] = NULL]
      BY <2>2 DEF Delete
    <3> QED
      BY <3>1 DEF Map!Unbind, found
  <2>3. CASE Maintain \/ UNCHANGED vars
    BY <2>3 DEF Maintain, vars
  <2> QED
    BY <2>1, <2>2, <2>3 DEF Next, Map!Next, found
<1>4. TableInv /\ TableInv' /\ [Next]_vars => [Map!Next]_found
  <2>1. TableInv' => IsContents'
    BY <1>1, PTL
  <2> QED
    BY <1>1, <1>3, <2>1
<1> QED
  BY <1>2, <1>4, TableAlways, PTL DEF Spec, ImplementsMap, Map!Spec

-----------------------------------------------------------------------------
(***************************************************************************)
(* The same as facts about the value of a table, for its user, the cache.  *)
(***************************************************************************)

Found(a) == [k \in Keys |-> assoc_find(a, k)]

TableOK(a) ==
  /\ AssocOK(a) /\ InPlace(a) /\ ExpandBucketOK(a)
  /\ Holds(a, Found(a)) /\ Found(a) \in [Keys -> Items \cup {NULL}]

LEMMA TableHolds ==
  ASSUME NoPrefixes, NEW a, AssocOK(a), InPlace(a), ExpandBucketOK(a),
         NEW map \in [Keys -> Items \cup {NULL}], Holds(a, map)
  PROVE  TableOK(a) /\ Found(a) = map
<1>1. \A k \in Keys : assoc_find(a, k) = map[k]
  BY FindLemma
<1>2. Found(a) = map
  BY <1>1 DEF Found
<1> QED
  BY <1>2 DEF TableOK

LEMMA TableAtInit ==
  ASSUME NoPrefixes, NEW items \in 0 .. CounterMod - 1
  PROVE  /\ TableOK(InitAssoc(items))
         /\ \A k \in Keys : Found(InitAssoc(items))[k] = NULL
<1> DEFINE map == [k \in Keys |-> NULL]
           a == InitAssoc(items)
<1>1. AssocOK(a) /\ ~a.expanding /\ InPlace(a) /\ \A g \in Nat : Chain(a, g) = <<>>
  BY InitTable
<1> HIDE DEF a
<1>2. Holds(a, map)
  BY <1>1, HashType DEF Holds, Absent
<1>3. map \in [Keys -> Items \cup {NULL}]
  OBVIOUS
<1> HIDE DEF map
<1>4. TableOK(a) /\ Found(a) = map
  BY <1>1, <1>2, <1>3, TableHolds DEF ExpandBucketOK
<1> QED
  BY <1>4 DEF map, a

LEMMA TableInsert ==
  ASSUME NoPrefixes, NEW a, TableOK(a), NEW it \in Items, NEW k \in Keys,
         Found(a)[k] = NULL, NEW b \in assoc_insert(a, it, k)
  PROVE  TableOK(b) /\ Found(b) = [Found(a) EXCEPT ![k] = it]
<1>1. AssocOK(b) /\ ExpandsOnce(a, b) /\ InPlace(b)
  BY InsertLemma DEF TableOK
<1>2. Holds(b, [Found(a) EXCEPT ![k] = it])
  BY InsertHolds DEF TableOK
<1>3. ExpandBucketOK(b)
  <2>1. a.hashpower \in Nat /\ a.expanding \in BOOLEAN /\ b.expanding \in BOOLEAN
    BY <1>1 DEF AssocOK, TableOK
  <2>2. (a.hashpower + 1) - 1 = a.hashpower /\ 0 < hashsize(a.hashpower)
    BY <2>1, HashsizePositive
  <2> QED
    BY <1>1, <2>1, <2>2 DEF ExpandsOnce, ExpandBucketOK, TableOK
<1>4. [Found(a) EXCEPT ![k] = it] \in [Keys -> Items \cup {NULL}]
  BY DEF TableOK
<1> QED
  BY <1>1, <1>2, <1>3, <1>4, TableHolds

LEMMA TableDelete ==
  ASSUME NoPrefixes, NEW a, TableOK(a), NEW k \in Keys, Found(a)[k] # NULL
  PROVE  /\ TableOK(assoc_delete(a, k))
         /\ Found(assoc_delete(a, k)) = [Found(a) EXCEPT ![k] = NULL]
<1> DEFINE b == assoc_delete(a, k)
<1>1. /\ AssocOK(b) /\ b.hashpower = a.hashpower
      /\ b.expanding = a.expanding /\ b.expand_bucket = a.expand_bucket /\ InPlace(b)
  BY DeleteLemma DEF TableOK
<1>2. Holds(b, [Found(a) EXCEPT ![k] = NULL])
  BY DeleteHolds DEF TableOK
<1>3. [Found(a) EXCEPT ![k] = NULL] \in [Keys -> Items \cup {NULL}]
  BY DEF TableOK
<1> HIDE DEF b
<1>4. ExpandBucketOK(b)
  BY <1>1 DEF ExpandBucketOK, TableOK
<1>5. TableOK(b) /\ Found(b) = [Found(a) EXCEPT ![k] = NULL]
  BY <1>1, <1>2, <1>3, <1>4, TableHolds
<1> QED
  BY <1>5 DEF b

LEMMA TableMigrate ==
  ASSUME NoPrefixes, NEW a, TableOK(a), a.expanding
  PROVE  TableOK(MigrateBucket(a)) /\ Found(MigrateBucket(a)) = Found(a)
<1> DEFINE b == MigrateBucket(a)
<1>1. AssocOK(b) /\ ExpandBucketOK(b) /\ InPlace(b) /\ Holds(b, Found(a))
  BY MigrateLemma DEF TableOK
<1> HIDE DEF b
<1>2. TableOK(b) /\ Found(b) = Found(a)
  BY <1>1, TableHolds DEF TableOK
<1> QED
  BY <1>2 DEF b

-----------------------------------------------------------------------------
(***************************************************************************)
(* The counter of items, an unsigned int.                                  *)
(***************************************************************************)

LEMMA DivMod ==
  ASSUME NEW m \in Nat \ {0}, NEW x \in Int
  PROVE  x = m * (x \div m) + (x % m) /\ x % m \in 0 .. m - 1 /\ x \div m \in Int
OBVIOUS

LEMMA RemainderUnique ==
  ASSUME NEW m \in Nat \ {0}, NEW q \in Int, NEW r \in 0 .. m - 1,
         NEW p \in Int, NEW s \in 0 .. m - 1, m * q + r = m * p + s
  PROVE  r = s
<1>1. m * (q - p) = s - r
  OBVIOUS
<1>2. CASE q - p = 0
  BY <1>1, <1>2
<1>3. CASE q - p > 0
  <2>1. m * (q - p) >= m
    BY <1>3
  <2> QED
    BY <1>1, <2>1
<1>4. CASE q - p < 0
  <2>1. m * (q - p) <= 0 - m
    BY <1>4
  <2> QED
    BY <1>1, <2>1
<1> QED
  BY <1>2, <1>3, <1>4

LEMMA ModSum ==
  ASSUME NEW m \in Nat \ {0}, NEW x \in Int, NEW d \in Int
  PROVE  ((x % m) + d) % m = (x + d) % m
<1> DEFINE r == x % m
           q == x \div m
<1>1. x = m * q + r /\ r \in Int /\ q \in Int
  BY DivMod
<1> HIDE DEF r, q
<1> DEFINE q1 == (r + d) \div m
           r1 == (r + d) % m
           q2 == (x + d) \div m
           r2 == (x + d) % m
<1>2. r + d = m * q1 + r1 /\ r1 \in 0 .. m - 1 /\ q1 \in Int
  <2> PICK y : y = r + d
    OBVIOUS
  <2>1. y \in Int
    BY <1>1
  <2>2. y = m * (y \div m) + (y % m) /\ y % m \in 0 .. m - 1 /\ y \div m \in Int
    BY <2>1, DivMod
  <2> QED BY <2>2
<1>3. x + d = m * q2 + r2 /\ r2 \in 0 .. m - 1 /\ q2 \in Int
  <2> PICK y : y = x + d
    OBVIOUS
  <2>1. y \in Int
    OBVIOUS
  <2>2. y = m * (y \div m) + (y % m) /\ y % m \in 0 .. m - 1 /\ y \div m \in Int
    BY <2>1, DivMod
  <2> QED BY <2>2
<1> HIDE DEF q1, r1, q2, r2
<1>4. m * (q + q1) = m * q + m * q1
  BY <1>1, <1>2
<1> PICK p : p = q + q1
  OBVIOUS
<1>5. m * p + r1 = m * q2 + r2 /\ p \in Int
  <2>1. m * q \in Int /\ m * q1 \in Int /\ m * q2 \in Int
    BY <1>1, <1>2, <1>3
  <2>2. (m * q + r) + d = m * q2 + r2 /\ r + d = m * q1 + r1
    BY <1>1, <1>2, <1>3
  <2>3. r1 \in Int /\ r2 \in Int /\ r \in Int
    BY <1>1, <1>2, <1>3
  <2>4. \A i, j, k, l, u \in Int : (i + r) + d = k /\ r + d = j + u => (i + j) + u = k
    BY <2>3
  <2> QED BY <1>1, <1>2, <1>4, <2>1, <2>2, <2>3
<1>6. r1 = r2
  BY <1>2, <1>3, <1>5, RemainderUnique
<1> QED
  BY <1>6 DEF r1, r2, r

\* No item is linked under two keys.
OneKeyPerItem == \A k, l \in Keys : contents[k] # NULL /\ contents[k] = contents[l] => k = l

CountInv ==
  /\ TableInv
  /\ OneKeyPerItem
  /\ IsFiniteSet(Linked)
  /\ HashItemsOffByStart

LEMMA CountInit == Init => CountInv
<1> SUFFICES ASSUME Init PROVE CountInv
  OBVIOUS
<1>1. Linked = {}
  BY DEF Init, Linked
<1>2. IsFiniteSet(Linked) /\ Cardinality(Linked) = 0
  BY <1>1, FS_EmptySet
<1>3. assoc.hash_items = started /\ started \in 0 .. CounterMod - 1
  BY AssocArrayAssumption DEF Init, InitAssoc
<1>4. started = (started + 0) % CounterMod
  <2>1. \A m \in Nat \ {0} : \A x \in 0 .. m - 1 : x + 0 = x /\ x % m = x
    OBVIOUS
  <2> QED BY <1>3, <2>1, CounterType
<1>5. OneKeyPerItem
  BY DEF Init, OneKeyPerItem
<1> QED
  BY <1>2, <1>3, <1>4, <1>5, TableInit DEF CountInv, HashItemsOffByStart

LEMMA CountNext ==
  ASSUME NoPrefixes
  PROVE  CountInv /\ [Next]_vars => CountInv'
<1> SUFFICES ASSUME CountInv, [Next]_vars PROVE CountInv'
  OBVIOUS
<1>1. TableInv /\ OneKeyPerItem /\ IsFiniteSet(Linked) /\ HashItemsOffByStart
  BY DEF CountInv
<1>2. /\ AssocOK(assoc) /\ Holds(assoc, contents)
      /\ contents \in [Keys -> Items \cup {NULL}] /\ started \in Int
  BY <1>1, AssocArrayAssumption, CounterType DEF TableInv, ShapeInv, TypeOK
<1>3. TableInv'
  BY <1>1, TableNext
<1>4. Cardinality(Linked) \in Nat
  BY <1>1, FS_CardinalityType
<1>5. CounterMod \in Nat \ {0} /\ started + Cardinality(Linked) \in Int
  BY <1>2, <1>4, CounterType
<1>6. ASSUME NEW it \in Items, NEW k \in Keys, Insert(it, k) PROVE CountInv'
  <2>1. PICK b \in assoc_insert(assoc, it, k) : assoc' = b
    BY <1>6 DEF Insert
  <2>2. b.hash_items = (assoc.hash_items + 1) % CounterMod
    BY <1>2, <1>6, <2>1, InsertLemma
  <2>3. contents[k] = NULL
    BY <1>2, <1>6, FindLemma DEF Insert
  <2>4. contents' = [contents EXCEPT ![k] = it] /\ it \notin Linked /\ started' = started /\ it # NULL
    BY <1>6, AssocArrayAssumption DEF Insert
  <2>5. Linked' = Linked \cup {it}
    BY <1>2, <2>3, <2>4 DEF Linked
  <2>6. IsFiniteSet(Linked') /\ Cardinality(Linked') = Cardinality(Linked) + 1
    BY <1>1, <2>4, <2>5, FS_AddElement
  <2>7. OneKeyPerItem'
    BY <1>1, <1>2, <2>4 DEF OneKeyPerItem, Linked
  <2>8. HashItemsOffByStart'
    <3> DEFINE n == started + Cardinality(Linked)
    <3>1. b.hash_items = (n + 1) % CounterMod
      BY <1>1, <1>5, <2>2, ModSum DEF HashItemsOffByStart
    <3>2. n + 1 = started + Cardinality(Linked')
      BY <1>2, <1>4, <2>6
    <3> QED
      BY <2>1, <2>4, <3>1, <3>2 DEF HashItemsOffByStart
  <2> QED
    BY <1>3, <2>6, <2>7, <2>8 DEF CountInv
<1>7. ASSUME NEW k \in Keys, Delete(k) PROVE CountInv'
  <2>1. PICK b : b = assoc_delete(assoc, k) /\ assoc' = b
    BY <1>7 DEF Delete
  <2>2. contents[k] # NULL /\ contents' = [contents EXCEPT ![k] = NULL] /\ started' = started
    BY <1>7 DEF Delete
  <2>3. b.hash_items = (assoc.hash_items - 1) % CounterMod
    <3>1. hashitem_before(assoc, k) # 0
      BY <1>2, <1>7, <2>2, FindLemma
    <3> QED
      BY <1>2, <1>7, <2>1, <3>1, DeleteLemma
  <2>4. contents[k] \in Linked /\ Linked' = Linked \ {contents[k]}
    BY <1>1, <1>2, <1>7, <2>2 DEF Linked, OneKeyPerItem
  <2>5. IsFiniteSet(Linked') /\ Cardinality(Linked') = Cardinality(Linked) - 1
    BY <1>1, <2>4, FS_RemoveElement
  <2>6. OneKeyPerItem'
    BY <1>1, <1>2, <2>2 DEF OneKeyPerItem
  <2>7. HashItemsOffByStart'
    <3> DEFINE n == started + Cardinality(Linked)
    <3>1. b.hash_items = (n - 1) % CounterMod
      <4>1. b.hash_items = ((n % CounterMod) + (-1)) % CounterMod
        BY <1>1, <1>5, <2>3, DivMod DEF HashItemsOffByStart
      <4>2. b.hash_items = (n + (-1)) % CounterMod
        BY <1>5, <4>1, ModSum
      <4> QED
        BY <1>5, <4>2
    <3>2. n - 1 = started + Cardinality(Linked')
      BY <1>2, <1>4, <2>5
    <3> QED
      BY <2>1, <2>2, <3>1, <3>2 DEF HashItemsOffByStart
  <2> QED
    BY <1>3, <2>5, <2>6, <2>7 DEF CountInv
<1>8. ASSUME Maintain PROVE CountInv'
  <2>1. assoc.expanding /\ ExpandBucketOK(assoc)
    BY <1>1, <1>8 DEF Maintain, TableInv, ShapeInv, OneMigrator, TypeOK, AssocOK
  <2>2. PICK b : b = MigrateBucket(assoc) /\ assoc' = b
    BY <1>8, <2>1 DEF Maintain
  <2>3. b.hash_items = assoc.hash_items
    BY <1>2, <2>1, <2>2, MigrateLemma
  <2> QED
    BY <1>1, <1>3, <1>8, <2>2, <2>3
    DEF CountInv, Maintain, Linked, OneKeyPerItem, HashItemsOffByStart
<1>9. CASE UNCHANGED vars
  BY <1>1, <1>3, <1>9 DEF vars, CountInv, Linked, OneKeyPerItem, HashItemsOffByStart
<1> QED
  BY <1>6, <1>7, <1>8, <1>9 DEF Next

(***************************************************************************)
(* hash_items is what it was at the start and the number of linked items,  *)
(* modulo 2^32.                                                            *)
(***************************************************************************)
THEOREM HashItemsCount ==
  ASSUME NoPrefixes
  PROVE  Spec => []HashItemsOffByStart
<1>1. CountInv => HashItemsOffByStart
  BY DEF CountInv
<1> QED
  BY <1>1, CountInit, CountNext, PTL DEF Spec
=============================================================================
