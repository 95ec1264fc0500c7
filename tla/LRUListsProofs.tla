--------------------------- MODULE LRUListsProofs ---------------------------
(***************************************************************************)
(* What the functions of LRU_Lists do to its data structures, for every    *)
(* value of the constants: lemmas for the proofs about its users.  They    *)
(* rest on those about the slab allocator and the hash table.              *)
(***************************************************************************)
EXTENDS LRULists, FunctionTheorems, FiniteSetTheorems, SequenceTheorems, TLAPS

SlabFacts == INSTANCE SlabAllocatorProofs
  WITH Requests <- {}, initial_malloc <- 0, AllSettings <- {},
       slabs <- <<>>, out <- <<>>, lost <- <<>>

TableFacts == INSTANCE AssocArrayProofs
  WITH Items <- Slab!Chunk, InitHashItems <- {0},
       assoc <- <<>>, migrators <- 0, contents <- <<>>, started <- 0

Chunks == Slab!Chunk

\* The chunks on the free lists of an allocator.
FreeChunks(s) == SlabFacts!FreeChunks(s)

(***************************************************************************)
(* The allocator is sound, and the chunks of `given' are in use.           *)
(***************************************************************************)
SlabsOK(s, given) ==
  \E dropped :
    /\ s \in Slab!SlabState /\ Slab!EndPageOK(s) /\ Slab!ArraysOK(s)
    /\ Slab!Partitioned(s, given, dropped)
    /\ HeapFails = {FALSE} => dropped = {}

LEMMA SlabAssumptions == SlabFacts!SlabsAssumption /\ SlabFacts!SlabAllocatorAssumption
BY LRUListsAssumption DEF Slab!SlabsAssumption, SlabFacts!SlabsAssumption,
  SlabFacts!SlabAllocatorAssumption,
  Slab!Classes, SlabFacts!Classes, Slab!POWER_SMALLEST, SlabFacts!POWER_SMALLEST,
  Slab!PageLen, SlabFacts!PageLen, Slab!Chunk, SlabFacts!Chunk

LEMMA SameChunks ==
  /\ Slab!Classes = SlabFacts!Classes
  /\ Slab!Chunk = SlabFacts!Chunk
  /\ Slab!SlabState = SlabFacts!SlabState
BY DEF Slab!Chunk, SlabFacts!Chunk, Slab!Classes, SlabFacts!Classes,
  Slab!POWER_SMALLEST, SlabFacts!POWER_SMALLEST,
  Slab!SlabState, SlabFacts!SlabState, Slab!SlabClass, SlabFacts!SlabClass

LEMMA SameInvariants ==
  ASSUME NEW s, NEW given, NEW dropped
  PROVE  /\ Slab!EndPageOK(s) = SlabFacts!EndPageOK(s)
         /\ Slab!ArraysOK(s) = SlabFacts!ArraysOK(s)
         /\ Slab!Partitioned(s, given, dropped) = SlabFacts!Partitioned(s, given, dropped)
<1>1. Slab!EndPageOK(s) = SlabFacts!EndPageOK(s)
  BY SameChunks DEF Slab!EndPageOK, SlabFacts!EndPageOK
<1>2. Slab!ArraysOK(s) = SlabFacts!ArraysOK(s)
  BY SameChunks DEF Slab!ArraysOK, SlabFacts!ArraysOK
<1>3. Slab!Partitioned(s, given, dropped) = SlabFacts!Partitioned(s, given, dropped)
  BY DEF Slab!Partitioned, SlabFacts!Partitioned, Slab!Carved, SlabFacts!Carved,
    Slab!Classes, SlabFacts!Classes, Slab!POWER_SMALLEST, SlabFacts!POWER_SMALLEST,
    Slab!Range, SlabFacts!Range, Slab!IsInjective, SlabFacts!IsInjective
<1> QED
  BY <1>1, <1>2, <1>3

LEMMA SameFree ==
  ASSUME NEW s, NEW x, NEW bytes, NEW id
  PROVE  Slab!do_slabs_free(s, x, bytes, id) = SlabFacts!do_slabs_free(s, x, bytes, id)
BY DEF Slab!do_slabs_free, SlabFacts!do_slabs_free, Slab!SetClass, SlabFacts!SetClass,
  Slab!Classes, SlabFacts!Classes, Slab!POWER_SMALLEST, SlabFacts!POWER_SMALLEST,
  Slab!Grown, SlabFacts!Grown

LEMMA SameAlloc ==
  ASSUME NEW s, NEW bytes, NEW id
  PROVE  Slab!do_slabs_alloc(s, bytes, id) = SlabFacts!do_slabs_alloc(s, bytes, id)
BY DEF
  Slab!Classes, SlabFacts!Classes, Slab!POWER_SMALLEST, SlabFacts!POWER_SMALLEST,
  Slab!SetClass, SlabFacts!SetClass, Slab!Grown, SlabFacts!Grown,
  Slab!do_slabs_alloc, SlabFacts!do_slabs_alloc,
  Slab!FromFreeList, SlabFacts!FromFreeList, Slab!FromPageEnd, SlabFacts!FromPageEnd,
  Slab!do_slabs_newslab, SlabFacts!do_slabs_newslab, Slab!PageLen, SlabFacts!PageLen,
  Slab!grow_slab_list, SlabFacts!grow_slab_list,
  Slab!memory_allocate, SlabFacts!memory_allocate,
  Slab!Aligned, SlabFacts!Aligned, Slab!CHUNK_ALIGN_BYTES, SlabFacts!CHUNK_ALIGN_BYTES,
  Slab!AddPage, SlabFacts!AddPage

\* A chunk that is given out or lost is on no free list.
LEMMA NotFree ==
  ASSUME NEW s, NEW given, NEW dropped, SlabFacts!Partitioned(s, given, dropped),
         NEW c \in given \cup dropped
  PROVE  c \notin FreeChunks(s)
<1> SUFFICES ASSUME NEW j \in SlabFacts!Classes, c \in SlabFacts!Range(s.slabclass[j].slots)
             PROVE  FALSE
  BY DEF FreeChunks, SlabFacts!FreeChunks
<1>1. c \in SlabFacts!Carved(s, j)
  BY DEF SlabFacts!Partitioned
<1>2. c[1] = j
  BY <1>1 DEF SlabFacts!Carved
<1> QED
  BY <1>2 DEF SlabFacts!Partitioned

LEMMA FreeAreChunks ==
  ASSUME NEW s, s \in Slab!SlabState
  PROVE  FreeChunks(s) \subseteq Chunks
BY SameChunks DEF FreeChunks, SlabFacts!FreeChunks, SlabFacts!Range, Chunks,
  Slab!SlabState, Slab!SlabClass

\* The chunk c goes to the free list, or is lost.
SlabFreed(s, given, c, t) ==
  /\ SlabsOK(t, given \ {c})
  /\ FreeChunks(t) \subseteq FreeChunks(s) \cup {c}
  /\ HeapFails = {FALSE} => FreeChunks(t) = FreeChunks(s) \cup {c}

LEMMA SlabFree ==
  ASSUME NEW s, NEW given, SlabsOK(s, given), NEW c, c \in given, c \in Chunks, NEW bytes \in Nat,
         NEW t \in Slab!do_slabs_free(s, c, bytes, c[1])
  PROVE  SlabFreed(s, given, c, t)
<1> USE DEF SlabFreed
<1>1. PICK dropped :
        /\ s \in Slab!SlabState /\ Slab!EndPageOK(s) /\ Slab!ArraysOK(s)
        /\ Slab!Partitioned(s, given, dropped)
        /\ HeapFails = {FALSE} => dropped = {}
  BY DEF SlabsOK
<1>2. /\ s \in SlabFacts!SlabState /\ SlabFacts!EndPageOK(s) /\ SlabFacts!ArraysOK(s)
      /\ SlabFacts!Partitioned(s, given, dropped) /\ c \in SlabFacts!Chunk
      /\ t \in SlabFacts!do_slabs_free(s, c, bytes, c[1])
  BY <1>1, SameChunks, SameInvariants, SameFree DEF Chunks
<1>3. /\ t \in SlabFacts!SlabState /\ SlabFacts!EndPageOK(t) /\ SlabFacts!ArraysOK(t)
      /\ t = s => SlabFacts!Partitioned(t, given \ {c}, dropped \cup {c})
      /\ t # s => SlabFacts!Partitioned(t, given \ {c}, dropped)
  BY <1>2, SlabAssumptions, SlabFacts!FreeLemma
<1>4. \/ t = s /\ HeapFails # {FALSE}
      \/ \A x : x \in FreeChunks(t) <=> x \in FreeChunks(s) \/ x = c
  BY <1>2, SlabAssumptions, SlabFacts!FreeSlots DEF FreeChunks
<1>5. c \notin FreeChunks(s)
  BY <1>2, NotFree
<1>6. CASE t = s /\ HeapFails # {FALSE}
  <2>1. SlabsOK(t, given \ {c})
    BY <1>1, <1>3, <1>6, SameChunks, SameInvariants DEF SlabsOK
  <2> QED
    BY <1>6, <2>1
<1>7. CASE \A x : x \in FreeChunks(t) <=> x \in FreeChunks(s) \/ x = c
  <2>1. t # s
    BY <1>5, <1>7
  <2>2. SlabsOK(t, given \ {c})
    BY <1>1, <1>3, <2>1, SameChunks, SameInvariants DEF SlabsOK
  <2> QED
    BY <1>7, <2>2
<1> QED
  BY <1>4, <1>6, <1>7

\* What do_slabs_alloc of class id returns from s, whose chunks given are in use.
SlabTaken(s, given, o, id) ==
  /\ o.ret = NULL => SlabsOK(o.s, given) /\ FreeChunks(o.s) = FreeChunks(s)
  /\ o.ret # NULL => /\ o.ret \in Chunks /\ o.ret[1] = id /\ o.ret \notin given
                     /\ SlabsOK(o.s, given \cup {o.ret})
                     /\ FreeChunks(o.s) = FreeChunks(s) \ {o.ret}

LEMMA SlabAlloc ==
  ASSUME NEW s, NEW given, SlabsOK(s, given), NEW bytes \in Nat, NEW id,
         NEW o \in Slab!do_slabs_alloc(s, bytes, id)
  PROVE  SlabTaken(s, given, o, id)
<1> USE DEF SlabTaken
<1>1. PICK dropped :
        /\ s \in Slab!SlabState /\ Slab!EndPageOK(s) /\ Slab!ArraysOK(s)
        /\ Slab!Partitioned(s, given, dropped)
        /\ HeapFails = {FALSE} => dropped = {}
  BY DEF SlabsOK
<1>2. /\ s \in SlabFacts!SlabState /\ SlabFacts!EndPageOK(s) /\ SlabFacts!ArraysOK(s)
      /\ SlabFacts!Partitioned(s, given, dropped)
      /\ o \in SlabFacts!do_slabs_alloc(s, bytes, id)
  BY <1>1, SameChunks, SameInvariants, SameAlloc
<1>3. /\ o.s \in SlabFacts!SlabState /\ SlabFacts!EndPageOK(o.s) /\ SlabFacts!ArraysOK(o.s)
      /\ \/ o.ret = NULL /\ SlabFacts!Partitioned(o.s, given, dropped)
         \/ /\ o.ret \in SlabFacts!Chunk
            /\ o.ret \notin given \cup dropped
            /\ SlabFacts!Partitioned(o.s, given \cup {o.ret}, dropped)
  BY <1>2, SlabAssumptions, SlabFacts!AllocLemma
<1>4. /\ o.ret # NULL => o.ret[1] = id
      /\ FreeChunks(o.s) \cup {o.ret} = FreeChunks(s) \cup {o.ret}
  BY <1>2, SlabAssumptions, SlabFacts!AllocSlots DEF FreeChunks
<1>5. NULL \notin Chunks
  BY LRUListsAssumption DEF Slab!SlabsAssumption, Chunks
<1>6. o.ret \notin FreeChunks(o.s)
  <2>1. CASE o.ret = NULL
    BY <1>3, <1>5, <2>1, SameChunks, FreeAreChunks
  <2>2. CASE o.ret # NULL
    <3>1. SlabFacts!Partitioned(o.s, given \cup {o.ret}, dropped)
      BY <1>3, <2>2
    <3> QED
      BY <3>1, NotFree
  <2> QED BY <2>1, <2>2
<1>7. FreeChunks(o.s) = FreeChunks(s) \ {o.ret}
  BY <1>4, <1>6
<1>8. CASE o.ret = NULL
  <2>1. NULL \notin FreeChunks(s)
    BY <1>1, <1>5, FreeAreChunks
  <2>2. SlabsOK(o.s, given)
    <3>1. NULL \notin SlabFacts!Chunk
      BY <1>5, SameChunks DEF Chunks
    <3> QED BY <1>1, <1>3, <1>8, <3>1, SameChunks, SameInvariants DEF SlabsOK
  <2> QED
    BY <1>7, <1>8, <2>1, <2>2
<1>9. CASE o.ret # NULL
  <2>1. SlabsOK(o.s, given \cup {o.ret})
    BY <1>1, <1>3, <1>9, SameChunks, SameInvariants DEF SlabsOK
  <2> QED
    BY <1>3, <1>4, <1>7, <1>9, <2>1, SameChunks DEF Chunks
<1> QED
  BY <1>8, <1>9

LEMMA SlabsInit ==
  ASSUME NEW n \in Nat
  PROVE  SlabsOK(Slab!InitSlabs(n), {}) /\ FreeChunks(Slab!InitSlabs(n)) = {}
<1> DEFINE z == [slots |-> <<>>, sl_total |-> 0, end_page_ptr |-> NULL,
                 end_page_free |-> 0, slabs |-> 0, list_size |-> 0, requested |-> 0]
           s == Slab!InitSlabs(n)
<1>1. z \in Slab!SlabClass
  BY DEF Slab!SlabClass
<1>2. /\ s.slabclass = [id \in Slab!Classes |-> z]
      /\ s.mem_malloced = n
      /\ s.mem_current = 0
      /\ s.mem_avail = IF preallocate THEN mem_limit ELSE 0
      /\ s = [slabclass |-> s.slabclass, mem_malloced |-> s.mem_malloced,
              mem_current |-> s.mem_current, mem_avail |-> s.mem_avail]
  BY DEF Slab!InitSlabs
<1>3. /\ z.slots = <<>> /\ Len(z.slots) = 0 /\ z.sl_total = 0 /\ z.end_page_ptr = NULL
      /\ z.end_page_free = 0 /\ z.slabs = 0 /\ z.list_size = 0
  OBVIOUS
<1>4. mem_limit \in Nat /\ perslab \in [Slab!Classes -> Nat \ {0}]
  BY LRUListsAssumption DEF Slab!SlabsAssumption
<1> HIDE DEF z, s
<1>5. s \in Slab!SlabState
  BY <1>1, <1>2, <1>4 DEF Slab!SlabState
<1>6. Slab!EndPageOK(s) /\ Slab!ArraysOK(s)
  BY <1>2, <1>3, <1>4 DEF Slab!EndPageOK, Slab!ArraysOK
<1>7. Slab!Partitioned(s, {}, {})
  BY <1>2, <1>3 DEF Slab!Partitioned, Slab!Carved, Slab!Range, Slab!IsInjective
<1>8. FreeChunks(s) = {}
  BY <1>2, <1>3, SameChunks DEF FreeChunks, SlabFacts!FreeChunks, SlabFacts!Range
<1> QED
  BY <1>5, <1>6, <1>7, <1>8 DEF SlabsOK, s

-----------------------------------------------------------------------------
(***************************************************************************)
(* The hash table.                                                         *)
(***************************************************************************)

LEMMA TableAssumptions == TableFacts!AssocAssumption /\ TableFacts!AssocArrayAssumption
<1>1. TableFacts!AssocAssumption
  BY LRUListsAssumption DEF Table!AssocAssumption, TableFacts!AssocAssumption
<1>2. NULL \notin Slab!Chunk /\ CounterMod \in Nat \ {0}
  BY LRUListsAssumption DEF Slab!SlabsAssumption, Table!AssocAssumption
<1> QED
  BY <1>1, <1>2 DEF TableFacts!AssocArrayAssumption

LEMMA SameTable ==
  /\ \A a, k : Table!assoc_find(a, k) = TableFacts!assoc_find(a, k)
  /\ \A a, it, k : Table!assoc_insert(a, it, k) = TableFacts!assoc_insert(a, it, k)
  /\ \A a, k : Table!assoc_delete(a, k) = TableFacts!assoc_delete(a, k)
  /\ \A items : Table!InitAssoc(items) = TableFacts!InitAssoc(items)
<1> USE DEF Table!Chain, TableFacts!Chain, Table!WithChain, TableFacts!WithChain,
  Table!which_hashtable, TableFacts!which_hashtable, Table!old_bucket, TableFacts!old_bucket,
  Table!get_bucket, TableFacts!get_bucket, Table!hashsize, TableFacts!hashsize,
  Table!FirstMatch, TableFacts!FirstMatch, Table!IsMatch, TableFacts!IsMatch,
  Table!hashitem_before, TableFacts!hashitem_before
<1>1. \A a, k : Table!assoc_find(a, k) = TableFacts!assoc_find(a, k)
  BY DEF Table!assoc_find, TableFacts!assoc_find
<1>2. \A a, it, k : Table!assoc_insert(a, it, k) = TableFacts!assoc_insert(a, it, k)
  BY DEF Table!assoc_insert, TableFacts!assoc_insert, Table!assoc_expand,
    TableFacts!assoc_expand, Table!Entry, TableFacts!Entry, Table!EmptyTable, TableFacts!EmptyTable
<1>3. \A a, k : Table!assoc_delete(a, k) = TableFacts!assoc_delete(a, k)
  BY DEF Table!assoc_delete, TableFacts!assoc_delete, Table!RemoveAt, TableFacts!RemoveAt
<1>4. \A items : Table!InitAssoc(items) = TableFacts!InitAssoc(items)
  BY DEF Table!InitAssoc, TableFacts!InitAssoc, Table!EmptyTable, TableFacts!EmptyTable
<1> QED
  BY <1>1, <1>2, <1>3, <1>4

LEMMA SameMigrate ==
  ASSUME NEW a
  PROVE  Table!MigrateBucket(a) = TableFacts!MigrateBucket(a)
BY DEF Table!MigrateBucket, TableFacts!MigrateBucket, Table!Pushed, TableFacts!Pushed,
  Table!get_bucket, TableFacts!get_bucket, Table!hashsize, TableFacts!hashsize

LEMMA SamePlaces ==
  ASSUME NEW a
  PROVE  /\ Table!Places(a) = TableFacts!Places(a)
         /\ \A p : Table!At(a, p) = TableFacts!At(a, p)
BY DEF Table!Places, TableFacts!Places, Table!Tables, TableFacts!Tables,
  Table!At, TableFacts!At

\* Two keys that assoc_find would take for each other are the same key.
NoPrefixes == \A k, l \in Keys : Hash[k] = Hash[l] /\ <<k, l>> \in SameBytes => k = l

TableOK(a) == TableFacts!TableOK(a)

\* The item of every key, as assoc_find sees it.
Found(a) == [k \in Keys |-> Table!assoc_find(a, k)]

LEMMA SameFound ==
  ASSUME NEW a
  PROVE  Found(a) = TableFacts!Found(a)
BY SameTable DEF Found, TableFacts!Found

LEMMA SamePremise == NoPrefixes <=> TableFacts!NoPrefixes
BY DEF NoPrefixes, TableFacts!NoPrefixes

LEMMA FoundType ==
  ASSUME NEW a, TableOK(a)
  PROVE  Found(a) \in [Keys -> Chunks \cup {NULL}]
BY SameFound DEF TableOK, TableFacts!TableOK, Chunks

LEMMA TableInit ==
  ASSUME NoPrefixes
  PROVE  /\ TableOK(Table!InitAssoc(0))
         /\ \A k \in Keys : Found(Table!InitAssoc(0))[k] = NULL
<1>1. 0 \in 0 .. CounterMod - 1
  BY LRUListsAssumption DEF Table!AssocAssumption
<1> QED
  BY <1>1, TableAssumptions, SameTable, SameFound, SamePremise, TableFacts!TableAtInit DEF TableOK

LEMMA TableInsert ==
  ASSUME NoPrefixes, NEW a, TableOK(a), NEW x \in Chunks, NEW k \in Keys,
         Found(a)[k] = NULL, NEW b \in Table!assoc_insert(a, x, k)
  PROVE  TableOK(b) /\ Found(b) = [Found(a) EXCEPT ![k] = x]
BY TableAssumptions, SameTable, SameFound, SamePremise, TableFacts!TableInsert DEF TableOK, Chunks

LEMMA TableDelete ==
  ASSUME NoPrefixes, NEW a, TableOK(a), NEW k \in Keys, Found(a)[k] # NULL
  PROVE  /\ TableOK(Table!assoc_delete(a, k))
         /\ Found(Table!assoc_delete(a, k)) = [Found(a) EXCEPT ![k] = NULL]
BY TableAssumptions, SameTable, SameFound, SamePremise, TableFacts!TableDelete DEF TableOK

LEMMA TableMigrate ==
  ASSUME NoPrefixes, NEW a, TableOK(a), a.expanding
  PROVE  TableOK(Table!MigrateBucket(a)) /\ Found(Table!MigrateBucket(a)) = Found(a)
BY TableAssumptions, SameMigrate, SameFound, SamePremise, TableFacts!TableMigrate DEF TableOK

LEMMA TablePlaces ==
  ASSUME NEW a, TableOK(a)
  PROVE  LET P == Table!Places(a)
             map == Found(a)
         IN  /\ \A p \in P : /\ Table!At(a, p).key \in Keys
                             /\ Table!At(a, p).it = map[Table!At(a, p).key]
                             /\ map[Table!At(a, p).key] # NULL
             /\ \A p, q \in P : Table!At(a, p).key = Table!At(a, q).key => p = q
             /\ \A k \in Keys : map[k] # NULL => \E p \in P : Table!At(a, p).key = k
BY TableAssumptions, SamePlaces, SameFound, TableFacts!PlacesLemma DEF TableOK, TableFacts!TableOK

-----------------------------------------------------------------------------
(***************************************************************************)
(* The queues: sequences without repetition.                               *)
(***************************************************************************)

LEMMA RemoveAtLemma ==
  ASSUME NEW S, NEW c \in Seq(S), NEW i \in DOMAIN c, NEW r, r = RemoveAt(c, i)
  PROVE  /\ r \in Seq(S) /\ DOMAIN r = 1 .. (Len(c) - 1)
         /\ \A j \in 1 .. (Len(c) - 1) : r[j] = IF j < i THEN c[j] ELSE c[j + 1]
<1> DEFINE n == Len(c)
           p == SubSeq(c, 1, i - 1)
           q == SubSeq(c, i + 1, n)
<1>1. /\ DOMAIN c = 1 .. n /\ n \in Nat /\ i \in 1 .. n /\ n \in Int /\ i - 1 \in Int /\ i + 1 \in Int
      /\ \A j \in 1 .. i - 1 : c[j] \in S
      /\ \A j \in i + 1 .. n : c[j] \in S
  OBVIOUS
<1>2. p \in Seq(S) /\ Len(p) = i - 1 /\ \A j \in 1 .. i - 1 : p[j] = c[j]
  BY <1>1
<1>3. q \in Seq(S) /\ Len(q) = n - i /\ \A j \in 1 .. n - i : q[j] = c[i + j]
  BY <1>1
<1>4. r = p \o q
  BY DEF RemoveAt
<1> HIDE DEF p, q, n
<1>5. /\ r \in Seq(S) /\ Len(r) = (i - 1) + (n - i)
      /\ \A j \in 1 .. (i - 1) + (n - i) : r[j] = IF j <= i - 1 THEN p[j] ELSE q[j - (i - 1)]
  BY <1>2, <1>3, <1>4, ConcatProperties
<1>6. (i - 1) + (n - i) = n - 1 /\ DOMAIN r = 1 .. Len(r)
  BY <1>1, <1>5
<1>7. ASSUME NEW j \in 1 .. n - 1 PROVE r[j] = IF j < i THEN c[j] ELSE c[j + 1]
  <2>1. r[j] = IF j <= i - 1 THEN p[j] ELSE q[j - (i - 1)]
    BY <1>5, <1>6
  <2>2. CASE j < i
    BY <1>1, <1>2, <2>1, <2>2
  <2>3. CASE ~ (j < i)
    <3>1. j - (i - 1) \in 1 .. n - i /\ i + (j - (i - 1)) = j + 1 /\ ~ (j <= i - 1)
      BY <1>1, <2>3
    <3> QED
      BY <1>3, <2>1, <2>3, <3>1
  <2> QED
    BY <2>2, <2>3
<1> QED
  BY <1>5, <1>6, <1>7 DEF n

\* An item that is in a queue once is taken from its place there.
LEMMA RemovesAt ==
  ASSUME NEW S, NEW c \in Seq(S), IsInjective(c), NEW i \in 1 .. Len(c)
  PROVE  RemoveFirst(c, c[i]) = RemoveAt(c, i)
<1> DEFINE x == c[i]
           hits == {j \in 1 .. Len(c) : c[j] = x}
<1>1. hits = {i}
  BY DEF IsInjective
<1>2. SelectInSeq(c, LAMBDA v : v = x) = i
  <2>1. SelectInSeq(c, LAMBDA v : v = x) = IF hits = {} THEN 0 ELSE CHOOSE y \in hits : \A z \in hits : y <= z
    BY <1>1 DEF SelectInSeq, Min
  <2> HIDE DEF hits
  <2>2. i <= i
    OBVIOUS
  <2> QED
    BY <1>1, <2>1, <2>2
<1> QED
  BY <1>2 DEF RemoveFirst

\* What item_unlink_q makes of a queue.
LEMMA QueueRemove ==
  ASSUME NEW S, NEW c \in Seq(S), IsInjective(c), NEW x \in Range(c),
         NEW r, r = RemoveFirst(c, x)
  PROVE  /\ r \in Seq(S) /\ IsInjective(r) /\ Range(r) = Range(c) \ {x}
         /\ \A j, k \in DOMAIN r : j < k =>
              \E l, m \in DOMAIN c : l < m /\ r[j] = c[l] /\ r[k] = c[m]
<1>1. PICK i \in 1 .. Len(c) : c[i] = x
  BY DEF Range
<1> DEFINE n == Len(c)
<1>4. r = RemoveAt(c, i)
  BY <1>1, RemovesAt
<1>5. /\ r \in Seq(S) /\ DOMAIN r = 1 .. (n - 1) /\ n \in Nat /\ DOMAIN c = 1 .. n
      /\ \A j \in 1 .. (n - 1) : r[j] = IF j < i THEN c[j] ELSE c[j + 1]
  BY <1>1, <1>4, RemoveAtLemma
<1> HIDE DEF n
<1> DEFINE at(j) == IF j < i THEN j ELSE j + 1
<1>6. \A j \in 1 .. (n - 1) : at(j) \in 1 .. n /\ at(j) # i /\ r[j] = c[at(j)]
  BY <1>1, <1>5
<1>7. \A j, k \in 1 .. (n - 1) : /\ j < k => at(j) < at(k)
                                 /\ at(j) = at(k) => j = k
  BY <1>5
<1>8. \A m \in 1 .. n : m # i => \E j \in 1 .. (n - 1) : at(j) = m
  <2> SUFFICES ASSUME NEW m \in 1 .. n, m # i PROVE \E j \in 1 .. (n - 1) : at(j) = m
    OBVIOUS
  <2>1. CASE m < i
    <3>1. m \in 1 .. (n - 1) /\ at(m) = m
      BY <1>1, <1>5, <2>1
    <3> QED BY <3>1
  <2>2. CASE ~(m < i)
    <3>1. m - 1 \in 1 .. (n - 1) /\ at(m - 1) = m
      BY <1>1, <1>5, <2>2
    <3> QED BY <3>1
  <2> QED BY <2>1, <2>2
<1> HIDE DEF at
<1>9. IsInjective(r)
  BY <1>5, <1>6, <1>7 DEF IsInjective
<1>10. \A m \in 1 .. n : c[m] = x => m = i
  BY <1>1, <1>5 DEF IsInjective, n
<1>11. Range(r) = Range(c) \ {x}
  <2>1. ASSUME NEW y \in Range(r) PROVE y \in Range(c) /\ y # x
    <3>1. PICK j \in 1 .. (n - 1) : y = r[j]
      BY <1>5 DEF Range
    <3> QED BY <1>5, <1>6, <1>10, <3>1 DEF Range
  <2>2. ASSUME NEW y \in Range(c), y # x PROVE y \in Range(r)
    <3>1. PICK m \in 1 .. n : y = c[m]
      BY <1>5 DEF Range
    <3>2. m # i
      BY <1>1, <2>2, <3>1
    <3>3. PICK j \in 1 .. (n - 1) : at(j) = m
      BY <1>8, <3>2
    <3> QED BY <1>5, <1>6, <3>1, <3>3 DEF Range
  <2> QED BY <2>1, <2>2
<1>12. \A j, k \in DOMAIN r : j < k =>
         \E l, m \in DOMAIN c : l < m /\ r[j] = c[l] /\ r[k] = c[m]
  BY <1>5, <1>6, <1>7
<1> QED
  BY <1>5, <1>9, <1>11, <1>12

\* What item_link_q makes of a queue.
QueueWith(x, c) == <<x>> \o c

LEMMA QueuePush ==
  ASSUME NEW S, NEW c \in Seq(S), IsInjective(c), NEW x \in S, x \notin Range(c),
         NEW r, r = QueueWith(x, c)
  PROVE  /\ r \in Seq(S) /\ IsInjective(r) /\ Range(r) = Range(c) \cup {x}
         /\ \A j, k \in DOMAIN r : j < k =>
              /\ r[k] \in Range(c)
              /\ r[j] = x \/ \E l, m \in DOMAIN c : l < m /\ r[j] = c[l] /\ r[k] = c[m]
<1> DEFINE n == Len(c)
<1>1. /\ r \in Seq(S) /\ n \in Nat /\ DOMAIN c = 1 .. n /\ DOMAIN r = 1 .. (n + 1)
      /\ r[1] = x /\ \A i \in 1 .. n : r[i + 1] = c[i]
  BY DEF QueueWith
<1> HIDE DEF n
<1>2. /\ \A i \in 1 .. n : i + 1 \in 1 .. (n + 1) /\ i + 1 # 1
      /\ 1 \in 1 .. (n + 1)
  BY <1>1
<1>3. \A i \in 1 .. (n + 1) : i = 1 \/ (i - 1 \in 1 .. n /\ r[i] = c[i - 1])
  <2> SUFFICES ASSUME NEW i \in 1 .. (n + 1), i # 1 PROVE i - 1 \in 1 .. n /\ r[i] = c[i - 1]
    OBVIOUS
  <2>1. i - 1 \in 1 .. n /\ (i - 1) + 1 = i
    BY <1>1
  <2> QED BY <1>1, <2>1
<1>4. Range(r) = Range(c) \cup {x}
  <2>1. ASSUME NEW y \in Range(r) PROVE y \in Range(c) \cup {x}
    <3>1. PICK i \in 1 .. (n + 1) : y = r[i]
      BY <1>1 DEF Range
    <3>2. y = x \/ \E k \in DOMAIN c : y = c[k]
      BY <1>1, <1>3, <3>1
    <3> QED BY <3>2 DEF Range
  <2>2. Range(c) \cup {x} \subseteq Range(r)
    BY <1>1, <1>2 DEF Range
  <2> QED BY <2>1, <2>2
<1>5. IsInjective(r)
  <2> SUFFICES ASSUME NEW i \in 1 .. (n + 1), NEW j \in 1 .. (n + 1), r[i] = r[j] PROVE i = j
    BY <1>1 DEF IsInjective
  <2>1. CASE i # 1 /\ j # 1
    <3>1. /\ i - 1 \in 1 .. n /\ r[i] = c[i - 1]
          /\ j - 1 \in 1 .. n /\ r[j] = c[j - 1]
      BY <1>3, <2>1
    <3>2. i - 1 = j - 1
      BY <1>1, <3>1 DEF IsInjective
    <3> QED BY <3>2
  <2>2. \A l \in 1 .. (n + 1) : l # 1 => r[l] \in Range(c)
    BY <1>1, <1>3 DEF Range
  <2> QED BY <1>1, <2>1, <2>2
<1>6. ASSUME NEW j \in DOMAIN r, NEW k \in DOMAIN r, j < k
      PROVE  /\ r[k] \in Range(c)
             /\ r[j] = x \/ \E l, m \in DOMAIN c : l < m /\ r[j] = c[l] /\ r[k] = c[m]
  <2>1. k # 1 /\ k - 1 \in 1 .. n /\ r[k] = c[k - 1]
    BY <1>1, <1>3, <1>6
  <2>2. CASE j = 1
    BY <1>1, <2>1, <2>2 DEF Range
  <2>3. CASE j # 1
    <3>1. j - 1 \in 1 .. n /\ r[j] = c[j - 1] /\ j - 1 < k - 1
      BY <1>1, <1>3, <1>6, <2>3
    <3> QED BY <1>1, <2>1, <3>1 DEF Range
  <2> QED BY <2>2, <2>3
<1> QED
  BY <1>1, <1>4, <1>5, <1>6

-----------------------------------------------------------------------------
(***************************************************************************)
(* The invariant of the data structures of LRU_Lists, in four parts, with  *)
(* the chunks of E taken from the allocator and not yet made an item.      *)
(***************************************************************************)

IsCache(c) ==
  /\ c = [slabs |-> c.slabs, assoc |-> c.assoc, lru |-> c.lru, mem |-> c.mem, ok |-> c.ok]
  /\ c.ok \in BOOLEAN

IsItem(it) ==
  /\ it = [key |-> it.key, val |-> it.val, bytes |-> it.bytes, time |-> it.time,
           refcount |-> it.refcount, iflag |-> it.iflag, slabs_clsid |-> it.slabs_clsid]
  /\ it.bytes \in Nat /\ it.time \in Nat /\ it.refcount \in 0 .. RefMod - 1
  /\ it.iflag \subseteq {LINKED, SLABBED}
  /\ it.slabs_clsid \in 0 .. power_largest

IsSlabbed(c, x) == SLABBED \in Item(c, x).iflag

Occupied(c) == {x \in DOMAIN c.mem : ~IsSlabbed(c, x)}
Slabbed(c) == {x \in DOMAIN c.mem : IsSlabbed(c, x)}

HeadersOK(c) ==
  /\ DOMAIN c.mem \subseteq Chunks /\ IsFiniteSet(DOMAIN c.mem)
  /\ \A x \in DOMAIN c.mem :
       /\ IsItem(Item(c, x)) /\ Item(c, x).key \in Keys
       /\ IsSlabbed(c, x) => /\ ~IsLinked(c, x) /\ Item(c, x).refcount = 0
                             /\ Item(c, x).slabs_clsid = 0
       /\ ~IsSlabbed(c, x) => Item(c, x).slabs_clsid = x[1]

TableAgrees(c) ==
  /\ TableOK(c.assoc)
  /\ \A x \in LinkedItems(c) : Found(c.assoc)[Item(c, x).key] = x
  /\ \A k \in Keys : Found(c.assoc)[k] # NULL =>
       Found(c.assoc)[k] \in LinkedItems(c) /\ Item(c, Found(c.assoc)[k]).key = k

AreQueues(lru) == lru = [id \in 0 .. power_largest |-> lru[id]]

QueuesAgree(c) ==
  /\ AreQueues(c.lru)
  /\ \A id \in 0 .. power_largest :
       /\ c.lru[id] \in Seq(Chunks) /\ IsInjective(c.lru[id])
       /\ Range(c.lru[id]) = {x \in LinkedItems(c) : Item(c, x).slabs_clsid = id}

MemoryOK(c, E) ==
  /\ SlabsOK(c.slabs, Occupied(c) \cup E) /\ E \cap Occupied(c) = {}
  /\ FreeChunks(c.slabs) \subseteq Slabbed(c)
  /\ HeapFails = {FALSE} => Slabbed(c) \subseteq FreeChunks(c.slabs) \cup E

CacheOK(c, E) ==
  /\ IsCache(c) /\ c.ok
  /\ HeadersOK(c) /\ TableAgrees(c) /\ QueuesAgree(c) /\ MemoryOK(c, E)

LEMMA Flags == LINKED # SLABBED
BY DEF LINKED, SLABBED

LEMMA NullIsNoChunk == NULL \notin Chunks
BY LRUListsAssumption DEF Slab!SlabsAssumption, Chunks

LEMMA RefType == RefMod \in Nat /\ RefMod > 1
BY LRUListsAssumption

\* The two ways to write a cache, seen from the fields that they leave alone.
LEMMA WithItemView ==
  ASSUME NEW c, IsCache(c), NEW x, NEW it
  PROVE  LET d == WithItem(c, x, it) IN
         /\ IsCache(d) /\ d.slabs = c.slabs /\ d.assoc = c.assoc /\ d.lru = c.lru /\ d.ok = c.ok
         /\ DOMAIN d.mem = DOMAIN c.mem \cup {x} /\ Item(d, x) = it
         /\ \A y : y # x => Item(d, y) = Item(c, y)
<1> DEFINE d == WithItem(c, x, it)
           m == [y \in DOMAIN c.mem \cup {x} |-> IF y = x THEN it ELSE c.mem[y]]
<1>1. d = [c EXCEPT !.mem = m]
  BY DEF WithItem
<1> HIDE DEF m, d
<1>2. /\ d = [slabs |-> c.slabs, assoc |-> c.assoc, lru |-> c.lru, mem |-> m, ok |-> c.ok]
      /\ c.ok \in BOOLEAN
  BY <1>1 DEF IsCache
<1>3. /\ d.slabs = c.slabs /\ d.assoc = c.assoc /\ d.lru = c.lru /\ d.ok = c.ok /\ d.mem = m
      /\ IsCache(d)
  BY <1>2 DEF IsCache
<1>4. DOMAIN m = DOMAIN c.mem \cup {x} /\ m[x] = it /\ \A y \in DOMAIN c.mem : y # x => m[y] = c.mem[y]
  BY DEF m
<1> QED
  BY <1>3, <1>4 DEF Item, d

LEMMA CheckView ==
  ASSUME NEW c, IsCache(c), NEW cond \in BOOLEAN
  PROVE  LET d == Check(c, cond) IN
         /\ IsCache(d) /\ d.slabs = c.slabs /\ d.assoc = c.assoc /\ d.lru = c.lru /\ d.mem = c.mem
         /\ d.ok <=> c.ok /\ cond
         /\ \A y : Item(d, y) = Item(c, y)
<1>1. /\ Check(c, cond) = [slabs |-> c.slabs, assoc |-> c.assoc, lru |-> c.lru,
                           mem |-> c.mem, ok |-> c.ok /\ cond]
      /\ c.ok \in BOOLEAN
  BY DEF Check, IsCache
<1> QED
  BY <1>1 DEF IsCache, Item

LEMMA ItemType ==
  ASSUME NEW c, HeadersOK(c), NEW x, x \in DOMAIN c.mem \/ IsLinked(c, x)
  PROVE  x \in DOMAIN c.mem /\ x \in Chunks /\ IsItem(Item(c, x)) /\ Item(c, x).key \in Keys
<1>1. x \in DOMAIN c.mem
  BY DEF IsLinked, Item, ZeroedItem
<1> QED
  BY <1>1 DEF HeadersOK

(***************************************************************************)
(* Time, refcount and data of an item in use concern no data structure.    *)
(***************************************************************************)
LEMMA ChangeHeader ==
  ASSUME NEW c, NEW E, CacheOK(c, E), NEW x \in Occupied(c), NEW it, IsItem(it),
         it.key = Item(c, x).key, it.iflag = Item(c, x).iflag,
         it.slabs_clsid = Item(c, x).slabs_clsid,
         NEW d, d = WithItem(c, x, it)
  PROVE  /\ CacheOK(d, E) /\ DOMAIN d.mem = DOMAIN c.mem /\ Occupied(d) = Occupied(c)
         /\ d.assoc = c.assoc /\ d.lru = c.lru
         /\ Item(d, x) = it /\ \A y : y # x => Item(d, y) = Item(c, y)
<1>1. /\ IsCache(d) /\ d.slabs = c.slabs /\ d.assoc = c.assoc /\ d.lru = c.lru /\ d.ok = c.ok
      /\ DOMAIN d.mem = DOMAIN c.mem \cup {x} /\ Item(d, x) = it
      /\ \A y : y # x => Item(d, y) = Item(c, y)
  <2>1. IsCache(c)
    BY DEF CacheOK
  <2> QED BY <2>1, WithItemView
<1>2. x \in DOMAIN c.mem /\ DOMAIN d.mem = DOMAIN c.mem
  BY <1>1 DEF Occupied
<1>3. /\ \A y : Item(d, y).key = Item(c, y).key /\ Item(d, y).iflag = Item(c, y).iflag
      /\ \A y : Item(d, y).slabs_clsid = Item(c, y).slabs_clsid
  BY <1>1
<1>4. /\ \A y : (IsSlabbed(d, y) <=> IsSlabbed(c, y)) /\ (IsLinked(d, y) <=> IsLinked(c, y))
  BY <1>3 DEF IsSlabbed, IsLinked
<1>5. LinkedItems(d) = LinkedItems(c) /\ Occupied(d) = Occupied(c) /\ Slabbed(d) = Slabbed(c)
  BY <1>2, <1>4 DEF LinkedItems, Occupied, Slabbed
<1>6. HeadersOK(d)
  <2>1. HeadersOK(c) /\ ~IsSlabbed(c, x)
    BY DEF CacheOK, Occupied
  <2>2. Item(d, x) = it /\ ~IsSlabbed(d, x) /\ it.key \in Keys /\ it.slabs_clsid = x[1]
    BY <1>1, <1>2, <1>4, <2>1 DEF HeadersOK
  <2>3. ASSUME NEW y \in DOMAIN d.mem, y # x
        PROVE  Item(d, y) = Item(c, y) /\ y \in DOMAIN c.mem
    BY <1>1, <1>2, <2>3
  <2>4. ASSUME NEW y \in DOMAIN d.mem
        PROVE  /\ IsItem(Item(d, y)) /\ Item(d, y).key \in Keys
               /\ IsSlabbed(d, y) => /\ ~IsLinked(d, y) /\ Item(d, y).refcount = 0
                                     /\ Item(d, y).slabs_clsid = 0
               /\ ~IsSlabbed(d, y) => Item(d, y).slabs_clsid = y[1]
    <3>1. CASE y = x
      BY <2>2, <3>1
    <3>2. CASE y # x
      BY <1>4, <2>1, <2>3, <3>2 DEF HeadersOK
    <3> QED BY <3>1, <3>2
  <2>5. DOMAIN d.mem \subseteq Chunks /\ IsFiniteSet(DOMAIN d.mem)
    BY <1>2, <2>1 DEF HeadersOK
  <2> QED BY <2>4, <2>5 DEF HeadersOK
<1>7. TableAgrees(d)
  BY <1>1, <1>3, <1>5 DEF TableAgrees, CacheOK
<1>8. QueuesAgree(d)
  BY <1>1, <1>3, <1>5 DEF QueuesAgree, CacheOK
<1>9. MemoryOK(d, E)
  BY <1>1, <1>5 DEF MemoryOK, CacheOK
<1> QED
  BY <1>1, <1>2, <1>5, <1>6, <1>7, <1>8, <1>9 DEF CacheOK

\* The other fields of a cache, written one at a time.
WithSlabs(c, s) == [c EXCEPT !.slabs = s]
WithAssoc(c, a) == [c EXCEPT !.assoc = a]
WithQueue(c, id, q) == [c EXCEPT !.lru[id] = q]

LEMMA WithSlabsView ==
  ASSUME NEW c, IsCache(c), NEW v
  PROVE  LET d == WithSlabs(c, v) IN
         /\ IsCache(d) /\ d.slabs = v /\ d.assoc = c.assoc /\ d.lru = c.lru
         /\ d.mem = c.mem /\ d.ok = c.ok /\ \A y : Item(d, y) = Item(c, y)
<1> PICK d : d = WithSlabs(c, v)
  OBVIOUS
<1>1. /\ d = [slabs |-> v, assoc |-> c.assoc, lru |-> c.lru, mem |-> c.mem, ok |-> c.ok]
      /\ c.ok \in BOOLEAN
  BY DEF WithSlabs, IsCache
<1> QED
  BY <1>1 DEF IsCache, Item

LEMMA WithAssocView ==
  ASSUME NEW c, IsCache(c), NEW v
  PROVE  LET d == WithAssoc(c, v) IN
         /\ IsCache(d) /\ d.slabs = c.slabs /\ d.assoc = v /\ d.lru = c.lru
         /\ d.mem = c.mem /\ d.ok = c.ok /\ \A y : Item(d, y) = Item(c, y)
<1> PICK d : d = WithAssoc(c, v)
  OBVIOUS
<1>1. /\ d = [slabs |-> c.slabs, assoc |-> v, lru |-> c.lru, mem |-> c.mem, ok |-> c.ok]
      /\ c.ok \in BOOLEAN
  BY DEF WithAssoc, IsCache
<1> QED
  BY <1>1 DEF IsCache, Item

LEMMA WithQueueView ==
  ASSUME NEW c, IsCache(c), NEW id \in 0 .. power_largest, NEW v,
         AreQueues(c.lru)
  PROVE  LET d == WithQueue(c, id, v) IN
         /\ IsCache(d) /\ d.slabs = c.slabs /\ d.assoc = c.assoc /\ d.mem = c.mem
         /\ AreQueues(d.lru)
         /\ \A i \in 0 .. power_largest : d.lru[i] = IF i = id THEN v ELSE c.lru[i]
         /\ d.ok = c.ok /\ \A y : Item(d, y) = Item(c, y)
<1> PICK d : d = WithQueue(c, id, v)
  OBVIOUS
<1> PICK lru : lru = [c.lru EXCEPT ![id] = v]
  OBVIOUS
<1>1. /\ d = [slabs |-> c.slabs, assoc |-> c.assoc, lru |-> lru, mem |-> c.mem, ok |-> c.ok]
      /\ c.ok \in BOOLEAN
  BY DEF WithQueue, IsCache
<1>2. /\ AreQueues(lru)
      /\ \A i \in 0 .. power_largest : lru[i] = IF i = id THEN v ELSE c.lru[i]
  BY DEF AreQueues
<1> QED
  BY <1>1, <1>2 DEF IsCache, Item

\* Only x changes, and of it only what `flags' and slabs_clsid say.
OnlyFlags(c, d, x) ==
  /\ DOMAIN d.mem = DOMAIN c.mem
  /\ \A y : y # x => Item(d, y) = Item(c, y)
  /\ Item(d, x).key = Item(c, x).key /\ Item(d, x).val = Item(c, x).val
  /\ Item(d, x).time = Item(c, x).time /\ Item(d, x).refcount = Item(c, x).refcount

\* What is written in the header of a freed item.
Freed(it) == [it EXCEPT !.slabs_clsid = 0, !.iflag = @ \cup {SLABBED}]

LEMMA ItemFreed ==
  ASSUME NEW it, IsItem(it)
  PROVE  LET f == Freed(it) IN
         /\ IsItem(f) /\ f.iflag = it.iflag \cup {SLABBED} /\ f.slabs_clsid = 0
         /\ f.key = it.key /\ f.val = it.val /\ f.bytes = it.bytes
         /\ f.time = it.time /\ f.refcount = it.refcount
<1> PICK f : f = Freed(it)
  OBVIOUS
<1>1. power_largest \in Nat
  BY LRUListsAssumption DEF Slab!SlabsAssumption
<1>2. f = [key |-> it.key, val |-> it.val, bytes |-> it.bytes, time |-> it.time,
           refcount |-> it.refcount, iflag |-> it.iflag \cup {SLABBED}, slabs_clsid |-> 0]
  BY DEF IsItem, Freed
<1> QED
  BY <1>1, <1>2 DEF IsItem

(***************************************************************************)
(* item_free of an item that is not linked and that nobody refers to.      *)
(***************************************************************************)
LEMMA FreeItem ==
  ASSUME NEW c, CacheOK(c, {}), NEW x \in Occupied(c), ~IsLinked(c, x), Item(c, x).refcount = 0,
         NEW d \in item_free(c, x)
  PROVE  /\ CacheOK(d, {}) /\ OnlyFlags(c, d, x) /\ IsSlabbed(d, x) /\ ~IsLinked(d, x)
         /\ d.assoc = c.assoc /\ d.lru = c.lru
<1> DEFINE it == Item(c, x)
           q == c.lru[it.slabs_clsid]
           freed == Freed(it)
           cond == /\ LINKED \notin it.iflag
                   /\ q # <<>> => x \notin {q[1], q[Len(q)]}
                   /\ it.refcount = 0
           w == WithItem(c, x, freed)
           u == Check(w, cond)
<1>1. PICK s \in Slab!do_slabs_free(c.slabs, x, it.bytes, it.slabs_clsid) : d = WithSlabs(u, s)
  BY DEF item_free, WithSlabs, Freed
<1>2. /\ IsCache(c) /\ c.ok /\ x \in DOMAIN c.mem /\ x \in Chunks /\ IsItem(it) /\ it.key \in Keys
      /\ it.slabs_clsid = x[1] /\ it.slabs_clsid \in 0 .. power_largest
      /\ it.bytes \in Nat /\ x[1] \in Slab!Classes
  BY ItemType DEF CacheOK, HeadersOK, Occupied, IsItem, Chunks, Slab!Chunk
<1>3. cond
  <2>1. q \in Seq(Chunks) /\ Range(q) = {y \in LinkedItems(c) : Item(c, y).slabs_clsid = it.slabs_clsid}
    BY <1>2 DEF CacheOK, QueuesAgree
  <2>2. x \notin Range(q)
    BY <2>1 DEF LinkedItems
  <2>3. q # <<>> => q[1] \in Range(q) /\ q[Len(q)] \in Range(q)
    BY <2>1 DEF Range
  <2> QED BY <2>2, <2>3 DEF IsLinked
<1>4. /\ IsItem(freed) /\ freed.iflag = it.iflag \cup {SLABBED} /\ freed.slabs_clsid = 0
      /\ freed.key = it.key /\ freed.val = it.val /\ freed.bytes = it.bytes
      /\ freed.time = it.time /\ freed.refcount = it.refcount
  <2>1. IsItem(it)
    BY <1>2
  <2> HIDE DEF it
  <2> QED BY <2>1, ItemFreed
<1> HIDE DEF freed, cond
<1>5. /\ IsCache(w) /\ w.slabs = c.slabs /\ w.assoc = c.assoc /\ w.lru = c.lru /\ w.ok = c.ok
      /\ DOMAIN w.mem = DOMAIN c.mem \cup {x} /\ Item(w, x) = freed
      /\ \A y : y # x => Item(w, y) = Item(c, y)
  <2>1. IsCache(c)
    BY <1>2
  <2> HIDE DEF it
  <2> QED BY <2>1, WithItemView
<1> HIDE DEF w
<1>6. /\ IsCache(u) /\ u.slabs = c.slabs /\ u.assoc = c.assoc /\ u.lru = c.lru /\ u.ok
      /\ DOMAIN u.mem = DOMAIN c.mem /\ Item(u, x) = freed
      /\ \A y : y # x => Item(u, y) = Item(c, y)
  <2>1. cond \in BOOLEAN
    BY DEF cond
  <2>2. /\ IsCache(u) /\ u.slabs = w.slabs /\ u.assoc = w.assoc /\ u.lru = w.lru /\ u.mem = w.mem
        /\ (u.ok <=> w.ok /\ cond) /\ \A y : Item(u, y) = Item(w, y)
    BY <1>5, <2>1, CheckView
  <2> QED BY <1>2, <1>3, <1>5, <2>2
<1> HIDE DEF u, it, q
<1>7. /\ IsCache(d) /\ d.slabs = s /\ d.assoc = c.assoc /\ d.lru = c.lru /\ d.ok
      /\ DOMAIN d.mem = DOMAIN c.mem /\ Item(d, x) = freed
      /\ \A y : y # x => Item(d, y) = Item(c, y)
  <2>1. IsCache(u)
    BY <1>6
  <2>2. /\ IsCache(d) /\ d.slabs = s /\ d.assoc = u.assoc /\ d.lru = u.lru
        /\ d.mem = u.mem /\ d.ok = u.ok /\ \A y : Item(d, y) = Item(u, y)
    BY <1>1, <2>1, WithSlabsView
  <2> QED BY <1>6, <2>2
<1>8. OnlyFlags(c, d, x) /\ IsSlabbed(d, x) /\ ~IsLinked(d, x)
  BY <1>4, <1>7, Flags DEF OnlyFlags, IsSlabbed, IsLinked, it
<1>9. \A y : y # x => (IsSlabbed(d, y) <=> IsSlabbed(c, y)) /\ (IsLinked(d, y) <=> IsLinked(c, y))
  BY <1>7 DEF IsSlabbed, IsLinked
<1>10. /\ LinkedItems(d) = LinkedItems(c) /\ Occupied(d) = Occupied(c) \ {x}
       /\ Slabbed(d) = Slabbed(c) \cup {x}
  BY <1>2, <1>7, <1>8, <1>9 DEF LinkedItems, Occupied, Slabbed
<1>11. HeadersOK(d)
  BY <1>2, <1>4, <1>7, <1>8, <1>9 DEF HeadersOK, CacheOK, it
<1>12. TableAgrees(d) /\ QueuesAgree(d)
  <2>1. \A y \in LinkedItems(c) : Item(d, y) = Item(c, y)
    BY <1>7 DEF LinkedItems
  <2> QED BY <1>7, <1>10, <2>1 DEF TableAgrees, QueuesAgree, CacheOK
<1>13. MemoryOK(d, {})
  <2>1. SlabsOK(c.slabs, Occupied(c)) /\ FreeChunks(c.slabs) \subseteq Slabbed(c)
        /\ (HeapFails = {FALSE} => Slabbed(c) \subseteq FreeChunks(c.slabs))
    <3>1. Occupied(c) \cup {} = Occupied(c)
      OBVIOUS
    <3> QED BY <3>1 DEF CacheOK, MemoryOK
  <2>2. /\ SlabsOK(s, Occupied(c) \ {x})
        /\ FreeChunks(s) \subseteq FreeChunks(c.slabs) \cup {x}
        /\ HeapFails = {FALSE} => FreeChunks(s) = FreeChunks(c.slabs) \cup {x}
    <3>1. s \in Slab!do_slabs_free(c.slabs, x, Item(c, x).bytes, x[1]) /\ Item(c, x).bytes \in Nat
      BY <1>1, <1>2 DEF it
    <3>2. x \in Occupied(c) /\ x \in Chunks /\ SlabsOK(c.slabs, Occupied(c))
      BY <1>2, <2>1
    <3>3. SlabFreed(c.slabs, Occupied(c), x, s)
      BY <3>1, <3>2, SlabFree
    <3> QED BY <3>3 DEF SlabFreed
  <2>3. Occupied(d) \cup {} = Occupied(c) \ {x}
    BY <1>10
  <2> QED BY <1>7, <1>10, <2>1, <2>2, <2>3 DEF MemoryOK
<1> QED
  BY <1>7, <1>8, <1>11, <1>12, <1>13 DEF CacheOK

\* What is written in the header of an item that is unlinked.
NotLinked(it) == [it EXCEPT !.iflag = @ \ {LINKED}]

LEMMA ItemNotLinked ==
  ASSUME NEW it, IsItem(it)
  PROVE  LET f == NotLinked(it) IN
         /\ IsItem(f) /\ f.iflag = it.iflag \ {LINKED} /\ f.slabs_clsid = it.slabs_clsid
         /\ f.key = it.key /\ f.val = it.val /\ f.bytes = it.bytes
         /\ f.time = it.time /\ f.refcount = it.refcount
<1> PICK f : f = NotLinked(it)
  OBVIOUS
<1>1. f = [key |-> it.key, val |-> it.val, bytes |-> it.bytes, time |-> it.time,
           refcount |-> it.refcount, iflag |-> it.iflag \ {LINKED}, slabs_clsid |-> it.slabs_clsid]
  BY DEF IsItem, NotLinked
<1> QED
  BY <1>1 DEF IsItem

\* The first part of do_item_unlink: out of the table, and out of the queue.
Unlinked(c, x) ==
  LET it == Item(c, x)
      d == WithItem(c, x, [it EXCEPT !.iflag = @ \ {LINKED}])
      e == Check([d EXCEPT !.assoc = Table!assoc_delete(@, it.key)],
                 Table!assoc_find(c.assoc, it.key) # NULL)
  IN  item_unlink_q(e, x)

LEMMA UnlinkItem ==
  ASSUME NoPrefixes, NEW c, CacheOK(c, {}), NEW x, IsLinked(c, x), NEW f, f = Unlinked(c, x)
  PROVE  /\ CacheOK(f, {}) /\ OnlyFlags(c, f, x) /\ ~IsLinked(f, x) /\ x \in Occupied(f)
         /\ QueuesSorted(c) => QueuesSorted(f)
<1> DEFINE it == Item(c, x)
           id == it.slabs_clsid
           found == Table!assoc_find(c.assoc, it.key) # NULL
           w == WithItem(c, x, NotLinked(it))
           v == WithAssoc(w, Table!assoc_delete(w.assoc, it.key))
           e == Check(v, found)
           q == RemoveFirst(c.lru[id], x)
           u == WithQueue(e, id, RemoveFirst(e.lru[id], x))
<1>1. /\ IsCache(c) /\ c.ok /\ x \in DOMAIN c.mem /\ x \in Chunks /\ IsItem(it) /\ it.key \in Keys
      /\ id = x[1] /\ id \in 0 .. power_largest /\ ~IsSlabbed(c, x) /\ x \in LinkedItems(c)
      /\ AreQueues(c.lru)
  BY ItemType DEF CacheOK, HeadersOK, Occupied, IsItem, LinkedItems, QueuesAgree
<1>2. /\ Found(c.assoc)[it.key] = x /\ found
  BY <1>1, NullIsNoChunk DEF CacheOK, TableAgrees, Found
<1>3. /\ IsCache(w) /\ w.slabs = c.slabs /\ w.assoc = c.assoc /\ w.lru = c.lru /\ w.ok = c.ok
      /\ DOMAIN w.mem = DOMAIN c.mem /\ Item(w, x) = NotLinked(it)
      /\ \A y : y # x => Item(w, y) = Item(c, y)
  <2>1. IsCache(c) /\ DOMAIN c.mem \cup {x} = DOMAIN c.mem
    BY <1>1
  <2> DEFINE new == NotLinked(it)
  <2> HIDE DEF new
  <2>2. /\ IsCache(w) /\ w.slabs = c.slabs /\ w.assoc = c.assoc /\ w.lru = c.lru /\ w.ok = c.ok
        /\ DOMAIN w.mem = DOMAIN c.mem \cup {x} /\ Item(w, x) = new
        /\ \A y : y # x => Item(w, y) = Item(c, y)
    BY <2>1, WithItemView DEF new
  <2> QED BY <2>1, <2>2 DEF new
<1>4. /\ IsItem(NotLinked(it)) /\ NotLinked(it).iflag = it.iflag \ {LINKED}
      /\ NotLinked(it).slabs_clsid = id /\ NotLinked(it).key = it.key /\ NotLinked(it).val = it.val
      /\ NotLinked(it).time = it.time /\ NotLinked(it).refcount = it.refcount
  <2>1. IsItem(it)
    BY <1>1
  <2> HIDE DEF it
  <2> QED BY <2>1, ItemNotLinked
<1>5. f = Check(u, x \in Range(e.lru[id]))
  <2>1. Item(e, x) = NotLinked(it)
    <3>1. found \in BOOLEAN /\ IsCache(w)
      BY <1>3
    <3> HIDE DEF w, found
    <3>2. IsCache(v) /\ \A y : Item(v, y) = Item(w, y)
      BY <3>1, WithAssocView
    <3> HIDE DEF v
    <3>3. \A y : Item(e, y) = Item(v, y)
      BY <3>1, <3>2, CheckView
    <3> HIDE DEF e
    <3> QED BY <1>3, <3>2, <3>3
  <2>2. f = item_unlink_q(e, x)
    BY DEF Unlinked, NotLinked, WithAssoc
  <2>3. Item(e, x).slabs_clsid = id
    BY <1>4, <2>1
  <2> HIDE DEF e, id
  <2> QED BY <2>2, <2>3 DEF item_unlink_q, WithQueue
<1> HIDE DEF w
<1>6. /\ IsCache(v) /\ v.slabs = c.slabs /\ v.assoc = Table!assoc_delete(c.assoc, it.key)
      /\ v.lru = c.lru /\ v.mem = w.mem /\ v.ok = c.ok /\ \A y : Item(v, y) = Item(w, y)
  BY <1>3, WithAssocView
<1> HIDE DEF v
<1>7. /\ IsCache(e) /\ e.slabs = c.slabs /\ e.assoc = Table!assoc_delete(c.assoc, it.key)
      /\ e.lru = c.lru /\ e.mem = w.mem /\ e.ok /\ \A y : Item(e, y) = Item(w, y)
  <2>1. found \in BOOLEAN
    OBVIOUS
  <2> HIDE DEF found
  <2>2. /\ IsCache(e) /\ e.slabs = v.slabs /\ e.assoc = v.assoc /\ e.lru = v.lru /\ e.mem = v.mem
        /\ (e.ok <=> v.ok /\ found) /\ \A y : Item(e, y) = Item(v, y)
    BY <1>6, <2>1, CheckView
  <2> QED BY <1>1, <1>2, <1>6, <2>2
<1> HIDE DEF e
<1>8. /\ IsCache(u) /\ u.slabs = c.slabs /\ u.assoc = e.assoc /\ u.mem = w.mem /\ AreQueues(u.lru)
      /\ u.lru[id] = q /\ \A i \in 0 .. power_largest : i # id => u.lru[i] = c.lru[i]
      /\ u.ok /\ \A y : Item(u, y) = Item(w, y)
  <2>1. IsCache(e) /\ id \in 0 .. power_largest /\ AreQueues(e.lru)
    BY <1>1, <1>7
  <2> HIDE DEF id
  <2>2. /\ IsCache(u) /\ u.slabs = e.slabs /\ u.assoc = e.assoc /\ u.mem = e.mem /\ AreQueues(u.lru)
        /\ \A i \in 0 .. power_largest : u.lru[i] = IF i = id THEN RemoveFirst(e.lru[id], x) ELSE e.lru[i]
        /\ u.ok = e.ok /\ \A y : Item(u, y) = Item(e, y)
    BY <2>1, WithQueueView
  <2>3. u.lru[id] = RemoveFirst(e.lru[id], x)
    BY <2>1, <2>2
  <2> QED BY <1>7, <2>2, <2>3
<1> HIDE DEF u, found
<1>9. /\ c.lru[id] \in Seq(Chunks) /\ IsInjective(c.lru[id]) /\ x \in Range(c.lru[id])
      /\ Range(c.lru[id]) = {y \in LinkedItems(c) : Item(c, y).slabs_clsid = id}
  BY <1>1 DEF CacheOK, QueuesAgree
<1>10. /\ IsCache(f) /\ f.slabs = c.slabs /\ f.assoc = Table!assoc_delete(c.assoc, it.key)
       /\ AreQueues(f.lru) /\ f.lru[id] = q /\ \A i \in 0 .. power_largest : i # id => f.lru[i] = c.lru[i]
       /\ f.ok /\ DOMAIN f.mem = DOMAIN c.mem /\ Item(f, x) = NotLinked(it)
       /\ \A y : y # x => Item(f, y) = Item(c, y)
  <2> DEFINE cond == x \in Range(e.lru[id])
  <2>1. cond \in BOOLEAN
    OBVIOUS
  <2>4. cond
    BY <1>7, <1>9
  <2> HIDE DEF cond
  <2> DEFINE g == Check(u, cond)
  <2>2. f = g
    BY <1>5 DEF cond
  <2>5. IsCache(u)
    BY <1>8
  <2>3. /\ IsCache(g) /\ g.slabs = u.slabs /\ g.assoc = u.assoc /\ g.lru = u.lru /\ g.mem = u.mem
        /\ (g.ok <=> u.ok /\ cond) /\ \A y : Item(g, y) = Item(u, y)
    BY <2>1, <2>5, CheckView
  <2> HIDE DEF g
  <2> QED BY <1>3, <1>7, <1>8, <2>2, <2>3, <2>4
<1> HIDE DEF it, id, q
<1>11. OnlyFlags(c, f, x) /\ ~IsLinked(f, x) /\ ~IsSlabbed(f, x)
  BY <1>1, <1>4, <1>10 DEF OnlyFlags, IsLinked, IsSlabbed, it
<1>12. \A y : y # x => (IsSlabbed(f, y) <=> IsSlabbed(c, y)) /\ (IsLinked(f, y) <=> IsLinked(c, y))
  BY <1>10 DEF IsSlabbed, IsLinked
<1>13. /\ LinkedItems(f) = LinkedItems(c) \ {x} /\ Occupied(f) = Occupied(c)
       /\ Slabbed(f) = Slabbed(c)
  BY <1>1, <1>10, <1>11, <1>12 DEF LinkedItems, Occupied, Slabbed
<1>14. HeadersOK(f)
  BY <1>1, <1>4, <1>10, <1>11, <1>12 DEF HeadersOK, CacheOK
<1>15. TableAgrees(f)
  <2>1. /\ TableOK(c.assoc) /\ it.key \in Keys /\ Found(c.assoc)[it.key] # NULL
    BY <1>1, <1>2, NullIsNoChunk DEF CacheOK, TableAgrees
  <2>2. /\ TableOK(f.assoc) /\ Found(f.assoc) = [Found(c.assoc) EXCEPT ![it.key] = NULL]
    BY <1>10, <2>1, TableDelete
  <2>3. Found(c.assoc) \in [Keys -> Chunks \cup {NULL}]
    BY <2>1, FoundType
  <2>4. /\ Found(f.assoc)[it.key] = NULL
        /\ \A k \in Keys : k # it.key => Found(f.assoc)[k] = Found(c.assoc)[k]
    BY <2>1, <2>2, <2>3
  <2>5. \A y \in LinkedItems(f) : Item(f, y) = Item(c, y) /\ Item(c, y).key \in Keys /\ Item(c, y).key # it.key
    <3> SUFFICES ASSUME NEW y \in LinkedItems(f)
                 PROVE  Item(f, y) = Item(c, y) /\ Item(c, y).key \in Keys /\ Item(c, y).key # it.key
      OBVIOUS
    <3>1. y \in LinkedItems(c) /\ y # x
      BY <1>13
    <3>2. Found(c.assoc)[Item(c, y).key] = y /\ Item(c, y).key \in Keys
      BY <3>1 DEF CacheOK, TableAgrees, HeadersOK, LinkedItems
    <3> QED BY <1>2, <1>10, <3>1, <3>2
  <2>6. ASSUME NEW k \in Keys, Found(f.assoc)[k] # NULL
        PROVE  Found(f.assoc)[k] \in LinkedItems(f) /\ Item(f, Found(f.assoc)[k]).key = k
    <3>1. k # it.key /\ Found(f.assoc)[k] = Found(c.assoc)[k]
      BY <2>4, <2>6
    <3>2. Found(c.assoc)[k] \in LinkedItems(c) /\ Item(c, Found(c.assoc)[k]).key = k
      BY <2>6, <3>1 DEF CacheOK, TableAgrees
    <3> QED BY <1>10, <1>13, <3>1, <3>2 DEF it
  <2>7. \A y \in LinkedItems(f) : Found(f.assoc)[Item(f, y).key] = y
    BY <1>13, <2>4, <2>5 DEF CacheOK, TableAgrees
  <2> QED BY <2>2, <2>6, <2>7 DEF TableAgrees
<1>16. /\ q \in Seq(Chunks) /\ IsInjective(q) /\ Range(q) = Range(c.lru[id]) \ {x}
       /\ \A j, k \in DOMAIN q : j < k =>
            \E l, m \in DOMAIN c.lru[id] : l < m /\ q[j] = c.lru[id][l] /\ q[k] = c.lru[id][m]
  <2> DEFINE s == c.lru[id]
  <2>1. s \in Seq(Chunks) /\ IsInjective(s) /\ x \in Range(s) /\ q = RemoveFirst(s, x)
    BY <1>9 DEF q
  <2> HIDE DEF s
  <2>2. /\ q \in Seq(Chunks) /\ IsInjective(q) /\ Range(q) = Range(s) \ {x}
        /\ \A j, k \in DOMAIN q : j < k =>
             \E l, m \in DOMAIN s : l < m /\ q[j] = s[l] /\ q[k] = s[m]
    BY <2>1, QueueRemove
  <2> QED BY <2>2 DEF s
<1>17. QueuesAgree(f)
  <2> SUFFICES ASSUME NEW i \in 0 .. power_largest
               PROVE  /\ f.lru[i] \in Seq(Chunks) /\ IsInjective(f.lru[i])
                      /\ Range(f.lru[i]) = {y \in LinkedItems(f) : Item(f, y).slabs_clsid = i}
    BY <1>10 DEF QueuesAgree
  <2>1. \A y \in LinkedItems(f) : Item(f, y) = Item(c, y)
    BY <1>10, <1>13
  <2>2. CASE i = id
    BY <1>9, <1>10, <1>13, <1>16, <2>1, <2>2
  <2>3. CASE i # id
    <3>1. f.lru[i] = c.lru[i] /\ f.lru[i] \in Seq(Chunks) /\ IsInjective(f.lru[i])
          /\ Range(f.lru[i]) = {y \in LinkedItems(c) : Item(c, y).slabs_clsid = i}
      BY <1>10, <2>3 DEF CacheOK, QueuesAgree
    <3>2. {y \in LinkedItems(c) : Item(c, y).slabs_clsid = i} = {y \in LinkedItems(f) : Item(f, y).slabs_clsid = i}
      BY <1>13, <2>1, <2>3 DEF id, it
    <3> QED BY <3>1, <3>2
  <2> QED BY <2>2, <2>3
<1>18. MemoryOK(f, {})
  BY <1>10, <1>13 DEF MemoryOK, CacheOK
<1>19. ASSUME QueuesSorted(c) PROVE QueuesSorted(f)
  <2> SUFFICES ASSUME NEW i \in DOMAIN f.lru, NEW j \in DOMAIN f.lru[i], NEW k \in DOMAIN f.lru[i], j < k
               PROVE  Item(f, f.lru[i][j]).time >= Item(f, f.lru[i][k]).time
    BY DEF QueuesSorted
  <2>1. i \in 0 .. power_largest /\ i \in DOMAIN c.lru
    BY <1>1, <1>10 DEF AreQueues
  <2>2. \A y : Item(f, y).time = Item(c, y).time
    BY <1>10, <1>11 DEF OnlyFlags
  <2>3. \E l, m \in DOMAIN c.lru[i] : l < m /\ f.lru[i][j] = c.lru[i][l] /\ f.lru[i][k] = c.lru[i][m]
    BY <1>10, <1>16, <2>1
  <2> QED BY <1>19, <2>1, <2>2, <2>3 DEF QueuesSorted
<1> QED
  BY <1>1, <1>10, <1>11, <1>13, <1>14, <1>15, <1>17, <1>18, <1>19 DEF CacheOK, Occupied

\* Only x changes, and of it neither the data nor the references.
OnlyHeader(c, d, x) ==
  /\ DOMAIN d.mem = DOMAIN c.mem
  /\ \A y : y # x => Item(d, y) = Item(c, y)
  /\ Item(d, x).key = Item(c, x).key /\ Item(d, x).val = Item(c, x).val
  /\ Item(d, x).refcount = Item(c, x).refcount

LEMMA SortedKept ==
  ASSUME NEW c, NEW d, NEW x, OnlyFlags(c, d, x), d.lru = c.lru, QueuesSorted(c)
  PROVE  QueuesSorted(d)
<1>1. \A y : Item(d, y).time = Item(c, y).time
  BY DEF OnlyFlags
<1> QED
  BY <1>1 DEF QueuesSorted

\* do_item_unlink of an item in use: it is freed when nobody refers to it.
LEMMA DoUnlink ==
  ASSUME NoPrefixes, NEW c, CacheOK(c, {}), NEW x \in Occupied(c), NEW d \in do_item_unlink(c, x)
  PROVE  /\ CacheOK(d, {}) /\ OnlyFlags(c, d, x) /\ ~IsLinked(d, x)
         /\ QueuesSorted(c) => QueuesSorted(d)
         /\ IsSlabbed(d, x) <=> IsLinked(c, x) /\ Item(c, x).refcount = 0
<1> DEFINE f == Unlinked(c, x)
<1>1. CASE ~IsLinked(c, x)
  <2>1. d = c
    BY <1>1 DEF do_item_unlink, IsLinked
  <2> QED BY <1>1, <2>1 DEF OnlyFlags, Occupied
<1>2. CASE IsLinked(c, x)
  <2>1. /\ CacheOK(f, {}) /\ OnlyFlags(c, f, x) /\ ~IsLinked(f, x) /\ x \in Occupied(f)
        /\ QueuesSorted(c) => QueuesSorted(f)
    BY <1>2, UnlinkItem
  <2>2. d \in IF Item(c, x).refcount = 0 THEN item_free(f, x) ELSE {f}
    BY <1>2 DEF do_item_unlink, Unlinked, IsLinked
  <2> HIDE DEF f
  <2>3. CASE Item(c, x).refcount # 0
    BY <1>2, <2>1, <2>2, <2>3 DEF Occupied
  <2>4. CASE Item(c, x).refcount = 0
    <3>1. Item(f, x).refcount = 0 /\ d \in item_free(f, x)
      BY <2>1, <2>2, <2>4 DEF OnlyFlags
    <3>2. /\ CacheOK(d, {}) /\ OnlyFlags(f, d, x) /\ IsSlabbed(d, x) /\ ~IsLinked(d, x)
          /\ d.lru = f.lru
      BY <2>1, <3>1, FreeItem
    <3>3. OnlyFlags(c, d, x)
      BY <2>1, <3>2 DEF OnlyFlags
    <3>4. QueuesSorted(c) => QueuesSorted(d)
      BY <2>1, <3>2, SortedKept
    <3> QED BY <1>2, <2>4, <3>2, <3>3, <3>4
  <2> QED BY <2>3, <2>4
<1> QED
  BY <1>1, <1>2

LEMMA LinkQView ==
  ASSUME NEW c, IsCache(c), AreQueues(c.lru), NEW x, Item(c, x).slabs_clsid \in 0 .. power_largest
  PROVE  LET id == Item(c, x).slabs_clsid
             q == c.lru[id]
             d == item_link_q(c, x)
         IN  /\ IsCache(d) /\ d.slabs = c.slabs /\ d.assoc = c.assoc /\ d.mem = c.mem
             /\ AreQueues(d.lru) /\ d.lru[id] = QueueWith(x, q)
             /\ \A i \in 0 .. power_largest : i # id => d.lru[i] = c.lru[i]
             /\ d.ok <=> c.ok /\ SLABBED \notin Item(c, x).iflag /\ (q # <<>> => x # Head(q))
             /\ \A y : Item(d, y) = Item(c, y)
<1> DEFINE id == Item(c, x).slabs_clsid
           q == c.lru[id]
           pushed == QueueWith(x, q)
           w == WithQueue(c, id, pushed)
           cond == SLABBED \notin Item(c, x).iflag /\ (q # <<>> => x # Head(q))
           d == Check(w, cond)
<1>1. item_link_q(c, x) = d
  BY DEF item_link_q, WithQueue, QueueWith
<1>2. id \in 0 .. power_largest
  OBVIOUS
<1>3. cond \in BOOLEAN
  OBVIOUS
<1> HIDE DEF id, pushed, cond
<1>4. /\ IsCache(w) /\ w.slabs = c.slabs /\ w.assoc = c.assoc /\ w.mem = c.mem /\ AreQueues(w.lru)
      /\ \A i \in 0 .. power_largest : w.lru[i] = IF i = id THEN pushed ELSE c.lru[i]
      /\ w.ok = c.ok /\ \A y : Item(w, y) = Item(c, y)
  BY <1>2, WithQueueView
<1> HIDE DEF w
<1>5. /\ IsCache(d) /\ d.slabs = w.slabs /\ d.assoc = w.assoc /\ d.lru = w.lru /\ d.mem = w.mem
      /\ (d.ok <=> w.ok /\ cond) /\ \A y : Item(d, y) = Item(w, y)
  BY <1>3, <1>4, CheckView
<1> HIDE DEF d
<1>6. /\ IsCache(d) /\ d.slabs = c.slabs /\ d.assoc = c.assoc /\ d.mem = c.mem /\ AreQueues(d.lru)
      /\ d.lru[id] = pushed /\ \A i \in 0 .. power_largest : i # id => d.lru[i] = c.lru[i]
      /\ (d.ok <=> c.ok /\ cond) /\ \A y : Item(d, y) = Item(c, y)
  BY <1>2, <1>4, <1>5
<1> QED
  BY <1>1, <1>6 DEF id, pushed, cond

LEMMA UnlinkQView ==
  ASSUME NEW c, IsCache(c), AreQueues(c.lru), NEW x, Item(c, x).slabs_clsid \in 0 .. power_largest
  PROVE  LET id == Item(c, x).slabs_clsid
             d == item_unlink_q(c, x)
         IN  /\ IsCache(d) /\ d.slabs = c.slabs /\ d.assoc = c.assoc /\ d.mem = c.mem
             /\ AreQueues(d.lru) /\ d.lru[id] = RemoveFirst(c.lru[id], x)
             /\ \A i \in 0 .. power_largest : i # id => d.lru[i] = c.lru[i]
             /\ d.ok <=> c.ok /\ x \in Range(c.lru[id])
             /\ \A y : Item(d, y) = Item(c, y)
<1> DEFINE id == Item(c, x).slabs_clsid
           q == RemoveFirst(c.lru[id], x)
           w == WithQueue(c, id, q)
           cond == x \in Range(c.lru[id])
           d == Check(w, cond)
<1>1. item_unlink_q(c, x) = d
  BY DEF item_unlink_q, WithQueue
<1>2. id \in 0 .. power_largest
  OBVIOUS
<1>3. cond \in BOOLEAN
  OBVIOUS
<1> HIDE DEF id, q, cond
<1>4. /\ IsCache(w) /\ w.slabs = c.slabs /\ w.assoc = c.assoc /\ w.mem = c.mem /\ AreQueues(w.lru)
      /\ \A i \in 0 .. power_largest : w.lru[i] = IF i = id THEN q ELSE c.lru[i]
      /\ w.ok = c.ok /\ \A y : Item(w, y) = Item(c, y)
  BY <1>2, WithQueueView
<1> HIDE DEF w
<1>5. /\ IsCache(d) /\ d.slabs = w.slabs /\ d.assoc = w.assoc /\ d.lru = w.lru /\ d.mem = w.mem
      /\ (d.ok <=> w.ok /\ cond) /\ \A y : Item(d, y) = Item(w, y)
  BY <1>3, <1>4, CheckView
<1> HIDE DEF d
<1>6. /\ IsCache(d) /\ d.slabs = c.slabs /\ d.assoc = c.assoc /\ d.mem = c.mem /\ AreQueues(d.lru)
      /\ d.lru[id] = q /\ \A i \in 0 .. power_largest : i # id => d.lru[i] = c.lru[i]
      /\ (d.ok <=> c.ok /\ cond) /\ \A y : Item(d, y) = Item(c, y)
  BY <1>2, <1>4, <1>5
<1> QED
  BY <1>1, <1>6 DEF id, q, cond

\* The other ways in which a header is written.
Linking(it, now) == [it EXCEPT !.iflag = @ \cup {LINKED}, !.time = now]
Timed(it, now) == [it EXCEPT !.time = now]
Counted(it, n) == [it EXCEPT !.refcount = n]

LEMMA ItemLinking ==
  ASSUME NEW it, IsItem(it), NEW now \in Nat
  PROVE  LET f == Linking(it, now) IN
         /\ IsItem(f) /\ f.iflag = it.iflag \cup {LINKED} /\ f.slabs_clsid = it.slabs_clsid
         /\ f.key = it.key /\ f.val = it.val /\ f.time = now /\ f.refcount = it.refcount
<1> PICK f : f = Linking(it, now)
  OBVIOUS
<1>1. f = [key |-> it.key, val |-> it.val, bytes |-> it.bytes, time |-> now,
           refcount |-> it.refcount, iflag |-> it.iflag \cup {LINKED}, slabs_clsid |-> it.slabs_clsid]
  BY DEF IsItem, Linking
<1> QED
  BY <1>1 DEF IsItem

LEMMA ItemTimed ==
  ASSUME NEW it, IsItem(it), NEW now \in Nat
  PROVE  LET f == Timed(it, now) IN
         /\ IsItem(f) /\ f.iflag = it.iflag /\ f.slabs_clsid = it.slabs_clsid
         /\ f.key = it.key /\ f.val = it.val /\ f.time = now /\ f.refcount = it.refcount
<1> PICK f : f = Timed(it, now)
  OBVIOUS
<1>1. f = [key |-> it.key, val |-> it.val, bytes |-> it.bytes, time |-> now,
           refcount |-> it.refcount, iflag |-> it.iflag, slabs_clsid |-> it.slabs_clsid]
  BY DEF IsItem, Timed
<1> QED
  BY <1>1 DEF IsItem

LEMMA ItemCounted ==
  ASSUME NEW it, IsItem(it), NEW n \in 0 .. RefMod - 1
  PROVE  LET f == Counted(it, n) IN
         /\ IsItem(f) /\ f.iflag = it.iflag /\ f.slabs_clsid = it.slabs_clsid
         /\ f.key = it.key /\ f.val = it.val /\ f.time = it.time /\ f.refcount = n
<1> PICK f : f = Counted(it, n)
  OBVIOUS
<1>1. f = [key |-> it.key, val |-> it.val, bytes |-> it.bytes, time |-> it.time,
           refcount |-> n, iflag |-> it.iflag, slabs_clsid |-> it.slabs_clsid]
  BY DEF IsItem, Counted
<1> QED
  BY <1>1 DEF IsItem

\* Nothing that is linked has a time to come.
NotAfter(c, now) == \A y \in LinkedItems(c) : Item(c, y).time <= now

(***************************************************************************)
(* do_item_link of an item in use whose key is not in the table.           *)
(***************************************************************************)
LEMMA LinkItem ==
  ASSUME NoPrefixes, NEW c, CacheOK(c, {}), NEW x \in Occupied(c), ~IsLinked(c, x),
         Found(c.assoc)[Item(c, x).key] = NULL, NEW now \in Nat, NEW f \in do_item_link(c, x, now)
  PROVE  /\ CacheOK(f, {}) /\ OnlyHeader(c, f, x) /\ IsLinked(f, x) /\ ~IsSlabbed(f, x)
         /\ Item(f, x).time = now
         /\ QueuesSorted(c) /\ NotAfter(c, now) => QueuesSorted(f)
<1> DEFINE it == Item(c, x)
           id == it.slabs_clsid
           linking == Linking(it, now)
           w == WithItem(c, x, linking)
           cond == /\ it.iflag \cap {LINKED, SLABBED} = {}
                   /\ Table!assoc_find(c.assoc, it.key) = NULL
           d == Check(w, cond)
<1>1. PICK a \in Table!assoc_insert(c.assoc, x, it.key) : f = item_link_q(WithAssoc(d, a), x)
  BY DEF do_item_link, WithAssoc, Linking
<1> DEFINE e == WithAssoc(d, a)
<1>2. /\ IsCache(c) /\ c.ok /\ x \in DOMAIN c.mem /\ x \in Chunks /\ IsItem(it) /\ it.key \in Keys
      /\ id = x[1] /\ id \in 0 .. power_largest /\ ~IsSlabbed(c, x) /\ x \notin LinkedItems(c)
      /\ AreQueues(c.lru)
  BY ItemType DEF CacheOK, HeadersOK, Occupied, IsItem, LinkedItems, QueuesAgree
<1>3. cond
  BY <1>2 DEF IsLinked, IsSlabbed, Found
<1>4. cond \in BOOLEAN
  OBVIOUS
<1>5. /\ IsItem(linking) /\ linking.iflag = it.iflag \cup {LINKED} /\ linking.slabs_clsid = id
      /\ linking.key = it.key /\ linking.val = it.val /\ linking.time = now
      /\ linking.refcount = it.refcount
  <2>1. IsItem(it)
    BY <1>2
  <2> HIDE DEF it
  <2> QED BY <2>1, ItemLinking
<1> HIDE DEF linking, cond
<1>6. /\ IsCache(w) /\ w.slabs = c.slabs /\ w.assoc = c.assoc /\ w.lru = c.lru /\ w.ok = c.ok
      /\ DOMAIN w.mem = DOMAIN c.mem \cup {x} /\ Item(w, x) = linking
      /\ \A y : y # x => Item(w, y) = Item(c, y)
  <2>1. IsCache(c)
    BY <1>2
  <2> HIDE DEF it
  <2> QED BY <2>1, WithItemView
<1> HIDE DEF w
<1>7. /\ IsCache(d) /\ d.slabs = c.slabs /\ d.lru = c.lru /\ d.mem = w.mem
      /\ (d.ok <=> w.ok /\ cond) /\ \A y : Item(d, y) = Item(w, y)
  <2>1. /\ IsCache(d) /\ d.slabs = w.slabs /\ d.assoc = w.assoc /\ d.lru = w.lru /\ d.mem = w.mem
        /\ (d.ok <=> w.ok /\ cond) /\ \A y : Item(d, y) = Item(w, y)
    BY <1>4, <1>6, CheckView
  <2> QED BY <1>6, <2>1
<1> HIDE DEF d
<1>8. /\ IsCache(e) /\ e.slabs = c.slabs /\ e.assoc = a /\ e.lru = c.lru /\ e.mem = w.mem
      /\ e.ok /\ \A y : Item(e, y) = Item(w, y)
  <2>1. /\ IsCache(e) /\ e.slabs = d.slabs /\ e.assoc = a /\ e.lru = d.lru
        /\ e.mem = d.mem /\ e.ok = d.ok /\ \A y : Item(e, y) = Item(d, y)
    BY <1>7, WithAssocView
  <2> QED BY <1>2, <1>3, <1>6, <1>7, <2>1
<1> HIDE DEF e
<1>9. /\ c.lru[id] \in Seq(Chunks) /\ IsInjective(c.lru[id]) /\ x \notin Range(c.lru[id])
      /\ Range(c.lru[id]) = {y \in LinkedItems(c) : Item(c, y).slabs_clsid = id}
  BY <1>2 DEF CacheOK, QueuesAgree
<1> DEFINE q == QueueWith(x, c.lru[id])
<1>10. /\ IsCache(f) /\ f.slabs = c.slabs /\ f.assoc = a
       /\ AreQueues(f.lru) /\ f.lru[id] = q /\ \A i \in 0 .. power_largest : i # id => f.lru[i] = c.lru[i]
       /\ f.ok /\ DOMAIN f.mem = DOMAIN c.mem /\ Item(f, x) = linking
       /\ \A y : y # x => Item(f, y) = Item(c, y)
  <2>1. IsCache(e) /\ AreQueues(e.lru) /\ Item(e, x).slabs_clsid = id /\ f = item_link_q(e, x)
        /\ Item(e, x).slabs_clsid \in 0 .. power_largest
    BY <1>1, <1>2, <1>5, <1>6, <1>8 DEF e
  <2> DEFINE g == item_link_q(e, x)
             jd == Item(e, x).slabs_clsid
             ecard == SLABBED \notin Item(e, x).iflag /\ (e.lru[jd] # <<>> => x # Head(e.lru[jd]))
  <2>2. /\ IsCache(g) /\ g.slabs = e.slabs /\ g.assoc = e.assoc /\ g.mem = e.mem
        /\ AreQueues(g.lru) /\ g.lru[jd] = QueueWith(x, e.lru[jd])
        /\ \A i \in 0 .. power_largest : i # jd => g.lru[i] = e.lru[i]
        /\ (g.ok <=> e.ok /\ ecard)
        /\ \A y : Item(g, y) = Item(e, y)
    <3>1. IsCache(e) /\ AreQueues(e.lru) /\ jd \in 0 .. power_largest
      BY <2>1
    <3> QED BY <3>1, LinkQView
  <2>3. ecard
    <3>1. SLABBED \notin Item(e, x).iflag
      BY <1>2, <1>5, <1>6, <1>8, Flags DEF IsSlabbed
    <3>2. c.lru[id] # <<>> => Head(c.lru[id]) \in Range(c.lru[id])
      BY <1>9 DEF Range
    <3> QED BY <1>8, <1>9, <2>1, <3>1, <3>2
  <2> HIDE DEF g, ecard
  <2>4. f = g
    BY <2>1 DEF g
  <2>5. jd = id
    BY <2>1
  <2> HIDE DEF jd, id
  <2>6. f.lru[id] = q /\ f.assoc = a /\ f.ok
    BY <1>8, <2>2, <2>3, <2>4, <2>5
  <2>7. DOMAIN f.mem = DOMAIN c.mem
    BY <1>2, <1>6, <1>8, <2>2, <2>4
  <2>8. Item(f, x) = linking /\ \A y : y # x => Item(f, y) = Item(c, y)
    BY <1>6, <1>8, <2>2, <2>4
  <2> QED BY <1>8, <2>2, <2>4, <2>5, <2>6, <2>7, <2>8
<1> HIDE DEF it, id, q
<1>11. OnlyHeader(c, f, x) /\ IsLinked(f, x) /\ ~IsSlabbed(f, x) /\ Item(f, x).time = now
  BY <1>2, <1>5, <1>10, Flags DEF OnlyHeader, IsLinked, IsSlabbed, it
<1>12. \A y : y # x => (IsSlabbed(f, y) <=> IsSlabbed(c, y)) /\ (IsLinked(f, y) <=> IsLinked(c, y))
  BY <1>10 DEF IsSlabbed, IsLinked
<1>13. /\ LinkedItems(f) = LinkedItems(c) \cup {x} /\ Occupied(f) = Occupied(c)
       /\ Slabbed(f) = Slabbed(c)
  BY <1>2, <1>10, <1>11, <1>12 DEF LinkedItems, Occupied, Slabbed
<1>14. HeadersOK(f)
  BY <1>2, <1>5, <1>10, <1>11, <1>12 DEF HeadersOK, CacheOK
<1>15. TableAgrees(f)
  <2>1. TableOK(c.assoc) /\ it.key \in Keys /\ Found(c.assoc)[it.key] = NULL
    BY <1>2 DEF CacheOK, TableAgrees, it
  <2>2. TableOK(f.assoc) /\ Found(f.assoc) = [Found(c.assoc) EXCEPT ![it.key] = x]
    BY <1>1, <1>2, <1>10, <2>1, TableInsert
  <2>3. Found(c.assoc) \in [Keys -> Chunks \cup {NULL}]
    BY <2>1, FoundType
  <2>4. /\ Found(f.assoc)[it.key] = x
        /\ \A k \in Keys : k # it.key => Found(f.assoc)[k] = Found(c.assoc)[k]
    BY <2>1, <2>2, <2>3
  <2>5. ASSUME NEW y \in LinkedItems(f) PROVE Found(f.assoc)[Item(f, y).key] = y
    <3>1. CASE y = x
      BY <1>5, <1>10, <2>4, <3>1
    <3>2. CASE y # x
      <4>1. y \in LinkedItems(c) /\ Item(f, y) = Item(c, y)
        BY <1>10, <1>13, <2>5, <3>2
      <4>2. Found(c.assoc)[Item(c, y).key] = y /\ Item(c, y).key \in Keys /\ y \in Chunks
        BY <4>1 DEF CacheOK, TableAgrees, HeadersOK, LinkedItems
      <4> QED BY <2>1, <2>4, <4>1, <4>2, NullIsNoChunk
    <3> QED BY <3>1, <3>2
  <2>6. ASSUME NEW k \in Keys, Found(f.assoc)[k] # NULL
        PROVE  Found(f.assoc)[k] \in LinkedItems(f) /\ Item(f, Found(f.assoc)[k]).key = k
    <3>1. CASE k = it.key
      BY <1>5, <1>10, <1>13, <2>4, <3>1
    <3>2. CASE k # it.key
      <4>1. Found(f.assoc)[k] = Found(c.assoc)[k]
        BY <2>4, <3>2
      <4>2. Found(c.assoc)[k] \in LinkedItems(c) /\ Item(c, Found(c.assoc)[k]).key = k
        BY <2>6, <4>1 DEF CacheOK, TableAgrees
      <4> QED BY <1>2, <1>10, <1>13, <4>1, <4>2
    <3> QED BY <3>1, <3>2
  <2> QED BY <2>2, <2>5, <2>6 DEF TableAgrees
<1>16. /\ q \in Seq(Chunks) /\ IsInjective(q) /\ Range(q) = Range(c.lru[id]) \cup {x}
       /\ \A j, k \in DOMAIN q : j < k =>
            /\ q[k] \in Range(c.lru[id])
            /\ q[j] = x \/ \E l, m \in DOMAIN c.lru[id] : l < m /\ q[j] = c.lru[id][l] /\ q[k] = c.lru[id][m]
  <2> DEFINE s == c.lru[id]
  <2>1. s \in Seq(Chunks) /\ IsInjective(s) /\ x \in Chunks /\ x \notin Range(s) /\ q = QueueWith(x, s)
    BY <1>2, <1>9 DEF q
  <2> HIDE DEF s
  <2>2. /\ q \in Seq(Chunks) /\ IsInjective(q) /\ Range(q) = Range(s) \cup {x}
        /\ \A j, k \in DOMAIN q : j < k =>
             /\ q[k] \in Range(s)
             /\ q[j] = x \/ \E l, m \in DOMAIN s : l < m /\ q[j] = s[l] /\ q[k] = s[m]
    BY <2>1, QueuePush
  <2> QED BY <2>2 DEF s
<1>17. QueuesAgree(f)
  <2> SUFFICES ASSUME NEW i \in 0 .. power_largest
               PROVE  /\ f.lru[i] \in Seq(Chunks) /\ IsInjective(f.lru[i])
                      /\ Range(f.lru[i]) = {y \in LinkedItems(f) : Item(f, y).slabs_clsid = i}
    BY <1>10 DEF QueuesAgree
  <2>1. \A y \in LinkedItems(c) : y # x /\ Item(f, y) = Item(c, y)
    BY <1>2, <1>10
  <2>2. CASE i = id
    BY <1>5, <1>9, <1>10, <1>13, <1>16, <2>1, <2>2
  <2>3. CASE i # id
    <3>1. f.lru[i] = c.lru[i] /\ f.lru[i] \in Seq(Chunks) /\ IsInjective(f.lru[i])
          /\ Range(f.lru[i]) = {y \in LinkedItems(c) : Item(c, y).slabs_clsid = i}
      BY <1>10, <2>3 DEF CacheOK, QueuesAgree
    <3>2. {y \in LinkedItems(c) : Item(c, y).slabs_clsid = i} = {y \in LinkedItems(f) : Item(f, y).slabs_clsid = i}
      BY <1>5, <1>10, <1>13, <2>1, <2>3
    <3> QED BY <3>1, <3>2
  <2> QED BY <2>2, <2>3
<1>18. MemoryOK(f, {})
  BY <1>10, <1>13 DEF MemoryOK, CacheOK
<1>19. ASSUME QueuesSorted(c), NotAfter(c, now) PROVE QueuesSorted(f)
  <2> SUFFICES ASSUME NEW i \in DOMAIN f.lru, NEW j \in DOMAIN f.lru[i], NEW k \in DOMAIN f.lru[i], j < k
               PROVE  Item(f, f.lru[i][j]).time >= Item(f, f.lru[i][k]).time
    BY DEF QueuesSorted
  <2>1. i \in 0 .. power_largest /\ i \in DOMAIN c.lru
    BY <1>2, <1>10 DEF AreQueues
  <2>2. Range(c.lru[i]) \subseteq LinkedItems(c)
    BY <2>1 DEF CacheOK, QueuesAgree
  <2>3. \A y \in LinkedItems(c) : Item(f, y).time = Item(c, y).time
    BY <1>2, <1>10
  <2>4. CASE i = id
    <3>1. /\ q[k] \in Range(c.lru[id])
          /\ q[j] = x \/ \E l, m \in DOMAIN c.lru[id] : l < m /\ q[j] = c.lru[id][l] /\ q[k] = c.lru[id][m]
      BY <1>10, <1>16, <2>4
    <3>2. CASE q[j] = x
      <4>1. Item(c, q[k]).time <= now /\ Item(f, q[k]).time = Item(c, q[k]).time
        BY <1>19, <2>2, <2>3, <2>4, <3>1 DEF NotAfter
      <4>2. Item(f, q[j]).time = now
        BY <1>11, <3>2
      <4> QED BY <1>10, <2>4, <4>1, <4>2
    <3>3. CASE q[j] # x
      <4>1. PICK l, m \in DOMAIN c.lru[id] : l < m /\ q[j] = c.lru[id][l] /\ q[k] = c.lru[id][m]
        BY <3>1, <3>3
      <4>2. q[j] \in LinkedItems(c) /\ q[k] \in LinkedItems(c)
        BY <2>2, <2>4, <4>1 DEF Range
      <4>3. Item(c, q[j]).time >= Item(c, q[k]).time
        BY <1>19, <2>1, <2>4, <4>1 DEF QueuesSorted
      <4> QED BY <1>10, <2>3, <2>4, <4>2, <4>3
    <3> QED BY <3>2, <3>3
  <2>5. CASE i # id
    <3>1. f.lru[i] = c.lru[i]
      BY <1>10, <2>1, <2>5
    <3>2. c.lru[i][j] \in LinkedItems(c) /\ c.lru[i][k] \in LinkedItems(c)
      BY <2>2, <3>1 DEF Range
    <3>3. Item(c, c.lru[i][j]).time >= Item(c, c.lru[i][k]).time
      BY <1>19, <2>1, <3>1 DEF QueuesSorted
    <3> QED BY <2>3, <3>1, <3>2, <3>3
  <2> QED BY <2>4, <2>5
<1> QED
  BY <1>10, <1>11, <1>14, <1>15, <1>17, <1>18, <1>19 DEF CacheOK

(***************************************************************************)
(* do_item_update of a linked item.                                        *)
(***************************************************************************)
LEMMA UpdateItem ==
  ASSUME NEW c, CacheOK(c, {}), NEW x, IsLinked(c, x), NEW now \in Nat,
         NEW f, f = do_item_update(c, x, now)
  PROVE  /\ CacheOK(f, {}) /\ OnlyHeader(c, f, x) /\ IsLinked(f, x) /\ ~IsSlabbed(f, x)
         /\ Item(f, x).time = Item(c, x).time \/ Item(f, x).time = now
         /\ Item(f, x).time >= now - ITEM_UPDATE_INTERVAL
         /\ QueuesSorted(c) /\ NotAfter(c, now) => QueuesSorted(f)
<1> DEFINE it == Item(c, x)
           id == it.slabs_clsid
           timed == Timed(it, now)
           cond == SLABBED \notin it.iflag
           d == Check(c, cond)
           e == item_unlink_q(d, x)
           w == WithItem(e, x, timed)
           rest == RemoveFirst(c.lru[id], x)
           q == QueueWith(x, rest)
<1>1. /\ IsCache(c) /\ c.ok /\ x \in DOMAIN c.mem /\ x \in Chunks /\ IsItem(it) /\ it.key \in Keys
      /\ id = x[1] /\ id \in 0 .. power_largest /\ ~IsSlabbed(c, x) /\ x \in LinkedItems(c)
      /\ AreQueues(c.lru)
  BY ItemType DEF CacheOK, HeadersOK, Occupied, IsItem, LinkedItems, QueuesAgree
<1>2. ITEM_UPDATE_INTERVAL \in Nat /\ it.time \in Nat
  BY <1>1, LRUListsAssumption DEF IsItem
<1>3. CASE it.time >= now - ITEM_UPDATE_INTERVAL
  <2>1. f = c
    BY <1>3 DEF do_item_update
  <2> QED BY <1>1, <1>3, <2>1 DEF OnlyHeader
<1>4. CASE ~(it.time >= now - ITEM_UPDATE_INTERVAL)
  <2>1. f = item_link_q(w, x)
    BY <1>4 DEF do_item_update, Timed, IsLinked
  <2>2. cond
    BY <1>1 DEF IsSlabbed
  <2>22. IsCache(c)
    BY <1>1
  <2>3. cond \in BOOLEAN
    OBVIOUS
  <2>4. /\ IsItem(timed) /\ timed.iflag = it.iflag /\ timed.slabs_clsid = id
        /\ timed.key = it.key /\ timed.val = it.val /\ timed.time = now
        /\ timed.refcount = it.refcount
    <3>1. IsItem(it)
      BY <1>1
    <3> HIDE DEF it
    <3> QED BY <3>1, ItemTimed
  <2> HIDE DEF cond, timed
  <2>5. /\ IsCache(d) /\ d.slabs = c.slabs /\ d.assoc = c.assoc /\ d.lru = c.lru /\ d.mem = c.mem
        /\ d.ok /\ \A y : Item(d, y) = Item(c, y)
    <3>1. /\ IsCache(d) /\ d.slabs = c.slabs /\ d.assoc = c.assoc /\ d.lru = c.lru /\ d.mem = c.mem
          /\ (d.ok <=> c.ok /\ cond) /\ \A y : Item(d, y) = Item(c, y)
      BY <2>3, <2>22, CheckView
    <3> QED BY <1>1, <2>2, <3>1
  <2> HIDE DEF d
  <2>6. /\ c.lru[id] \in Seq(Chunks) /\ IsInjective(c.lru[id]) /\ x \in Range(c.lru[id])
        /\ Range(c.lru[id]) = {y \in LinkedItems(c) : Item(c, y).slabs_clsid = id}
    BY <1>1 DEF CacheOK, QueuesAgree
  <2>7. /\ IsCache(e) /\ e.slabs = c.slabs /\ e.assoc = c.assoc /\ e.mem = c.mem
        /\ AreQueues(e.lru) /\ e.lru[id] = rest
        /\ \A i \in 0 .. power_largest : i # id => e.lru[i] = c.lru[i]
        /\ e.ok /\ \A y : Item(e, y) = Item(c, y)
    <3> DEFINE jd == Item(d, x).slabs_clsid
    <3>1. IsCache(d) /\ AreQueues(d.lru) /\ jd \in 0 .. power_largest /\ jd = id
      BY <1>1, <2>5
    <3>2. /\ IsCache(e) /\ e.slabs = d.slabs /\ e.assoc = d.assoc /\ e.mem = d.mem
          /\ AreQueues(e.lru) /\ e.lru[jd] = RemoveFirst(d.lru[jd], x)
          /\ \A i \in 0 .. power_largest : i # jd => e.lru[i] = d.lru[i]
          /\ (e.ok <=> d.ok /\ x \in Range(d.lru[jd]))
          /\ \A y : Item(e, y) = Item(d, y)
      BY <3>1, UnlinkQView
    <3> HIDE DEF e, jd, id
    <3>3. e.lru[id] = rest /\ e.ok
      BY <2>5, <2>6, <3>1, <3>2
    <3> QED BY <2>5, <3>1, <3>2, <3>3
  <2> HIDE DEF e
  <2>8. /\ rest \in Seq(Chunks) /\ IsInjective(rest) /\ Range(rest) = Range(c.lru[id]) \ {x}
        /\ \A j, k \in DOMAIN rest : j < k =>
             \E l, m \in DOMAIN c.lru[id] : l < m /\ rest[j] = c.lru[id][l] /\ rest[k] = c.lru[id][m]
    <3> DEFINE s == c.lru[id]
    <3>1. s \in Seq(Chunks) /\ IsInjective(s) /\ x \in Range(s) /\ rest = RemoveFirst(s, x)
      BY <2>6
    <3> HIDE DEF s, rest
    <3>2. /\ rest \in Seq(Chunks) /\ IsInjective(rest) /\ Range(rest) = Range(s) \ {x}
          /\ \A j, k \in DOMAIN rest : j < k =>
               \E l, m \in DOMAIN s : l < m /\ rest[j] = s[l] /\ rest[k] = s[m]
      BY <3>1, QueueRemove
    <3> QED BY <3>2 DEF s
  <2> HIDE DEF rest
  <2>9. /\ q \in Seq(Chunks) /\ IsInjective(q) /\ Range(q) = Range(rest) \cup {x}
        /\ \A j, k \in DOMAIN q : j < k =>
             /\ q[k] \in Range(rest)
             /\ q[j] = x \/ \E l, m \in DOMAIN rest : l < m /\ q[j] = rest[l] /\ q[k] = rest[m]
    <3>1. rest \in Seq(Chunks) /\ IsInjective(rest) /\ x \in Chunks /\ x \notin Range(rest)
          /\ q = QueueWith(x, rest)
      BY <1>1, <2>8
    <3> HIDE DEF q
    <3> QED BY <3>1, QueuePush
  <2>10. /\ IsCache(w) /\ w.slabs = e.slabs /\ w.assoc = e.assoc /\ w.lru = e.lru /\ w.ok = e.ok
         /\ DOMAIN w.mem = DOMAIN e.mem \cup {x} /\ Item(w, x) = timed
         /\ \A y : y # x => Item(w, y) = Item(e, y)
    <3>1. IsCache(e)
      BY <2>7
    <3> QED BY <3>1, WithItemView
  <2> HIDE DEF w
  <2>11. /\ IsCache(f) /\ f.slabs = c.slabs /\ f.assoc = c.assoc
         /\ AreQueues(f.lru) /\ f.lru[id] = q /\ \A i \in 0 .. power_largest : i # id => f.lru[i] = c.lru[i]
         /\ f.ok /\ DOMAIN f.mem = DOMAIN c.mem /\ Item(f, x) = timed
         /\ \A y : y # x => Item(f, y) = Item(c, y)
    <3> DEFINE g == item_link_q(w, x)
               jd == Item(w, x).slabs_clsid
               fine == SLABBED \notin Item(w, x).iflag /\ (w.lru[jd] # <<>> => x # Head(w.lru[jd]))
    <3>1. IsCache(w) /\ AreQueues(w.lru) /\ jd \in 0 .. power_largest /\ jd = id
      BY <1>1, <2>4, <2>7, <2>10
    <3>2. /\ IsCache(g) /\ g.slabs = w.slabs /\ g.assoc = w.assoc /\ g.mem = w.mem
          /\ AreQueues(g.lru) /\ g.lru[jd] = QueueWith(x, w.lru[jd])
          /\ \A i \in 0 .. power_largest : i # jd => g.lru[i] = w.lru[i]
          /\ (g.ok <=> w.ok /\ fine)
          /\ \A y : Item(g, y) = Item(w, y)
      BY <3>1, LinkQView
    <3>3. fine
      <4>1. SLABBED \notin Item(w, x).iflag
        BY <2>2, <2>4, <2>10 DEF cond
      <4>2. w.lru[jd] = rest
        BY <2>7, <2>10, <3>1
      <4>3. rest # <<>> => Head(rest) \in Range(rest)
        BY <2>8 DEF Range
      <4> QED BY <2>8, <4>1, <4>2, <4>3
    <3> HIDE DEF g, fine
    <3>4. f = g
      BY <2>1 DEF g
    <3> HIDE DEF jd, id
    <3>5. f.lru[id] = q /\ f.assoc = c.assoc /\ f.ok
      BY <2>7, <2>10, <3>1, <3>2, <3>3, <3>4
    <3>6. DOMAIN f.mem = DOMAIN c.mem
      BY <1>1, <2>7, <2>10, <3>2, <3>4
    <3>7. Item(f, x) = timed /\ \A y : y # x => Item(f, y) = Item(c, y)
      BY <2>7, <2>10, <3>2, <3>4
    <3> QED BY <2>7, <2>10, <3>1, <3>2, <3>4, <3>5, <3>6, <3>7
  <2> HIDE DEF it, id, q
  <2>12. OnlyHeader(c, f, x) /\ IsLinked(f, x) /\ ~IsSlabbed(f, x) /\ Item(f, x).time = now
    BY <1>1, <2>4, <2>11, Flags DEF OnlyHeader, IsLinked, IsSlabbed, it
  <2>13. \A y : (IsSlabbed(f, y) <=> IsSlabbed(c, y)) /\ (IsLinked(f, y) <=> IsLinked(c, y))
    BY <2>4, <2>11 DEF IsSlabbed, IsLinked, it
  <2>14. LinkedItems(f) = LinkedItems(c) /\ Occupied(f) = Occupied(c) /\ Slabbed(f) = Slabbed(c)
    BY <2>11, <2>13 DEF LinkedItems, Occupied, Slabbed
  <2>15. \A y : Item(f, y).key = Item(c, y).key /\ Item(f, y).slabs_clsid = Item(c, y).slabs_clsid
    BY <2>4, <2>11 DEF it, id
  <2>16. HeadersOK(f)
    BY <1>1, <2>4, <2>11, <2>13 DEF HeadersOK, CacheOK, it
  <2>17. TableAgrees(f)
    BY <2>11, <2>14, <2>15 DEF TableAgrees, CacheOK
  <2>18. QueuesAgree(f)
    <3> SUFFICES ASSUME NEW i \in 0 .. power_largest
                 PROVE  /\ f.lru[i] \in Seq(Chunks) /\ IsInjective(f.lru[i])
                        /\ Range(f.lru[i]) = {y \in LinkedItems(c) : Item(c, y).slabs_clsid = i}
      BY <2>11, <2>14, <2>15 DEF QueuesAgree
    <3>1. CASE i = id
      BY <2>6, <2>8, <2>9, <2>11, <3>1
    <3>2. CASE i # id
      BY <2>11, <3>2 DEF CacheOK, QueuesAgree
    <3> QED BY <3>1, <3>2
  <2>19. MemoryOK(f, {})
    BY <2>11, <2>14 DEF MemoryOK, CacheOK
  <2>20. ASSUME QueuesSorted(c), NotAfter(c, now) PROVE QueuesSorted(f)
    <3> SUFFICES ASSUME NEW i \in DOMAIN f.lru, NEW j \in DOMAIN f.lru[i], NEW k \in DOMAIN f.lru[i], j < k
                 PROVE  Item(f, f.lru[i][j]).time >= Item(f, f.lru[i][k]).time
      BY DEF QueuesSorted
    <3>1. i \in 0 .. power_largest /\ i \in DOMAIN c.lru
      BY <1>1, <2>11 DEF AreQueues
    <3>2. Range(c.lru[i]) \subseteq LinkedItems(c) /\ (i # id => x \notin Range(c.lru[i]))
      BY <3>1 DEF CacheOK, QueuesAgree, id, it
    <3>3. \A y : y # x => Item(f, y).time = Item(c, y).time
      BY <2>11
    <3>4. CASE i = id
      <4>1. /\ q[k] \in Range(rest)
            /\ q[j] = x \/ \E l, m \in DOMAIN rest : l < m /\ q[j] = rest[l] /\ q[k] = rest[m]
        BY <2>9, <2>11, <3>4
      <4>2. CASE q[j] = x
        <5>1. q[k] # x /\ q[k] \in LinkedItems(c)
          BY <2>8, <3>2, <3>4, <4>1
        <5>2. Item(c, q[k]).time <= now /\ Item(f, q[k]).time = Item(c, q[k]).time
          BY <2>20, <3>3, <5>1 DEF NotAfter
        <5>3. Item(f, q[j]).time = now
          BY <2>12, <4>2
        <5> QED BY <2>11, <3>4, <5>2, <5>3
      <4>3. CASE q[j] # x
        <5>1. PICK j1, k1 \in DOMAIN rest : j1 < k1 /\ q[j] = rest[j1] /\ q[k] = rest[k1]
          BY <4>1, <4>3
        <5>2. PICK l, m \in DOMAIN c.lru[id] : l < m /\ q[j] = c.lru[id][l] /\ q[k] = c.lru[id][m]
          BY <2>8, <5>1
        <5>3. q[k] # x
          BY <2>8, <4>1
        <5>4. Item(c, q[j]).time >= Item(c, q[k]).time
          BY <2>20, <3>1, <3>4, <5>2 DEF QueuesSorted
        <5> QED BY <2>11, <3>3, <3>4, <4>3, <5>3, <5>4
      <4> QED BY <4>2, <4>3
    <3>5. CASE i # id
      <4>1. f.lru[i] = c.lru[i]
        BY <2>11, <3>1, <3>5
      <4>2. c.lru[i][j] # x /\ c.lru[i][k] # x
        BY <3>2, <3>5, <4>1 DEF Range
      <4>3. Item(c, c.lru[i][j]).time >= Item(c, c.lru[i][k]).time
        BY <2>20, <3>1, <4>1 DEF QueuesSorted
      <4> QED BY <3>3, <4>1, <4>2, <4>3
    <3> QED BY <3>4, <3>5
  <2>21. now >= now - ITEM_UPDATE_INTERVAL
    BY <1>2
  <2> QED
    BY <2>11, <2>12, <2>16, <2>17, <2>18, <2>19, <2>20, <2>21 DEF CacheOK
<1> QED
  BY <1>3, <1>4

\* An assert that holds changes nothing.
LEMMA CheckNothing ==
  ASSUME NEW c, IsCache(c), c.ok, NEW cond, cond = TRUE
  PROVE  Check(c, cond) = c
BY DEF IsCache, Check

(***************************************************************************)
(* do_item_get: one reference more, to the item that assoc_find finds.     *)
(***************************************************************************)
LEMMA GetItem ==
  ASSUME NEW c, CacheOK(c, {}), NEW key \in Keys, NEW now \in Nat,
         NEW x, x = Found(c.assoc)[key], x # NULL,
         Item(c, x).refcount + 1 < RefMod,
         NEW o, o = do_item_get(c, key, now)
  PROVE  /\ o.it = x /\ IsLinked(c, x) /\ Item(c, x).key = key
         /\ CacheOK(o.c, {}) /\ DOMAIN o.c.mem = DOMAIN c.mem /\ o.c.assoc = c.assoc
         /\ \A y : y # x => Item(o.c, y) = Item(c, y)
         /\ Item(o.c, x).key = key /\ Item(o.c, x).val = Item(c, x).val
         /\ Item(o.c, x).refcount = Item(c, x).refcount + 1
         /\ IsLinked(o.c, x) /\ ~IsSlabbed(o.c, x)
         /\ Item(o.c, x).time = Item(c, x).time \/ Item(o.c, x).time = now
         /\ Item(o.c, x).time >= now - ITEM_UPDATE_INTERVAL
         /\ QueuesSorted(c) /\ NotAfter(c, now) => QueuesSorted(o.c)
<1> DEFINE it == Item(c, x)
           d == WithItem(c, x, Counted(it, it.refcount + 1))
           e == do_item_update(d, x, now)
<1>1. x = Table!assoc_find(c.assoc, key) /\ x \in LinkedItems(c) /\ IsLinked(c, x) /\ it.key = key
  BY DEF Found, CacheOK, TableAgrees, LinkedItems
<1>2. x \in DOMAIN c.mem /\ IsItem(it) /\ ~IsSlabbed(c, x) /\ x \in Occupied(c)
  BY <1>1, ItemType DEF CacheOK, HeadersOK, Occupied
<1>3. it.refcount + 1 \in 0 .. RefMod - 1 /\ (it.refcount + 1) % RefMod = it.refcount + 1
  <2>1. it.refcount \in Nat /\ RefMod \in Nat
    BY <1>2, RefType DEF IsItem
  <2> HIDE DEF it
  <2> QED BY <2>1 DEF it
<1>4. o = [it |-> x, c |-> e]
  BY <1>1, <1>3 DEF do_item_get, Counted
<1> DEFINE counted == Counted(it, it.refcount + 1)
<1>5. /\ IsItem(counted) /\ counted.iflag = it.iflag /\ counted.slabs_clsid = it.slabs_clsid
      /\ counted.key = it.key /\ counted.val = it.val /\ counted.time = it.time
      /\ counted.refcount = it.refcount + 1
  <2>1. IsItem(it) /\ it.refcount + 1 \in 0 .. RefMod - 1
    BY <1>2, <1>3
  <2> HIDE DEF it
  <2> QED BY <2>1, ItemCounted
<1>6. d = WithItem(c, x, counted)
  OBVIOUS
<1> HIDE DEF counted, d
<1>7. /\ CacheOK(d, {}) /\ DOMAIN d.mem = DOMAIN c.mem /\ Occupied(d) = Occupied(c)
      /\ d.assoc = c.assoc /\ d.lru = c.lru
      /\ Item(d, x) = counted /\ \A y : y # x => Item(d, y) = Item(c, y)
  BY <1>2, <1>5, <1>6, ChangeHeader
<1>8. IsLinked(d, x)
  BY <1>1, <1>5, <1>7 DEF IsLinked
<1>9. /\ CacheOK(e, {}) /\ OnlyHeader(d, e, x) /\ IsLinked(e, x) /\ ~IsSlabbed(e, x)
      /\ Item(e, x).time = Item(d, x).time \/ Item(e, x).time = now
      /\ Item(e, x).time >= now - ITEM_UPDATE_INTERVAL
      /\ QueuesSorted(d) /\ NotAfter(d, now) => QueuesSorted(e)
  BY <1>7, <1>8, UpdateItem
<1>10. e.assoc = d.assoc
  <2>1. CASE Item(d, x).time >= now - ITEM_UPDATE_INTERVAL
    BY <2>1 DEF do_item_update
  <2>2. CASE ~(Item(d, x).time >= now - ITEM_UPDATE_INTERVAL)
    BY <1>8, <2>2 DEF do_item_update, IsLinked, item_link_q, item_unlink_q, Check, WithItem
  <2> QED BY <2>1, <2>2
<1>11. ASSUME QueuesSorted(c), NotAfter(c, now) PROVE QueuesSorted(e)
  <2>1. \A y : Item(d, y).time = Item(c, y).time /\ Item(d, y).iflag = Item(c, y).iflag
    BY <1>5, <1>7
  <2>2. QueuesSorted(d)
    BY <1>7, <1>11, <2>1 DEF QueuesSorted
  <2>3. NotAfter(d, now)
    BY <1>7, <1>11, <2>1 DEF NotAfter, LinkedItems, IsLinked
  <2> QED BY <1>9, <2>2, <2>3
<1> HIDE DEF e
<1>12. o.it = x /\ o.c = e
  BY <1>4
<1>13. /\ Item(e, x).key = it.key /\ Item(e, x).val = it.val /\ Item(e, x).refcount = it.refcount + 1
       /\ DOMAIN e.mem = DOMAIN c.mem /\ \A y : y # x => Item(e, y) = Item(c, y)
       /\ Item(d, x).time = it.time
  BY <1>5, <1>7, <1>9 DEF OnlyHeader
<1> QED
  BY <1>1, <1>7, <1>9, <1>10, <1>11, <1>12, <1>13

(***************************************************************************)
(* do_item_release: the last reference to an unlinked item frees it.       *)
(***************************************************************************)
LEMMA ReleaseItem ==
  ASSUME NEW c, CacheOK(c, {}), NEW x \in Occupied(c), Item(c, x).refcount # 0,
         NEW d \in do_item_release(c, x)
  PROVE  /\ CacheOK(d, {}) /\ DOMAIN d.mem = DOMAIN c.mem
         /\ \A y : y # x => Item(d, y) = Item(c, y)
         /\ Item(d, x).key = Item(c, x).key /\ Item(d, x).val = Item(c, x).val
         /\ Item(d, x).refcount = Item(c, x).refcount - 1 /\ Item(d, x).time = Item(c, x).time
         /\ IsLinked(d, x) <=> IsLinked(c, x)
         /\ IsSlabbed(d, x) <=> ~IsLinked(c, x) /\ Item(c, x).refcount = 1
         /\ QueuesSorted(c) => QueuesSorted(d)
<1> DEFINE it == Item(c, x)
           counted == Counted(it, it.refcount - 1)
           e == WithItem(c, x, counted)
<1>1. IsItem(it) /\ it.refcount - 1 \in 0 .. RefMod - 1 /\ it.refcount \in Nat \ {0}
  BY RefType DEF CacheOK, HeadersOK, Occupied, IsItem
<1>2. d \in IF it.refcount - 1 = 0 /\ ~IsLinked(c, x) THEN item_free(e, x) ELSE {e}
  BY <1>1 DEF do_item_release, Counted, IsLinked
<1>3. /\ IsItem(counted) /\ counted.iflag = it.iflag /\ counted.slabs_clsid = it.slabs_clsid
      /\ counted.key = it.key /\ counted.val = it.val /\ counted.time = it.time
      /\ counted.refcount = it.refcount - 1
  <2>1. IsItem(it) /\ it.refcount - 1 \in 0 .. RefMod - 1
    BY <1>1
  <2> HIDE DEF it
  <2> QED BY <2>1, ItemCounted
<1> HIDE DEF counted
<1>4. /\ CacheOK(e, {}) /\ DOMAIN e.mem = DOMAIN c.mem /\ Occupied(e) = Occupied(c)
      /\ e.assoc = c.assoc /\ e.lru = c.lru
      /\ Item(e, x) = counted /\ \A y : y # x => Item(e, y) = Item(c, y)
  BY <1>3, ChangeHeader
<1> HIDE DEF e
<1>5. (IsLinked(e, x) <=> IsLinked(c, x)) /\ ~IsSlabbed(e, x)
  BY <1>3, <1>4 DEF IsLinked, IsSlabbed, Occupied
<1>6. QueuesSorted(c) => QueuesSorted(e)
  <2>1. \A y : Item(e, y).time = Item(c, y).time
    BY <1>3, <1>4
  <2> QED BY <1>4, <2>1 DEF QueuesSorted
<1>7. CASE it.refcount - 1 = 0 /\ ~IsLinked(c, x)
  <2>1. x \in Occupied(e) /\ ~IsLinked(e, x) /\ Item(e, x).refcount = 0 /\ d \in item_free(e, x)
    BY <1>2, <1>3, <1>4, <1>5, <1>7
  <2>2. /\ CacheOK(d, {}) /\ OnlyFlags(e, d, x) /\ IsSlabbed(d, x) /\ ~IsLinked(d, x)
        /\ d.lru = e.lru
    BY <1>4, <2>1, FreeItem
  <2>3. QueuesSorted(e) => QueuesSorted(d)
    BY <2>2, SortedKept
  <2> QED BY <1>1, <1>3, <1>4, <1>6, <1>7, <2>2, <2>3 DEF OnlyFlags
<1>8. CASE ~(it.refcount - 1 = 0 /\ ~IsLinked(c, x))
  <2>1. d = e
    BY <1>2, <1>8
  <2> QED BY <1>1, <1>3, <1>4, <1>5, <1>6, <1>8, <2>1
<1> QED
  BY <1>7, <1>8

(***************************************************************************)
(* do_store_item of a new item: the item with its key, if there is one, is *)
(* unlinked, and freed when nobody refers to it.                           *)
(***************************************************************************)
Stored(c, d, x, y, now) ==
  /\ DOMAIN d.mem = DOMAIN c.mem
  /\ \A z : z \notin {x, y} => Item(d, z) = Item(c, z)
  /\ Item(d, x).key = Item(c, x).key /\ Item(d, x).val = Item(c, x).val
  /\ Item(d, x).refcount = Item(c, x).refcount
  /\ Item(d, x).time = now /\ IsLinked(d, x) /\ ~IsSlabbed(d, x)
  /\ y # NULL =>
       /\ y # x /\ IsLinked(c, y) /\ ~IsLinked(d, y)
       /\ Item(d, y).key = Item(c, y).key /\ Item(d, y).val = Item(c, y).val
       /\ Item(d, y).refcount = Item(c, y).refcount
       /\ Item(d, y).time = Item(c, y).time \/ Item(d, y).time = now
       /\ IsSlabbed(d, y) <=> Item(c, y).refcount = 0

LEMMA NullItem ==
  ASSUME NEW c, HeadersOK(c)
  PROVE  Item(c, NULL) = ZeroedItem
BY NullIsNoChunk DEF HeadersOK, Item

LEMMA StoreItem ==
  ASSUME NoPrefixes, NEW c, CacheOK(c, {}), NEW x \in Occupied(c), ~IsLinked(c, x),
         NEW y, y = Found(c.assoc)[Item(c, x).key],
         y # NULL => Item(c, y).refcount + 1 < RefMod,
         NEW now \in Nat, NEW d \in do_store_item(c, x, now)
  PROVE  /\ CacheOK(d, {}) /\ Stored(c, d, x, y, now)
         /\ QueuesSorted(c) /\ NotAfter(c, now) => QueuesSorted(d)
<1> DEFINE key == Item(c, x).key
           old == do_item_get(c, key, now)
<1>1. /\ key \in Keys /\ x \in DOMAIN c.mem /\ x \in Chunks /\ IsItem(Item(c, x))
      /\ Table!assoc_find(c.assoc, key) = y
  BY ItemType DEF Occupied, CacheOK, Found
<1>2. CASE y = NULL
  <2>1. d \in do_item_link(c, x, now)
    BY <1>1, <1>2 DEF do_store_item, do_item_get
  <2>2. /\ CacheOK(d, {}) /\ OnlyHeader(c, d, x) /\ IsLinked(d, x) /\ ~IsSlabbed(d, x)
        /\ Item(d, x).time = now
        /\ QueuesSorted(c) /\ NotAfter(c, now) => QueuesSorted(d)
    BY <1>2, <2>1, LinkItem
  <2> QED BY <1>2, <2>2 DEF OnlyHeader, Stored
<1>3. CASE y # NULL
  <2> DEFINE c1 == old.c
  <2>1. /\ old.it = y /\ IsLinked(c, y) /\ Item(c, y).key = key
        /\ CacheOK(c1, {}) /\ DOMAIN c1.mem = DOMAIN c.mem
        /\ \A z : z # y => Item(c1, z) = Item(c, z)
        /\ Item(c1, y).key = key /\ Item(c1, y).val = Item(c, y).val
        /\ Item(c1, y).refcount = Item(c, y).refcount + 1
        /\ IsLinked(c1, y) /\ ~IsSlabbed(c1, y)
        /\ Item(c1, y).time = Item(c, y).time \/ Item(c1, y).time = now
        /\ QueuesSorted(c) /\ NotAfter(c, now) => QueuesSorted(c1)
    <3>1. key \in Keys /\ y = Found(c.assoc)[key] /\ Item(c, y).refcount + 1 < RefMod
      BY <1>1, <1>3
    <3> HIDE DEF key
    <3> QED BY <1>3, <3>1, GetItem
  <2>2. d \in Then(do_item_replace(c1, y, x, now), LAMBDA e : do_item_release(e, y))
    BY <1>1, <1>3, <2>1 DEF do_store_item
  <2> HIDE DEF c1, old
  <2>3. y # x /\ y \in Occupied(c1) /\ y \in DOMAIN c.mem
    BY <2>1, ItemType DEF CacheOK, Occupied
  <2>4. Check(c1, SLABBED \notin Item(c1, y).iflag) = c1
    <3> DEFINE cond == SLABBED \notin Item(c1, y).iflag
    <3>1. cond = TRUE
      BY <2>1 DEF IsSlabbed
    <3>2. IsCache(c1) /\ c1.ok
      BY <2>1 DEF CacheOK
    <3> HIDE DEF cond
    <3>3. Check(c1, cond) = c1
      BY <3>1, <3>2, CheckNothing
    <3> QED BY <3>3 DEF cond
  <2>18. PICK c3 \in do_item_replace(c1, y, x, now) : d \in do_item_release(c3, y)
    BY <2>2 DEF Then
  <2>5. PICK c2 \in do_item_unlink(c1, y) : c3 \in do_item_link(c2, x, now)
    BY <2>4, <2>18 DEF do_item_replace, Then
  <2>6. /\ CacheOK(c2, {}) /\ OnlyFlags(c1, c2, y) /\ ~IsLinked(c2, y)
        /\ QueuesSorted(c1) => QueuesSorted(c2)
        /\ IsSlabbed(c2, y) <=> IsLinked(c1, y) /\ Item(c1, y).refcount = 0
    BY <2>1, <2>3, <2>5, DoUnlink
  <2>7. Item(c, y).refcount \in Nat
    BY <2>1, ItemType, RefType DEF CacheOK, IsItem
  <2>8. /\ ~IsSlabbed(c2, y) /\ Item(c2, x) = Item(c, x) /\ x \in Occupied(c2) /\ ~IsLinked(c2, x)
        /\ y \in Occupied(c2) /\ DOMAIN c2.mem = DOMAIN c.mem
    BY <2>1, <2>3, <2>6, <2>7 DEF OnlyFlags, Occupied, IsLinked, IsSlabbed
  <2>9. Found(c2.assoc)[key] = NULL
    <3> SUFFICES ASSUME Found(c2.assoc)[key] # NULL PROVE FALSE
      OBVIOUS
    <3> DEFINE z == Found(c2.assoc)[key]
    <3>1. z \in LinkedItems(c2) /\ Item(c2, z).key = key
      BY <1>1, <2>6 DEF CacheOK, TableAgrees
    <3>2. z # y
      BY <2>6, <3>1 DEF LinkedItems
    <3>3. z \in LinkedItems(c1) /\ Item(c1, z).key = key
      BY <2>6, <3>1, <3>2 DEF OnlyFlags, LinkedItems, IsLinked
    <3>4. y \in LinkedItems(c1)
      BY <2>1, ItemType DEF CacheOK, LinkedItems
    <3> HIDE DEF z
    <3>5. z = Found(c1.assoc)[key] /\ y = Found(c1.assoc)[key]
      BY <2>1, <3>3, <3>4 DEF CacheOK, TableAgrees
    <3> QED BY <3>2, <3>5
  <2>10. /\ CacheOK(c3, {}) /\ OnlyHeader(c2, c3, x) /\ IsLinked(c3, x) /\ ~IsSlabbed(c3, x)
         /\ Item(c3, x).time = now
         /\ QueuesSorted(c2) /\ NotAfter(c2, now) => QueuesSorted(c3)
    BY <2>5, <2>6, <2>8, <2>9, LinkItem
  <2>11. /\ Item(c3, y) = Item(c2, y) /\ y \in Occupied(c3) /\ Item(c3, y).refcount = Item(c, y).refcount + 1
         /\ ~IsLinked(c3, y) /\ Item(c3, y).refcount # 0
    BY <2>1, <2>3, <2>6, <2>7, <2>8, <2>10 DEF OnlyHeader, OnlyFlags, Occupied, IsLinked, IsSlabbed
  <2>12. /\ CacheOK(d, {}) /\ DOMAIN d.mem = DOMAIN c3.mem
         /\ \A z : z # y => Item(d, z) = Item(c3, z)
         /\ Item(d, y).key = Item(c3, y).key /\ Item(d, y).val = Item(c3, y).val
         /\ Item(d, y).refcount = Item(c3, y).refcount - 1 /\ Item(d, y).time = Item(c3, y).time
         /\ IsLinked(d, y) <=> IsLinked(c3, y)
         /\ IsSlabbed(d, y) <=> ~IsLinked(c3, y) /\ Item(c3, y).refcount = 1
         /\ QueuesSorted(c3) => QueuesSorted(d)
    BY <2>10, <2>11, <2>18, ReleaseItem
  <2>13. /\ DOMAIN d.mem = DOMAIN c.mem
         /\ \A z : z \notin {x, y} => Item(d, z) = Item(c, z)
    BY <2>1, <2>6, <2>10, <2>12 DEF OnlyHeader, OnlyFlags
  <2>14. /\ Item(d, x) = Item(c3, x) /\ Item(d, x).key = Item(c, x).key /\ Item(d, x).val = Item(c, x).val
         /\ Item(d, x).refcount = Item(c, x).refcount
         /\ Item(d, x).time = now /\ IsLinked(d, x) /\ ~IsSlabbed(d, x)
    BY <2>3, <2>8, <2>10, <2>12 DEF OnlyHeader, IsLinked, IsSlabbed
  <2>15. /\ ~IsLinked(d, y) /\ Item(d, y).key = Item(c, y).key /\ Item(d, y).val = Item(c, y).val
         /\ Item(d, y).refcount = Item(c, y).refcount
         /\ Item(d, y).time = Item(c, y).time \/ Item(d, y).time = now
         /\ IsSlabbed(d, y) <=> Item(c, y).refcount = 0
    BY <2>1, <2>6, <2>7, <2>11, <2>12 DEF OnlyFlags
  <2>16. Stored(c, d, x, y, now)
    BY <2>1, <2>3, <2>13, <2>14, <2>15 DEF Stored
  <2>17. ASSUME QueuesSorted(c), NotAfter(c, now) PROVE QueuesSorted(d)
    <3>1. NotAfter(c2, now)
      <4> SUFFICES ASSUME NEW z \in LinkedItems(c2) PROVE Item(c2, z).time <= now
        BY DEF NotAfter
      <4>1. z # y
        BY <2>6 DEF LinkedItems
      <4>2. Item(c2, z) = Item(c, z) /\ z \in LinkedItems(c)
        BY <2>1, <2>6, <4>1 DEF OnlyFlags, LinkedItems, IsLinked
      <4> QED BY <2>17, <4>2 DEF NotAfter
    <3> QED BY <2>1, <2>6, <2>10, <2>12, <2>17, <3>1
  <2> QED
    BY <2>12, <2>16, <2>17
<1> QED
  BY <1>2, <1>3

-----------------------------------------------------------------------------
(***************************************************************************)
(* do_item_alloc.                                                          *)
(***************************************************************************)

LEMMA LeastNumber ==
  ASSUME NEW S, S \subseteq Nat, S # {}
  PROVE  \E m \in S : \A n \in S : m <= n
<1>1. IsWellFoundedOn(OpToRel(<, Nat), Nat)
  BY NatLessThanWellFounded
<1>2. PICK m \in S : \A n \in S : ~ (<<n, m>> \in OpToRel(<, Nat))
  BY <1>1, WFMin
<1>3. \A n \in S : ~(n < m)
  BY <1>2 DEF OpToRel
<1>4. ASSUME NEW n \in S PROVE m <= n
  <2>1. m \in Nat /\ n \in Nat /\ ~(n < m)
    BY <1>3
  <2> QED BY <2>1
<1> QED
  BY <1>4

\* slabs_clsid finds a class, or says that there is none.
\* A request that is not too long has a class.
LEMMA ClassOfRequest ==
  ASSUME NEW bytes \in Nat, ~(bytes = 0 \/ bytes > size[power_largest])
  PROVE  Slab!slabs_clsid(bytes) \in Slab!Classes
<1>1. power_largest \in Nat \ {0} /\ size \in [Slab!Classes -> Nat \ {0}]
  BY LRUListsAssumption DEF Slab!SlabsAssumption
<1>2. Slab!Classes = 1 .. power_largest
  BY DEF Slab!Classes, Slab!POWER_SMALLEST
<1> DEFINE S == {id \in Slab!Classes : bytes <= size[id]}
<1>3. power_largest \in Slab!Classes
  BY <1>1, <1>2
<1>4. size[power_largest] \in Nat
  BY <1>1, <1>3
<1>5. S \subseteq Nat /\ S # {}
  BY <1>1, <1>2, <1>3, <1>4
<1> HIDE DEF S
<1>6. PICK m \in S : \A n \in S : m <= n
  BY <1>5, LeastNumber
<1>7. m \in Slab!Classes /\ bytes <= size[m]
  BY DEF S
<1>8. ASSUME NEW n \in Slab!Classes, n < m PROVE bytes > size[n]
  <2>1. n \notin S
    BY <1>1, <1>2, <1>6, <1>7, <1>8
  <2>2. size[n] \in Nat
    BY <1>1
  <2> QED BY <2>1, <2>2 DEF S
<1> QED
  BY <1>7, <1>8 DEF Slab!slabs_clsid

LEMMA ClassFound ==
  ASSUME NEW bytes \in Nat
  PROVE  Slab!slabs_clsid(bytes) \in 0 .. power_largest
<1>1. power_largest \in Nat \ {0}
  BY LRUListsAssumption DEF Slab!SlabsAssumption
<1>2. Slab!Classes = 1 .. power_largest
  BY DEF Slab!Classes, Slab!POWER_SMALLEST
<1>3. CASE bytes = 0 \/ bytes > size[power_largest]
  BY <1>1, <1>3 DEF Slab!slabs_clsid
<1>4. CASE ~(bytes = 0 \/ bytes > size[power_largest])
  BY <1>1, <1>2, <1>4, ClassOfRequest
<1> QED
  BY <1>3, <1>4

IsOutcome(o) == o = [it |-> o.it, c |-> o.c]

\* What a call of slabs_alloc does: the chunk it gives out is nobody's yet.
ChunkTaken(c, o, id) ==
  /\ o.it = NULL => CacheOK(o.c, {})
  /\ o.it # NULL => /\ o.it \in Chunks /\ o.it[1] = id /\ o.it \notin Occupied(c)
                    /\ CacheOK(o.c, {o.it})
  /\ IsOutcome(o)
  /\ o.c.mem = c.mem /\ o.c.lru = c.lru /\ o.c.assoc = c.assoc
  /\ \A y : Item(o.c, y) = Item(c, y)

LEMMA AllocChunk ==
  ASSUME NEW c, CacheOK(c, {}), NEW bytes \in Nat, NEW id, NEW o \in slabs_alloc(c, bytes, id)
  PROVE  ChunkTaken(c, o, id)
<1> USE DEF ChunkTaken
<1>1. PICK p \in Slab!do_slabs_alloc(c.slabs, bytes, id) : o = [it |-> p.ret, c |-> WithSlabs(c, p.s)]
  BY DEF slabs_alloc, WithSlabs
<1> DEFINE d == WithSlabs(c, p.s)
<1>2. o.it = p.ret /\ o.c = d /\ IsOutcome(o)
  BY <1>1 DEF IsOutcome
<1>3. /\ IsCache(d) /\ d.slabs = p.s /\ d.assoc = c.assoc /\ d.lru = c.lru
      /\ d.mem = c.mem /\ d.ok = c.ok /\ \A y : Item(d, y) = Item(c, y)
  <2>1. IsCache(c)
    BY DEF CacheOK
  <2> QED BY <2>1, WithSlabsView
<1> HIDE DEF d
<1>4. /\ SlabsOK(c.slabs, Occupied(c)) /\ FreeChunks(c.slabs) \subseteq Slabbed(c)
      /\ HeapFails = {FALSE} => Slabbed(c) \subseteq FreeChunks(c.slabs)
  <2>1. Occupied(c) \cup {} = Occupied(c) /\ FreeChunks(c.slabs) \cup {} = FreeChunks(c.slabs)
    OBVIOUS
  <2> QED BY <2>1 DEF CacheOK, MemoryOK
<1>5. /\ p.ret = NULL => SlabsOK(p.s, Occupied(c)) /\ FreeChunks(p.s) = FreeChunks(c.slabs)
      /\ p.ret # NULL => /\ p.ret \in Chunks /\ p.ret[1] = id /\ p.ret \notin Occupied(c)
                         /\ SlabsOK(p.s, Occupied(c) \cup {p.ret})
                         /\ FreeChunks(p.s) = FreeChunks(c.slabs) \ {p.ret}
  <2> PICK s : s = c.slabs
    OBVIOUS
  <2> PICK given : given = Occupied(c)
    OBVIOUS
  <2>1. SlabsOK(s, given) /\ p \in Slab!do_slabs_alloc(s, bytes, id)
    BY <1>4
  <2>2. SlabTaken(s, given, p, id)
    BY <2>1, SlabAlloc
  <2> QED BY <2>2 DEF SlabTaken
<1>6. \A y : (IsSlabbed(d, y) <=> IsSlabbed(c, y)) /\ (IsLinked(d, y) <=> IsLinked(c, y))
  BY <1>3 DEF IsSlabbed, IsLinked
<1>7. LinkedItems(d) = LinkedItems(c) /\ Occupied(d) = Occupied(c) /\ Slabbed(d) = Slabbed(c)
  BY <1>3, <1>6 DEF LinkedItems, Occupied, Slabbed
<1>8. HeadersOK(d)
  BY <1>3, <1>6 DEF HeadersOK, CacheOK
<1>9. TableAgrees(d) /\ QueuesAgree(d)
  BY <1>3, <1>7 DEF TableAgrees, QueuesAgree, CacheOK
<1>10. CASE p.ret = NULL
  <2>1. MemoryOK(d, {})
    <3>1. Occupied(d) \cup {} = Occupied(c)
      BY <1>7
    <3> QED BY <1>3, <1>4, <1>5, <1>7, <1>10, <3>1 DEF MemoryOK
  <2> QED BY <1>2, <1>3, <1>8, <1>9, <1>10, <2>1 DEF CacheOK
<1>11. CASE p.ret # NULL
  <2>1. MemoryOK(d, {p.ret})
    <3>1. SlabsOK(d.slabs, Occupied(d) \cup {p.ret}) /\ {p.ret} \cap Occupied(d) = {}
      BY <1>3, <1>5, <1>7, <1>11
    <3>2. FreeChunks(d.slabs) \subseteq Slabbed(d)
      BY <1>3, <1>4, <1>5, <1>7, <1>11
    <3>3. HeapFails = {FALSE} => Slabbed(d) \subseteq FreeChunks(d.slabs) \cup {p.ret}
      BY <1>3, <1>4, <1>5, <1>7, <1>11
    <3> QED BY <3>1, <3>2, <3>3 DEF MemoryOK
  <2> QED BY <1>2, <1>3, <1>5, <1>8, <1>9, <1>11, <2>1 DEF CacheOK
<1> QED
  BY <1>10, <1>11

\* What is written in the header of the chunk that was found.
Fresh(it, key, bytes, id) ==
  [it EXCEPT !.key = key, !.bytes = bytes, !.refcount = 1, !.iflag = {}, !.slabs_clsid = id]

LEMMA ItemFresh ==
  ASSUME NEW it, IsItem(it), NEW key, NEW bytes \in Nat, NEW id \in 0 .. power_largest
  PROVE  LET f == Fresh(it, key, bytes, id) IN
         /\ IsItem(f) /\ f.iflag = {} /\ f.slabs_clsid = id
         /\ f.key = key /\ f.time = it.time /\ f.refcount = 1 /\ f.val = it.val
<1> PICK f : f = Fresh(it, key, bytes, id)
  OBVIOUS
<1>1. f = [key |-> key, val |-> it.val, bytes |-> bytes, time |-> it.time,
           refcount |-> 1, iflag |-> {}, slabs_clsid |-> id]
  BY DEF IsItem, Fresh
<1> QED
  BY <1>1, RefType DEF IsItem

\* The item that InitItem makes of a chunk.
NewItem(c, d, x, key) ==
  /\ DOMAIN d.mem = DOMAIN c.mem \cup {x}
  /\ \A y : y # x => Item(d, y) = Item(c, y)
  /\ x \in Occupied(d) /\ ~IsLinked(d, x)
  /\ Item(d, x).key = key /\ Item(d, x).refcount = 1 /\ Item(d, x).time = Item(c, x).time

LEMMA InitItemStep ==
  ASSUME NEW x \in Chunks, NEW c, CacheOK(c, {x}), NEW key \in Keys, NEW bytes \in Nat,
         NEW id \in 0 .. power_largest, x[1] = id, NEW d, d = InitItem(c, x, key, bytes, id)
  PROVE  CacheOK(d, {}) /\ NewItem(c, d, x, key) /\ d.lru = c.lru
<1> DEFINE it == Item(c, x)
           cond == Item(c, x).slabs_clsid = 0 /\ (c.lru[id] # <<>> => x # Head(c.lru[id]))
           e == Check(c, cond)
           fresh == Fresh(it, key, bytes, id)
<1>1. x \notin Occupied(c) /\ IsCache(c) /\ c.ok
  BY DEF CacheOK, MemoryOK
<1>2. IsItem(it) /\ it.slabs_clsid = 0 /\ ~IsLinked(c, x)
  <2>1. CASE x \in DOMAIN c.mem
    BY <1>1, <2>1 DEF CacheOK, HeadersOK, Occupied
  <2>2. CASE x \notin DOMAIN c.mem
    <3>1. it = ZeroedItem
      BY <2>2 DEF Item
    <3>2. power_largest \in Nat
      BY LRUListsAssumption DEF Slab!SlabsAssumption
    <3> QED BY <3>1, <3>2, RefType DEF ZeroedItem, IsItem, IsLinked
  <2> QED BY <2>1, <2>2
<1>3. cond = TRUE
  <2>1. c.lru[id] \in Seq(Chunks) /\ Range(c.lru[id]) \subseteq LinkedItems(c)
    BY DEF CacheOK, QueuesAgree
  <2>2. c.lru[id] # <<>> => Head(c.lru[id]) \in Range(c.lru[id])
    BY <2>1 DEF Range
  <2> QED BY <1>2, <2>1, <2>2 DEF LinkedItems
<1> HIDE DEF cond
<1>4. e = c
  BY <1>1, <1>3, CheckNothing
<1>5. d = WithItem(c, x, fresh)
  <2>1. d = WithItem(e, x, fresh)
    BY DEF InitItem, Fresh, cond
  <2> QED BY <1>4, <2>1
<1> HIDE DEF e
<1>6. /\ IsItem(fresh) /\ fresh.iflag = {} /\ fresh.slabs_clsid = id
      /\ fresh.key = key /\ fresh.time = it.time /\ fresh.refcount = 1
  <2>1. IsItem(it)
    BY <1>2
  <2> HIDE DEF it
  <2> QED BY <2>1, ItemFresh
<1> HIDE DEF fresh
<1>7. /\ IsCache(d) /\ d.slabs = c.slabs /\ d.assoc = c.assoc /\ d.lru = c.lru /\ d.ok
      /\ DOMAIN d.mem = DOMAIN c.mem \cup {x} /\ Item(d, x) = fresh
      /\ \A y : y # x => Item(d, y) = Item(c, y)
  <2> DEFINE w == WithItem(c, x, fresh)
  <2>1. /\ IsCache(w) /\ w.slabs = c.slabs /\ w.assoc = c.assoc /\ w.lru = c.lru /\ w.ok = c.ok
        /\ DOMAIN w.mem = DOMAIN c.mem \cup {x} /\ Item(w, x) = fresh
        /\ \A y : y # x => Item(w, y) = Item(c, y)
    <3>1. IsCache(c)
      BY <1>1
    <3> QED BY <3>1, WithItemView
  <2> HIDE DEF w
  <2>2. d = w
    BY <1>5 DEF w
  <2> QED BY <1>1, <2>1, <2>2
<1>8. ~IsLinked(d, x) /\ ~IsSlabbed(d, x)
  BY <1>6, <1>7 DEF IsLinked, IsSlabbed
<1>9. \A y : y # x => (IsSlabbed(d, y) <=> IsSlabbed(c, y)) /\ (IsLinked(d, y) <=> IsLinked(c, y))
  BY <1>7 DEF IsSlabbed, IsLinked
<1>10. /\ LinkedItems(d) = LinkedItems(c) /\ Occupied(d) = Occupied(c) \cup {x}
       /\ Slabbed(d) = Slabbed(c) \ {x}
  BY <1>1, <1>2, <1>7, <1>8, <1>9 DEF LinkedItems, Occupied, Slabbed
<1>11. HeadersOK(d)
  <2>1. IsFiniteSet(DOMAIN d.mem)
    BY <1>7, FS_AddElement DEF CacheOK, HeadersOK
  <2> QED BY <1>6, <1>7, <1>8, <1>9, <2>1 DEF CacheOK, HeadersOK
<1>12. TableAgrees(d) /\ QueuesAgree(d)
  <2>1. \A y \in LinkedItems(c) : Item(d, y) = Item(c, y)
    BY <1>2, <1>7 DEF LinkedItems
  <2> QED BY <1>7, <1>10, <2>1 DEF CacheOK, TableAgrees, QueuesAgree
<1>13. MemoryOK(d, {})
  <2>1. Occupied(d) \cup {} = Occupied(c) \cup {x}
    BY <1>10
  <2>2. x \notin FreeChunks(c.slabs)
    <3>1. PICK dropped : Slab!Partitioned(c.slabs, Occupied(c) \cup {x}, dropped)
      BY DEF CacheOK, MemoryOK, SlabsOK
    <3>2. SlabFacts!Partitioned(c.slabs, Occupied(c) \cup {x}, dropped)
      BY <3>1, SameInvariants
    <3> QED BY <3>2, NotFree
  <2>3. /\ SlabsOK(c.slabs, Occupied(c) \cup {x}) /\ FreeChunks(c.slabs) \subseteq Slabbed(c)
        /\ HeapFails = {FALSE} => Slabbed(c) \subseteq FreeChunks(c.slabs) \cup {x}
    BY DEF CacheOK, MemoryOK
  <2> QED BY <1>7, <1>10, <2>1, <2>2, <2>3 DEF MemoryOK
<1> QED
  BY <1>6, <1>7, <1>8, <1>10, <1>11, <1>12, <1>13 DEF CacheOK, NewItem

(***************************************************************************)
(* Whatever goes when room is made is linked, and nobody refers to it or   *)
(* it has not been looked at for TAIL_REPAIR_TIME.  In a sorted queue what *)
(* nobody refers to goes in the order of time.                             *)
(***************************************************************************)
MayGo(c, y, now) ==
  /\ IsLinked(c, y)
  /\ Item(c, y).refcount = 0 \/ Item(c, y).time + TAIL_REPAIR_TIME < now

OldestGoes(c, d) ==
  \A x, y :
    /\ IsLinked(c, x) /\ Item(c, x).refcount = 0 /\ ~IsLinked(d, x)
    /\ IsLinked(d, y) /\ Item(c, y).refcount = 0
    /\ Item(c, y).slabs_clsid = Item(c, x).slabs_clsid
    => Item(c, x).time <= Item(c, y).time

Made(c, d, now) ==
  /\ CacheOK(d, {}) /\ DOMAIN d.mem = DOMAIN c.mem
  /\ \A y : /\ Item(d, y).key = Item(c, y).key /\ Item(d, y).val = Item(c, y).val
            /\ Item(d, y).time = Item(c, y).time
            /\ \/ Item(d, y) = Item(c, y)
               \/ MayGo(c, y, now) /\ IsSlabbed(d, y) /\ ~IsLinked(d, y)
  /\ QueuesSorted(c) => QueuesSorted(d) /\ OldestGoes(c, d)

LEMMA Searching ==
  ASSUME NEW c, CacheOK(c, {}), NEW id \in 0 .. power_largest, NEW i \in Searched(c, id)
  PROVE  c.lru[id][i] \in LinkedItems(c)
<1>1. c.lru[id] \in Seq(Chunks) /\ Range(c.lru[id]) \subseteq LinkedItems(c)
  BY DEF CacheOK, QueuesAgree
<1>2. i \in DOMAIN c.lru[id]
  BY <1>1 DEF Searched
<1> QED
  BY <1>1, <1>2 DEF Range

\* The place that FirstMet takes is one of them.
LEMMA FirstIsMet ==
  ASSUME NEW c, NEW id, NEW hits, hits \subseteq Searched(c, id), hits # {},
         c.lru[id] \in Seq(Chunks)
  PROVE  \E i \in hits : FirstMet(c, id, hits) = c.lru[id][i] /\ \A j \in hits : j <= i
<1> DEFINE n == Len(c.lru[id])
           S == {n - i : i \in hits}
<1>1. n \in Nat /\ hits \subseteq 1 .. n
  BY DEF Searched
<1>2. S \subseteq Nat /\ S # {}
  BY <1>1
<1>3. PICK m \in S : \A k \in S : m <= k
  <2> HIDE DEF S
  <2> QED BY <1>2, LeastNumber
<1>4. PICK i \in hits : m = n - i
  OBVIOUS
<1>5. ASSUME NEW j \in hits PROVE j <= i
  <2>1. n - i <= n - j
    BY <1>3, <1>4
  <2>2. i \in 1 .. n /\ j \in 1 .. n
    BY <1>1
  <2> QED BY <1>1, <2>1, <2>2
<1> DEFINE k == CHOOSE k \in hits : \A j \in hits : j <= k
<1>6. k \in hits /\ \A j \in hits : j <= k
  BY <1>5
<1>7. FirstMet(c, id, hits) = c.lru[id][k]
  BY DEF FirstMet
<1> HIDE DEF k
<1> QED
  BY <1>6, <1>7

\* Unlinking an item frees it, when nobody refers to it.
LEMMA GoneByUnlink ==
  ASSUME NoPrefixes, NEW c, CacheOK(c, {}), NEW x \in LinkedItems(c), Item(c, x).refcount = 0,
         NEW d \in do_item_unlink(c, x)
  PROVE  /\ CacheOK(d, {}) /\ OnlyFlags(c, d, x) /\ ~IsLinked(d, x) /\ IsSlabbed(d, x)
         /\ QueuesSorted(c) => QueuesSorted(d)
<1>1. x \in Occupied(c) /\ IsLinked(c, x)
  BY DEF CacheOK, HeadersOK, Occupied, LinkedItems
<1> QED
  BY <1>1, DoUnlink

\* What is nearer to the tail of a sorted queue is older.
LEMMA OlderNearTail ==
  ASSUME NEW c, CacheOK(c, {}), QueuesSorted(c), NEW id \in 0 .. power_largest,
         NEW i \in Searched(c, id), NEW y \in LinkedItems(c), Item(c, y).slabs_clsid = id,
         \A j \in Searched(c, id) : c.lru[id][j] = y => j <= i
  PROVE  Item(c, c.lru[id][i]).time <= Item(c, y).time
<1>1. /\ c.lru[id] \in Seq(Chunks) /\ AreQueues(c.lru)
      /\ Range(c.lru[id]) = {x \in LinkedItems(c) : Item(c, x).slabs_clsid = id}
  BY DEF CacheOK, QueuesAgree
<1>2. PICK j \in DOMAIN c.lru[id] : c.lru[id][j] = y
  BY <1>1 DEF Range
<1>3. /\ Len(c.lru[id]) \in Nat /\ DOMAIN c.lru[id] = 1 .. Len(c.lru[id])
      /\ SEARCH_ITEMS \in Nat /\ id \in DOMAIN c.lru
  BY <1>1, LRUListsAssumption DEF AreQueues
<1>4. i \in DOMAIN c.lru[id] /\ i > Len(c.lru[id]) - SEARCH_ITEMS
  BY <1>3 DEF Searched
<1>5. j <= i
  <2>1. CASE j > Len(c.lru[id]) - SEARCH_ITEMS
    BY <1>2, <1>3, <2>1 DEF Searched
  <2>2. CASE ~(j > Len(c.lru[id]) - SEARCH_ITEMS)
    BY <1>2, <1>3, <1>4, <2>2
  <2> QED BY <2>1, <2>2
<1>6. CASE j = i
  <2>1. Item(c, y).time \in Nat
    BY DEF CacheOK, HeadersOK, LinkedItems, IsItem
  <2> QED BY <1>2, <1>6, <2>1
<1>7. CASE j < i
  <2>1. /\ Item(c, c.lru[id][j]).time >= Item(c, c.lru[id][i]).time
    BY <1>2, <1>3, <1>4, <1>7 DEF QueuesSorted
  <2>2. Item(c, y).time \in Nat
    BY DEF CacheOK, HeadersOK, LinkedItems, IsItem
  <2>3. Item(c, c.lru[id][i]).time \in Nat
    BY Searching DEF CacheOK, HeadersOK, LinkedItems, IsItem
  <2> QED BY <1>2, <2>1, <2>2, <2>3
<1> QED
  BY <1>2, <1>3, <1>4, <1>5, <1>6, <1>7

LEMMA MadeByEviction ==
  ASSUME NoPrefixes, NEW c, CacheOK(c, {}), NEW id \in 0 .. power_largest, NEW now \in Nat,
         NEW d \in EvictUnused(c, id)
  PROVE  Made(c, d, now)
<1> DEFINE unused == {i \in Searched(c, id) : Item(c, c.lru[id][i]).refcount = 0}
<1>1. CASE unused = {}
  <2>1. d = c
    BY <1>1 DEF EvictUnused
  <2> QED BY <2>1 DEF Made, OldestGoes
<1>2. CASE unused # {}
  <2>1. d \in do_item_unlink(c, FirstMet(c, id, unused))
    BY <1>2 DEF EvictUnused
  <2>2. c.lru[id] \in Seq(Chunks)
    BY DEF CacheOK, QueuesAgree
  <2>a. unused \subseteq Searched(c, id)
    OBVIOUS
  <2>b. \A i \in unused : Item(c, c.lru[id][i]).refcount = 0
    OBVIOUS
  <2>c. \A i \in Searched(c, id) : Item(c, c.lru[id][i]).refcount = 0 => i \in unused
    OBVIOUS
  <2> HIDE DEF unused
  <2>3. PICK i \in unused : FirstMet(c, id, unused) = c.lru[id][i] /\ \A j \in unused : j <= i
    BY <1>2, <2>2, <2>a, FirstIsMet
  <2> PICK x : x = c.lru[id][i]
    OBVIOUS
  <2>4. x \in LinkedItems(c) /\ Item(c, x).refcount = 0 /\ Item(c, x).slabs_clsid = id
    <3>1. x \in LinkedItems(c) /\ Item(c, x).refcount = 0
      BY <2>3, <2>a, <2>b, Searching
    <3>2. x \in Range(c.lru[id])
      <4>1. i \in 1 .. Len(c.lru[id])
        BY <2>3, <2>a DEF Searched
      <4> QED BY <2>2, <4>1 DEF Range
    <3> QED BY <3>1, <3>2 DEF CacheOK, QueuesAgree
  <2>5. /\ CacheOK(d, {}) /\ OnlyFlags(c, d, x) /\ ~IsLinked(d, x) /\ IsSlabbed(d, x)
        /\ QueuesSorted(c) => QueuesSorted(d)
    BY <2>1, <2>3, <2>4, GoneByUnlink
  <2>6. ASSUME QueuesSorted(c) PROVE OldestGoes(c, d)
    <3>1. ASSUME NEW w, NEW y, IsLinked(c, w), ~IsLinked(d, w), IsLinked(d, y),
                 Item(c, y).refcount = 0, Item(c, y).slabs_clsid = Item(c, w).slabs_clsid
          PROVE  Item(c, w).time <= Item(c, y).time
      <4>1. w = x
        BY <2>5, <3>1 DEF OnlyFlags, IsLinked
      <4>2. y # x
        BY <2>5, <3>1
      <4>3. y \in LinkedItems(c) /\ Item(c, y).slabs_clsid = id
        <5>1. IsLinked(c, y)
          BY <2>5, <3>1, <4>2 DEF OnlyFlags, IsLinked
        <5>2. y \in DOMAIN c.mem
          BY <5>1, ItemType DEF CacheOK
        <5> QED BY <2>4, <3>1, <4>1, <5>1, <5>2 DEF LinkedItems
      <4>4. \A j \in Searched(c, id) : c.lru[id][j] = y => j <= i
        BY <2>3, <2>c, <3>1
      <4> QED BY <2>3, <2>6, <2>a, <4>1, <4>3, <4>4, OlderNearTail
    <3> QED BY <3>1 DEF OldestGoes
  <2> QED BY <2>4, <2>5, <2>6 DEF Made, OnlyFlags, MayGo, LinkedItems
<1> QED
  BY <1>1, <1>2

\* An item that somebody refers to goes when it is stuck.
LEMMA MadeByRepair ==
  ASSUME NoPrefixes, NEW c, CacheOK(c, {}), NEW id \in 0 .. power_largest, NEW now \in Nat,
         NEW d \in RepairTail(c, id, now)
  PROVE  Made(c, d, now)
<1> DEFINE IsStuck(i) == /\ Item(c, c.lru[id][i]).refcount # 0
                         /\ Item(c, c.lru[id][i]).time + TAIL_REPAIR_TIME < now
           stuck == {i \in Searched(c, id) : IsStuck(i)}
<1>1. CASE stuck = {}
  <2>1. d = c
    BY <1>1 DEF RepairTail
  <2> QED BY <2>1 DEF Made, OldestGoes
<1>2. CASE stuck # {}
  <2>1. d \in do_item_unlink(WithItem(c, FirstMet(c, id, stuck),
                                Counted(Item(c, FirstMet(c, id, stuck)), 0)),
                            FirstMet(c, id, stuck))
    BY <1>2 DEF RepairTail, Counted
  <2>2. c.lru[id] \in Seq(Chunks)
    BY DEF CacheOK, QueuesAgree
  <2>a. stuck \subseteq Searched(c, id)
    OBVIOUS
  <2>b. \A i \in stuck : IsStuck(i)
    OBVIOUS
  <2> HIDE DEF stuck, IsStuck
  <2>3. PICK i \in stuck : FirstMet(c, id, stuck) = c.lru[id][i]
    BY <1>2, <2>2, <2>a, FirstIsMet
  <2>c. PICK x : x = c.lru[id][i]
    OBVIOUS
  <2>d. PICK counted : counted = Counted(Item(c, x), 0)
    OBVIOUS
  <2>e. PICK e : e = WithItem(c, x, counted)
    OBVIOUS
  <2>4. x \in LinkedItems(c) /\ MayGo(c, x, now) /\ Item(c, x).refcount # 0
    BY <2>3, <2>a, <2>b, <2>c, Searching DEF MayGo, LinkedItems, IsStuck
  <2>5. x \in Occupied(c) /\ IsItem(Item(c, x)) /\ 0 \in 0 .. RefMod - 1
    BY <2>4, RefType DEF CacheOK, HeadersOK, Occupied, LinkedItems
  <2>6. /\ IsItem(counted) /\ counted.iflag = Item(c, x).iflag
        /\ counted.slabs_clsid = Item(c, x).slabs_clsid
        /\ counted.key = Item(c, x).key /\ counted.val = Item(c, x).val
        /\ counted.time = Item(c, x).time /\ counted.refcount = 0
    <3> PICK it : it = Item(c, x)
      OBVIOUS
    <3>1. IsItem(it) /\ counted = Counted(it, 0)
      BY <2>5, <2>d
    <3>2. LET f == Counted(it, 0) IN
          /\ IsItem(f) /\ f.iflag = it.iflag /\ f.slabs_clsid = it.slabs_clsid
          /\ f.key = it.key /\ f.val = it.val /\ f.time = it.time /\ f.refcount = 0
      BY <2>5, <3>1, ItemCounted
    <3> QED BY <3>1, <3>2
  <2>7. /\ CacheOK(e, {}) /\ DOMAIN e.mem = DOMAIN c.mem /\ Occupied(e) = Occupied(c)
        /\ e.lru = c.lru /\ Item(e, x) = counted /\ \A y : y # x => Item(e, y) = Item(c, y)
    BY <2>5, <2>6, <2>e, ChangeHeader
  <2>8. x \in LinkedItems(e) /\ Item(e, x).refcount = 0
    BY <2>4, <2>6, <2>7 DEF LinkedItems, IsLinked
  <2>9. /\ CacheOK(d, {}) /\ OnlyFlags(e, d, x) /\ ~IsLinked(d, x) /\ IsSlabbed(d, x)
        /\ QueuesSorted(e) => QueuesSorted(d)
    <3>1. d \in do_item_unlink(e, x)
      BY <2>1, <2>3, <2>c, <2>d, <2>e
    <3> QED BY <2>7, <2>8, <3>1, GoneByUnlink
  <2>10. QueuesSorted(c) => QueuesSorted(d)
    <3>1. \A y : Item(e, y).time = Item(c, y).time
      BY <2>6, <2>7
    <3>2. e.lru = c.lru
      BY <2>7
    <3>3. ASSUME QueuesSorted(c) PROVE QueuesSorted(e)
      <4>1. ASSUME NEW n \in DOMAIN c.lru, NEW l \in DOMAIN c.lru[n], NEW j \in DOMAIN c.lru[n],
                   l < j
            PROVE  Item(e, c.lru[n][l]).time >= Item(e, c.lru[n][j]).time
        <5>1. Item(c, c.lru[n][l]).time >= Item(c, c.lru[n][j]).time
          BY <3>3, <4>1 DEF QueuesSorted
        <5> QED BY <3>1, <5>1
      <4> QED BY <3>2, <4>1 DEF QueuesSorted
    <3> QED BY <2>9, <3>3
  <2>11. ASSUME NEW y
         PROVE  /\ Item(d, y).key = Item(c, y).key /\ Item(d, y).val = Item(c, y).val
                /\ Item(d, y).time = Item(c, y).time
                /\ y # x => Item(d, y) = Item(c, y)
    BY <2>6, <2>7, <2>9 DEF OnlyFlags
  <2>12. OldestGoes(c, d)
    BY <2>4, <2>11 DEF OldestGoes, IsLinked
  <2> QED BY <2>4, <2>7, <2>9, <2>10, <2>11, <2>12 DEF Made, OnlyFlags
<1> QED
  BY <1>1, <1>2

\* The outcome of do_item_alloc: room is made, and then perhaps a chunk found.
Allocated(c, o, e, key, now) ==
  /\ Made(c, e, now) /\ CacheOK(o.c, {}) /\ o.c.lru = e.lru
  /\ o.it = NULL => o.c.mem = e.mem
  /\ o.it # NULL => NewItem(e, o.c, o.it, key) /\ o.it \notin Occupied(e)

LEMMA MadeNothing ==
  ASSUME NEW c, CacheOK(c, {}), NEW now
  PROVE  Made(c, c, now)
BY DEF Made, OldestGoes

\* Made is transitive.
LEMMA MadeAgain ==
  ASSUME NEW c, NEW d, NEW e, NEW now, Made(c, d, now), Made(d, e, now), CacheOK(c, {})
  PROVE  Made(c, e, now)
<1>1. ASSUME NEW y
      PROVE  /\ Item(e, y).key = Item(c, y).key /\ Item(e, y).val = Item(c, y).val
             /\ Item(e, y).time = Item(c, y).time
             /\ \/ Item(e, y) = Item(c, y)
                \/ MayGo(c, y, now) /\ IsSlabbed(e, y) /\ ~IsLinked(e, y)
  <2>1. CASE Item(d, y) = Item(c, y)
    BY <2>1 DEF Made, IsLinked, MayGo
  <2>2. CASE Item(d, y) # Item(c, y)
    <3>1. MayGo(c, y, now) /\ IsSlabbed(d, y) /\ ~IsLinked(d, y)
      BY <2>2 DEF Made
    <3>2. Item(e, y) = Item(d, y)
      BY <3>1 DEF Made, MayGo
    <3> QED BY <3>1, <3>2 DEF IsLinked, IsSlabbed, Made
  <2> QED BY <2>1, <2>2
<1>2. ASSUME QueuesSorted(c) PROVE OldestGoes(c, e)
  <2>1. OldestGoes(c, d) /\ OldestGoes(d, e)
    BY <1>2 DEF Made
  <2>2. ASSUME NEW x, NEW y, IsLinked(c, x), Item(c, x).refcount = 0, ~IsLinked(e, x),
               IsLinked(e, y), Item(c, y).refcount = 0,
               Item(c, y).slabs_clsid = Item(c, x).slabs_clsid
        PROVE  Item(c, x).time <= Item(c, y).time
    <3>1. Item(e, y) = Item(d, y) /\ Item(d, y) = Item(c, y)
      <4>1. Item(e, y) = Item(d, y)
        BY <2>2 DEF Made
      <4>2. IsLinked(d, y)
        BY <2>2, <4>1 DEF IsLinked
      <4> QED BY <4>1, <4>2 DEF Made
    <3>2. CASE IsLinked(d, x)
      <4>1. Item(d, x) = Item(c, x)
        BY <3>2 DEF Made
      <4> QED BY <2>1, <2>2, <3>1, <3>2, <4>1 DEF OldestGoes, IsLinked
    <3>3. CASE ~IsLinked(d, x)
      BY <2>1, <2>2, <3>1, <3>3 DEF OldestGoes, IsLinked
    <3> QED BY <3>2, <3>3
  <2> QED BY <2>2 DEF OldestGoes
<1> QED
  BY <1>1, <1>2 DEF Made

\* A call of slabs_alloc after room was made.
Tried(c, o, id, now) ==
  /\ IsOutcome(o)
  /\ \E e :
       /\ Made(c, e, now) /\ o.c.mem = e.mem /\ o.c.lru = e.lru
       /\ \A y : Item(o.c, y) = Item(e, y)
       /\ o.it = NULL => CacheOK(o.c, {})
       /\ o.it # NULL => o.it \in Chunks /\ o.it[1] = id /\ o.it \notin Occupied(e) /\ CacheOK(o.c, {o.it})

\* A call that found nothing made room, if no more.
LEMMA TriedInVain ==
  ASSUME NEW c, NEW o, NEW id, NEW now, Tried(c, o, id, now), o.it = NULL
  PROVE  Made(c, o.c, now)
<1>1. PICK e : /\ Made(c, e, now) /\ o.c.mem = e.mem /\ o.c.lru = e.lru
               /\ \A y : Item(o.c, y) = Item(e, y)
               /\ o.it = NULL => CacheOK(o.c, {})
  BY DEF Tried
<1>2. QueuesSorted(e) => QueuesSorted(o.c)
  BY <1>1 DEF QueuesSorted
<1> QED
  BY <1>1, <1>2 DEF Made, OldestGoes, IsLinked, IsSlabbed

LEMMA TryAgain ==
  ASSUME NEW c, CacheOK(c, {}), NEW now, NEW d, Made(c, d, now), NEW bytes \in Nat, NEW id,
         NEW o \in slabs_alloc(d, bytes, id)
  PROVE  Tried(c, o, id, now)
<1>1. CacheOK(d, {})
  BY DEF Made
<1>2. ChunkTaken(d, o, id)
  BY <1>1, AllocChunk
<1> QED
  BY <1>2 DEF Tried, ChunkTaken

(***************************************************************************)
(* do_item_alloc.                                                          *)
(***************************************************************************)
LEMMA AllocItem ==
  ASSUME NoPrefixes, NEW c, CacheOK(c, {}), NEW key \in Keys, NEW bytes \in Nat, NEW now \in Nat,
         NEW o \in do_item_alloc(c, key, bytes, now)
  PROVE  \E e : Allocated(c, o, e, key, now)
<1> DEFINE id == Slab!slabs_clsid(bytes)
           first == slabs_alloc(c, bytes, id)
           second == Then(first,
                       LAMBDA p : IF p.it # NULL \/ p.c.lru[id] = <<>> THEN {p}
                                  ELSE Then(EvictUnused(p.c, id),
                                            LAMBDA d : slabs_alloc(d, bytes, id)))
           third == Then(second,
                      LAMBDA p : IF p.it # NULL \/ c.lru[id] = <<>> THEN {p}
                                 ELSE Then(RepairTail(p.c, id, now),
                                           LAMBDA d : slabs_alloc(d, bytes, id)))
<1>1. id \in 0 .. power_largest
  BY ClassFound
<1>2. CASE id = 0
  <2>1. o = [it |-> NULL, c |-> c]
    BY <1>2 DEF do_item_alloc
  <2> QED BY <2>1, MadeNothing DEF Allocated
<1>3. CASE id # 0
  <2>1. PICK p \in third : o = IF p.it = NULL THEN p
                               ELSE [p EXCEPT !.c = InitItem(@, p.it, key, bytes, id)]
    BY <1>3 DEF do_item_alloc
  <2> HIDE DEF id
  <2>2. ASSUME NEW r \in first PROVE Tried(c, r, id, now)
    BY MadeNothing, TryAgain
  <2>3. ASSUME NEW r \in second PROVE Tried(c, r, id, now)
    <3>1. PICK f \in first : r \in IF f.it # NULL \/ f.c.lru[id] = <<>> THEN {f}
                                   ELSE Then(EvictUnused(f.c, id),
                                             LAMBDA d : slabs_alloc(d, bytes, id))
      BY <2>3 DEF Then
    <3>2. CASE f.it # NULL \/ f.c.lru[id] = <<>>
      BY <2>2, <3>1, <3>2
    <3>3. CASE ~(f.it # NULL \/ f.c.lru[id] = <<>>)
      <4>1. PICK d \in EvictUnused(f.c, id) : r \in slabs_alloc(d, bytes, id)
        BY <3>1, <3>3 DEF Then
      <4>2. Made(c, f.c, now)
        BY <2>2, <3>3, TriedInVain
      <4>3. CacheOK(f.c, {})
        BY <4>2 DEF Made
      <4>4. Made(f.c, d, now)
        BY <1>1, <4>1, <4>3, MadeByEviction
      <4>5. Made(c, d, now)
        BY <4>2, <4>4, MadeAgain
      <4> QED BY <4>1, <4>5, TryAgain
    <3> QED BY <3>2, <3>3
  <2> HIDE DEF first
  <2>4. ASSUME NEW r \in third PROVE Tried(c, r, id, now)
    <3>1. PICK f \in second : r \in IF f.it # NULL \/ c.lru[id] = <<>> THEN {f}
                                    ELSE Then(RepairTail(f.c, id, now),
                                              LAMBDA d : slabs_alloc(d, bytes, id))
      BY <2>4 DEF Then
    <3>2. CASE f.it # NULL \/ c.lru[id] = <<>>
      BY <2>3, <3>1, <3>2
    <3>3. CASE ~(f.it # NULL \/ c.lru[id] = <<>>)
      <4>1. PICK d \in RepairTail(f.c, id, now) : r \in slabs_alloc(d, bytes, id)
        BY <3>1, <3>3 DEF Then
      <4>2. Made(c, f.c, now)
        BY <2>3, <3>3, TriedInVain
      <4>3. CacheOK(f.c, {})
        BY <4>2 DEF Made
      <4>4. Made(f.c, d, now)
        BY <1>1, <4>1, <4>3, MadeByRepair
      <4>5. Made(c, d, now)
        BY <4>2, <4>4, MadeAgain
      <4> QED BY <4>1, <4>5, TryAgain
    <3> QED BY <3>2, <3>3
  <2> HIDE DEF second, third
  <2>5. Tried(c, p, id, now)
    BY <2>4
  <2>6. CASE p.it = NULL
    <3>1. o = p
      BY <2>1, <2>6
    <3>2. Made(c, o.c, now)
      BY <2>5, <2>6, <3>1, TriedInVain
    <3>3. Allocated(c, o, o.c, key, now)
      BY <2>6, <3>1, <3>2 DEF Allocated, Made
    <3> QED BY <3>3
  <2>7. CASE p.it # NULL
    <3>1. PICK e : /\ Made(c, e, now) /\ p.c.mem = e.mem /\ p.c.lru = e.lru
                   /\ \A y : Item(p.c, y) = Item(e, y)
                   /\ p.it \in Chunks /\ p.it[1] = id /\ p.it \notin Occupied(e) /\ CacheOK(p.c, {p.it})
      BY <2>5, <2>7 DEF Tried
    <3> DEFINE d == InitItem(p.c, p.it, key, bytes, id)
    <3>2. CacheOK(d, {}) /\ NewItem(p.c, d, p.it, key) /\ d.lru = p.c.lru
      BY <1>1, <3>1, InitItemStep
    <3> HIDE DEF d
    <3>3. o.it = p.it /\ o.c = d
      <4>1. p = [it |-> p.it, c |-> p.c]
        BY <2>5 DEF Tried, IsOutcome
      <4>2. o = [p EXCEPT !.c = d]
        BY <2>1, <2>7 DEF d
      <4> QED BY <4>1, <4>2
    <3>4. NewItem(e, o.c, o.it, key)
      BY <3>1, <3>2, <3>3 DEF NewItem
    <3> QED BY <2>7, <3>1, <3>2, <3>3, <3>4 DEF Allocated
  <2> QED BY <2>6, <2>7
<1> QED
  BY <1>2, <1>3

-----------------------------------------------------------------------------
(***************************************************************************)
(* The first state, a turn of the maintenance thread, and what CacheOK     *)
(* means for the properties of module LRUCache.                            *)
(***************************************************************************)

LEMMA CacheAtInit ==
  ASSUME NoPrefixes
  PROVE  /\ CacheOK(InitCache(0, 0), {}) /\ QueuesSorted(InitCache(0, 0))
         /\ DOMAIN InitCache(0, 0).mem = {}
<1> DEFINE c == InitCache(0, 0)
           s == Slab!InitSlabs(0)
           a == Table!InitAssoc(0)
           lru == [id \in 0 .. power_largest |-> <<>>]
           none == <<>>
<1>1. c = [slabs |-> s, assoc |-> a, lru |-> lru, mem |-> none, ok |-> TRUE]
  BY DEF InitCache
<1>2. /\ SlabsOK(s, {}) /\ FreeChunks(s) = {}
      /\ TableOK(a) /\ \A k \in Keys : Found(a)[k] = NULL
  BY SlabsInit, TableInit
<1>3. AreQueues(lru) /\ \A id \in 0 .. power_largest : lru[id] = <<>>
  BY DEF AreQueues
<1>4. DOMAIN none = {}
  OBVIOUS
<1> HIDE DEF s, a, lru, none, c
<1>5. /\ IsCache(c) /\ c.ok /\ c.slabs = s /\ c.assoc = a /\ c.lru = lru /\ c.mem = none
  BY <1>1 DEF IsCache
<1>6. LinkedItems(c) = {} /\ Occupied(c) = {} /\ Slabbed(c) = {}
  BY <1>4, <1>5 DEF LinkedItems, Occupied, Slabbed
<1>7. HeadersOK(c)
  BY <1>4, <1>5, FS_EmptySet DEF HeadersOK
<1>8. TableAgrees(c)
  BY <1>2, <1>5, <1>6 DEF TableAgrees
<1>9. QueuesAgree(c)
  <2> DEFINE empty == <<>>
  <2>1. empty \in Seq(Chunks) /\ IsInjective(empty) /\ Range(empty) = {}
    BY DEF IsInjective, Range
  <2>2. \A id \in 0 .. power_largest : c.lru[id] = empty
    BY <1>3, <1>5
  <2> HIDE DEF empty
  <2> QED BY <1>3, <1>5, <1>6, <2>1, <2>2 DEF QueuesAgree
<1>10. MemoryOK(c, {})
  BY <1>2, <1>5, <1>6 DEF MemoryOK
<1>11. QueuesSorted(c)
  <2>1. \A id \in DOMAIN c.lru : DOMAIN c.lru[id] = {}
    <3>1. DOMAIN c.lru = 0 .. power_largest
      BY <1>3, <1>5 DEF AreQueues
    <3> QED BY <1>3, <1>5, <3>1
  <2> QED BY <2>1 DEF QueuesSorted
<1> QED
  BY <1>4, <1>5, <1>7, <1>8, <1>9, <1>10, <1>11 DEF CacheOK, c

LEMMA MigrationStep ==
  ASSUME NoPrefixes, NEW c, CacheOK(c, {}), c.assoc.expanding,
         NEW d, d = WithAssoc(c, Table!MigrateBucket(c.assoc))
  PROVE  /\ CacheOK(d, {}) /\ d.mem = c.mem /\ d.lru = c.lru
         /\ \A y : Item(d, y) = Item(c, y)
<1> DEFINE a == Table!MigrateBucket(c.assoc)
           w == WithAssoc(c, a)
<1>1. TableOK(a) /\ Found(a) = Found(c.assoc)
  BY TableMigrate DEF CacheOK, TableAgrees
<1> HIDE DEF a
<1>2. /\ IsCache(w) /\ w.slabs = c.slabs /\ w.assoc = a /\ w.lru = c.lru
      /\ w.mem = c.mem /\ w.ok = c.ok /\ \A y : Item(w, y) = Item(c, y)
  <2>1. IsCache(c)
    BY DEF CacheOK
  <2> QED BY <2>1, WithAssocView
<1> HIDE DEF w
<1>3. d = w
  BY DEF w, a
<1>4. /\ IsCache(d) /\ d.slabs = c.slabs /\ d.assoc = a /\ d.lru = c.lru
      /\ d.mem = c.mem /\ d.ok = c.ok /\ \A y : Item(d, y) = Item(c, y)
  BY <1>2, <1>3
<1>5. \A y : (IsSlabbed(d, y) <=> IsSlabbed(c, y)) /\ (IsLinked(d, y) <=> IsLinked(c, y))
  BY <1>4 DEF IsSlabbed, IsLinked
<1>6. LinkedItems(d) = LinkedItems(c) /\ Occupied(d) = Occupied(c) /\ Slabbed(d) = Slabbed(c)
  BY <1>4, <1>5 DEF LinkedItems, Occupied, Slabbed
<1>7. HeadersOK(d)
  BY <1>4, <1>5 DEF CacheOK, HeadersOK
<1>8. TableAgrees(d)
  <2>1. d.assoc = a /\ LinkedItems(d) = LinkedItems(c) /\ \A y : Item(d, y) = Item(c, y)
    BY <1>4, <1>6
  <2> QED BY <1>1, <2>1 DEF CacheOK, TableAgrees
<1>9. QueuesAgree(d)
  BY <1>4, <1>6 DEF CacheOK, QueuesAgree
<1>10. MemoryOK(d, {})
  BY <1>4, <1>6 DEF CacheOK, MemoryOK
<1> QED
  BY <1>4, <1>7, <1>8, <1>9, <1>10 DEF CacheOK

\* Flag, table and queue say the same.
LEMMA Agreement ==
  ASSUME NEW c, CacheOK(c, {})
  PROVE  TableAndQueuesAgree(c)
<1> DEFINE P == Table!Places(c.assoc)
           L == LinkedItems(c)
           map == Found(c.assoc)
<1>1. /\ \A p \in P : /\ Table!At(c.assoc, p).key \in Keys
                      /\ Table!At(c.assoc, p).it = map[Table!At(c.assoc, p).key]
                      /\ map[Table!At(c.assoc, p).key] # NULL
      /\ \A p, q \in P : Table!At(c.assoc, p).key = Table!At(c.assoc, q).key => p = q
      /\ \A k \in Keys : map[k] # NULL => \E p \in P : Table!At(c.assoc, p).key = k
  BY TablePlaces DEF CacheOK, TableAgrees
<1>2. /\ \A x \in L : map[Item(c, x).key] = x /\ x # NULL /\ Item(c, x).key \in Keys
      /\ \A k \in Keys : map[k] # NULL => map[k] \in L /\ Item(c, map[k]).key = k
  BY NullIsNoChunk DEF CacheOK, TableAgrees, HeadersOK, LinkedItems
<1> HIDE DEF P, L, map
<1>3. ASSUME NEW p \in P
      PROVE  Table!At(c.assoc, p).it \in L /\ Table!At(c.assoc, p).key = Item(c, Table!At(c.assoc, p).it).key
  BY <1>1, <1>2
<1>4. ASSUME NEW x \in L
      PROVE  \E p \in P : Table!At(c.assoc, p).it = x /\ Table!At(c.assoc, p).key = Item(c, x).key
  <2>1. PICK p \in P : Table!At(c.assoc, p).key = Item(c, x).key
    BY <1>1, <1>2
  <2> QED BY <1>1, <1>2, <2>1
<1>5. {<<Table!At(c.assoc, p).it, Table!At(c.assoc, p).key>> : p \in P}
        = {<<x, Item(c, x).key>> : x \in L}
  BY <1>3, <1>4
<1>6. Cardinality(P) = Cardinality(L)
  <2> DEFINE f == [p \in P |-> Table!At(c.assoc, p).it]
  <2>1. f \in [P -> L]
    BY <1>3
  <2>2. \A p, q \in P : f[p] = f[q] => p = q
    BY <1>1, <1>3
  <2>3. \A x \in L : \E p \in P : f[p] = x
    BY <1>4
  <2> HIDE DEF f
  <2>4. f \in Bijection(P, L)
    BY <2>1, <2>2, <2>3 DEF Bijection, Injection, Surjection, IsInjective
  <2>5. ExistsBijection(P, L)
    BY <2>4 DEF ExistsBijection
  <2>6. ExistsBijection(L, P)
    BY <2>5, Fun_ExistsBijSymmetric
  <2>7. IsFiniteSet(L)
    <3>1. IsFiniteSet(DOMAIN c.mem) /\ L \in SUBSET DOMAIN c.mem
      BY DEF L, LinkedItems, CacheOK, HeadersOK
    <3> QED BY <3>1, FS_Subset
  <2> QED BY <2>6, <2>7, FS_Bijection
<1>7. \A id \in DOMAIN c.lru :
        /\ Range(c.lru[id]) = {x \in LinkedItems(c) : Item(c, x).slabs_clsid = id}
        /\ IsInjective(c.lru[id])
  <2>1. DOMAIN c.lru = 0 .. power_largest
    BY DEF CacheOK, QueuesAgree, AreQueues
  <2> QED BY <2>1 DEF CacheOK, QueuesAgree
<1> QED
  BY <1>5, <1>6, <1>7 DEF TableAndQueuesAgree, P, L

LEMMA FreeItemsAre ==
  ASSUME NEW c, CacheOK(c, {})
  PROVE  FreeItems(c) = FreeChunks(c.slabs)
<1>1. c.slabs \in Slab!SlabState
  BY DEF CacheOK, MemoryOK, SlabsOK
<1>2. DOMAIN c.slabs.slabclass = SlabFacts!Classes
  BY <1>1, SameChunks DEF Slab!SlabState
<1> QED
  BY <1>2 DEF FreeItems, FreeChunks, SlabFacts!FreeChunks, Range, SlabFacts!Range

\* Where every chunk is.
LEMMA WhereChunksAre ==
  ASSUME NEW c, CacheOK(c, {}), HeapFails = {FALSE}
  PROVE  /\ Slab!Partitioned(c.slabs, Occupied(c), {})
         /\ \A x \in DOMAIN c.mem : IsSlabbed(c, x) <=> x \in FreeItems(c)
<1>1. Occupied(c) \cup {} = Occupied(c) /\ FreeChunks(c.slabs) \cup {} = FreeChunks(c.slabs)
  OBVIOUS
<1>2. /\ SlabsOK(c.slabs, Occupied(c)) /\ FreeChunks(c.slabs) \subseteq Slabbed(c)
      /\ Slabbed(c) \subseteq FreeChunks(c.slabs)
  BY <1>1 DEF CacheOK, MemoryOK
<1>3. c.slabs \in Slab!SlabState /\ Slab!Partitioned(c.slabs, Occupied(c), {})
  BY <1>2 DEF SlabsOK
<1> QED
  BY <1>2, <1>3, FreeItemsAre DEF Slabbed

\* While no malloc fails, a class that has a freed chunk gives one out.
LEMMA FreedIsFound ==
  ASSUME HeapFails = {FALSE}, NEW c, CacheOK(c, {}), NEW x \in DOMAIN c.mem, IsSlabbed(c, x),
         NEW id, id = x[1], NEW bytes \in Nat, NEW o \in slabs_alloc(c, bytes, id)
  PROVE  o.it # NULL
<1>1. x \in Chunks /\ id \in Slab!Classes
  BY DEF CacheOK, HeadersOK, Chunks, Slab!Chunk
<1>2. x \in FreeItems(c) /\ Slab!Partitioned(c.slabs, Occupied(c), {})
  BY WhereChunksAre
<1>3. c.slabs \in Slab!SlabState
  BY DEF CacheOK, MemoryOK, SlabsOK
<1>4. PICK j \in Slab!Classes : x \in Range(c.slabs.slabclass[j].slots)
  BY <1>2, <1>3 DEF FreeItems, Slab!SlabState
<1>5. x \in Slab!Carved(c.slabs, j)
  BY <1>2, <1>4 DEF Slab!Partitioned, Slab!Range, Range
<1>6. j = id
  BY <1>5 DEF Slab!Carved
<1> PICK q : q = c.slabs.slabclass[id].slots
  OBVIOUS
<1>7. q \in Seq(Slab!Chunk) /\ x \in Range(q)
  BY <1>1, <1>3, <1>4, <1>6 DEF Slab!SlabState, Slab!SlabClass
<1>8. q # <<>> /\ q[Len(q)] \in Slab!Chunk
  BY <1>7 DEF Range
<1>9. Slab!do_slabs_alloc(c.slabs, bytes, id) = {Slab!FromFreeList(c.slabs, bytes, id)}
  BY <1>1, <1>8 DEF Slab!do_slabs_alloc
<1>10. o.it = Slab!FromFreeList(c.slabs, bytes, id).ret
  BY <1>9 DEF slabs_alloc
<1>11. o.it = q[Len(q)]
  BY <1>10 DEF Slab!FromFreeList
<1> QED
  BY <1>8, <1>11, LRUListsAssumption DEF Slab!SlabsAssumption

\* The first search takes an item of the class, when it finds one.
Evicts(c, d, id) ==
  \E x \in LinkedItems(c) : /\ Item(c, x).refcount = 0 /\ Item(c, x).slabs_clsid = id
                            /\ d \in do_item_unlink(c, x)

LEMMA Evicted ==
  ASSUME NEW c, CacheOK(c, {}), NEW id \in 0 .. power_largest, NEW d \in EvictUnused(c, id),
         NEW i \in Searched(c, id), Item(c, c.lru[id][i]).refcount = 0
  PROVE  Evicts(c, d, id)
<1> DEFINE unused == {j \in Searched(c, id) : Item(c, c.lru[id][j]).refcount = 0}
<1>1. d \in do_item_unlink(c, FirstMet(c, id, unused))
  BY DEF EvictUnused
<1>2. /\ c.lru[id] \in Seq(Chunks)
      /\ Range(c.lru[id]) = {x \in LinkedItems(c) : Item(c, x).slabs_clsid = id}
  BY DEF CacheOK, QueuesAgree
<1>3. unused \subseteq Searched(c, id) /\ unused # {}
  OBVIOUS
<1>4. \A j \in unused : Item(c, c.lru[id][j]).refcount = 0
  OBVIOUS
<1> HIDE DEF unused
<1>5. PICK j \in unused : FirstMet(c, id, unused) = c.lru[id][j] /\ \A l \in unused : l <= j
  BY <1>2, <1>3, FirstIsMet
<1>6. j \in DOMAIN c.lru[id]
  BY <1>2, <1>3, <1>5 DEF Searched
<1>7. c.lru[id][j] \in Range(c.lru[id])
  BY <1>6 DEF Range
<1> QED
  BY <1>1, <1>2, <1>4, <1>5, <1>7 DEF Evicts

(***************************************************************************)
(* While no malloc fails, do_item_alloc returns nothing only if the first  *)
(* search found no item that nobody refers to.                             *)
(***************************************************************************)
LEMMA FailsOnlyIfUsed ==
  ASSUME NoPrefixes, HeapFails = {FALSE}, NEW c, CacheOK(c, {}), NEW key \in Keys,
         NEW bytes \in Nat, NEW now \in Nat, NEW o \in do_item_alloc(c, key, bytes, now),
         o.it = NULL, NEW i \in Searched(c, Slab!slabs_clsid(bytes))
  PROVE  Item(c, c.lru[Slab!slabs_clsid(bytes)][i]).refcount # 0
<1> DEFINE id == Slab!slabs_clsid(bytes)
<1>1. id \in 0 .. power_largest
  BY ClassFound
<1>2. c.lru[id][i] \in LinkedItems(c)
  BY <1>1, Searching
<1>3. c.lru[id] \in Seq(Chunks) /\ Range(c.lru[id]) = {x \in LinkedItems(c) : Item(c, x).slabs_clsid = id}
  BY <1>1 DEF CacheOK, QueuesAgree
<1>4. ASSUME NEW x \in LinkedItems(c), Item(c, x).slabs_clsid = id
      PROVE  x \in DOMAIN c.mem /\ x \in Chunks /\ x[1] = id
  BY <1>4 DEF CacheOK, HeadersOK, LinkedItems
<1>5. i \in DOMAIN c.lru[id] /\ c.lru[id] # <<>>
  BY <1>3 DEF Searched
<1>6. Item(c, c.lru[id][i]).slabs_clsid = id
  BY <1>3, <1>5 DEF Range
<1>7. id # 0
  BY <1>2, <1>4, <1>6 DEF Chunks, Slab!Chunk, Slab!Classes, Slab!POWER_SMALLEST
<1> SUFFICES ASSUME Item(c, c.lru[id][i]).refcount = 0 PROVE FALSE
  OBVIOUS
<1>13. i \in Searched(c, id) /\ Item(c, c.lru[id][i]).refcount = 0
  OBVIOUS
<1> DEFINE first == slabs_alloc(c, bytes, id)
           second == Then(first,
                       LAMBDA p : IF p.it # NULL \/ p.c.lru[id] = <<>> THEN {p}
                                  ELSE Then(EvictUnused(p.c, id),
                                            LAMBDA d : slabs_alloc(d, bytes, id)))
           third == Then(second,
                      LAMBDA p : IF p.it # NULL \/ c.lru[id] = <<>> THEN {p}
                                 ELSE Then(RepairTail(p.c, id, now),
                                           LAMBDA d : slabs_alloc(d, bytes, id)))
<1>8. PICK p \in third : o = IF p.it = NULL THEN p
                             ELSE [p EXCEPT !.c = InitItem(@, p.it, key, bytes, id)]
  BY <1>7 DEF do_item_alloc
<1> HIDE DEF id
<1>9. ASSUME NEW r \in second PROVE r.it # NULL /\ IsOutcome(r)
  <2>1. PICK f \in first : r \in IF f.it # NULL \/ f.c.lru[id] = <<>> THEN {f}
                                 ELSE Then(EvictUnused(f.c, id),
                                           LAMBDA d : slabs_alloc(d, bytes, id))
    BY <1>9 DEF Then
  <2>2. ChunkTaken(c, f, id)
    BY AllocChunk
  <2>3. CASE f.it # NULL
    BY <2>1, <2>2, <2>3 DEF ChunkTaken
  <2>4. CASE f.it = NULL
    <3> PICK e : e = f.c
      OBVIOUS
    <3>1. CacheOK(e, {}) /\ e.lru = c.lru /\ e.mem = c.mem /\ \A y : Item(e, y) = Item(c, y)
      BY <2>2, <2>4 DEF ChunkTaken
    <3>2. PICK d \in EvictUnused(e, id) : r \in slabs_alloc(d, bytes, id)
      BY <1>5, <2>1, <2>4, <3>1 DEF Then
    <3>3. i \in Searched(e, id) /\ Item(e, e.lru[id][i]).refcount = 0
      BY <1>13, <3>1 DEF Searched
    <3>5. Evicts(e, d, id)
      BY <1>1, <3>1, <3>2, <3>3, Evicted
    <3>4. PICK x \in LinkedItems(e) : /\ Item(e, x).refcount = 0 /\ Item(e, x).slabs_clsid = id
                                     /\ d \in do_item_unlink(e, x)
      BY <3>5 DEF Evicts
    <3>7. x \in DOMAIN c.mem /\ x[1] = id
      BY <1>4, <3>1, <3>4 DEF LinkedItems, IsLinked
    <3>8. CacheOK(d, {}) /\ OnlyFlags(e, d, x) /\ IsSlabbed(d, x)
      BY <3>1, <3>4, GoneByUnlink
    <3>9. x \in DOMAIN d.mem
      BY <3>1, <3>7, <3>8 DEF OnlyFlags
    <3>11. r.it # NULL
      BY <3>2, <3>7, <3>8, <3>9, FreedIsFound
    <3>12. IsOutcome(r)
      BY <3>2, <3>8, AllocChunk DEF ChunkTaken
    <3> QED BY <3>11, <3>12
  <2> QED BY <2>3, <2>4
<1>10. PICK f \in second : p \in IF f.it # NULL \/ c.lru[id] = <<>> THEN {f}
                                  ELSE Then(RepairTail(f.c, id, now),
                                            LAMBDA d : slabs_alloc(d, bytes, id))
  BY <1>8 DEF Then
<1>11. p = f /\ f.it # NULL /\ IsOutcome(f)
  BY <1>9, <1>10
<1>12. o.it = p.it
  BY <1>8, <1>11 DEF IsOutcome
<1> QED
  BY <1>11, <1>12

(***************************************************************************)
(* While no malloc fails, slabs_alloc returns nothing only if the class    *)
(* has no chunk left and a new page is beyond the limit.                   *)
(***************************************************************************)
LEMMA NothingLeft ==
  ASSUME HeapFails = {FALSE}, NEW c, CacheOK(c, {}), NEW id \in Slab!Classes,
         NEW bytes \in Nat, NEW o \in slabs_alloc(c, bytes, id), o.it = NULL
  PROVE  OutOfMemory(c, id)
<1>1. PICK r \in Slab!do_slabs_alloc(c.slabs, bytes, id) : o.it = r.ret
  BY DEF slabs_alloc
<1> PICK s : s = c.slabs
  OBVIOUS
<1>2. PICK dropped, given :
        /\ s \in Slab!SlabState /\ Slab!EndPageOK(s) /\ Slab!ArraysOK(s)
        /\ Slab!Partitioned(s, given, dropped)
  BY DEF CacheOK, MemoryOK, SlabsOK
<1>3. /\ s \in SlabFacts!SlabState /\ SlabFacts!EndPageOK(s) /\ SlabFacts!ArraysOK(s)
      /\ SlabFacts!Partitioned(s, given, dropped) /\ id \in SlabFacts!Classes
      /\ r \in SlabFacts!do_slabs_alloc(s, bytes, id) /\ r.ret = NULL
  BY <1>1, <1>2, SameChunks, SameInvariants, SameAlloc
<1>4. SlabFacts!Exhausted(s, id)
  BY <1>3, SlabAssumptions, SlabFacts!AllocFails
<1> QED
  BY <1>4 DEF SlabFacts!Exhausted, OutOfMemory, Slab!PageLen, SlabFacts!PageLen

LEMMA AllocIsOutcome ==
  ASSUME NEW c, NEW bytes, NEW id, NEW o \in slabs_alloc(c, bytes, id)
  PROVE  IsOutcome(o)
BY DEF slabs_alloc, IsOutcome

(***************************************************************************)
(* While no malloc fails, do_item_alloc returns nothing for a request that *)
(* has a class only if the first call of slabs_alloc did.                  *)
(***************************************************************************)
LEMMA FailsOutOfMemory ==
  ASSUME HeapFails = {FALSE}, NEW c, CacheOK(c, {}), NEW key,
         NEW bytes \in Nat, NEW now, NEW o \in do_item_alloc(c, key, bytes, now), o.it = NULL,
         Slab!slabs_clsid(bytes) \in Slab!Classes
  PROVE  OutOfMemory(c, Slab!slabs_clsid(bytes))
<1> DEFINE id == Slab!slabs_clsid(bytes)
           first == slabs_alloc(c, bytes, id)
           second == Then(first,
                       LAMBDA p : IF p.it # NULL \/ p.c.lru[id] = <<>> THEN {p}
                                  ELSE Then(EvictUnused(p.c, id),
                                            LAMBDA d : slabs_alloc(d, bytes, id)))
           third == Then(second,
                      LAMBDA p : IF p.it # NULL \/ c.lru[id] = <<>> THEN {p}
                                 ELSE Then(RepairTail(p.c, id, now),
                                           LAMBDA d : slabs_alloc(d, bytes, id)))
<1>1. id # 0
  BY DEF Slab!Classes, Slab!POWER_SMALLEST
<1>2. PICK p \in third : o = IF p.it = NULL THEN p
                             ELSE [p EXCEPT !.c = InitItem(@, p.it, key, bytes, id)]
  BY <1>1 DEF do_item_alloc
<1>3. id \in Slab!Classes
  OBVIOUS
<1> HIDE DEF id
<1>4. PICK f \in second : p \in IF f.it # NULL \/ c.lru[id] = <<>> THEN {f}
                                 ELSE Then(RepairTail(f.c, id, now),
                                           LAMBDA d : slabs_alloc(d, bytes, id))
  BY <1>2 DEF Then
<1>5. PICK e \in first : f \in IF e.it # NULL \/ e.c.lru[id] = <<>> THEN {e}
                               ELSE Then(EvictUnused(e.c, id),
                                         LAMBDA d : slabs_alloc(d, bytes, id))
  BY <1>4 DEF Then
<1>6. IsOutcome(e)
  BY <1>5, AllocIsOutcome
<1>7. f = e \/ \E d : f \in slabs_alloc(d, bytes, id)
  BY <1>5 DEF Then
<1>8. IsOutcome(f)
  BY <1>6, <1>7, AllocIsOutcome
<1>9. p = f \/ \E d : p \in slabs_alloc(d, bytes, id)
  BY <1>4 DEF Then
<1>10. IsOutcome(p)
  BY <1>8, <1>9, AllocIsOutcome
<1>11. p.it = NULL
  BY <1>2, <1>10 DEF IsOutcome
<1>12. f.it = NULL
  BY <1>4, <1>11
<1>13. e.it = NULL
  BY <1>5, <1>12
<1> QED
  BY <1>3, <1>5, <1>13, NothingLeft DEF id

-----------------------------------------------------------------------------
(***************************************************************************)
(* Counting references: h says of every member of T to what item it refers *)
(* with the field it.                                                      *)
(***************************************************************************)

IsTable(T, h) == h = [t \in T |-> h[t]]

Referrers(T, h, x) == {t \in T : h[t].it = x}
RefsTo(T, h, x) == Cardinality(Referrers(T, h, x))

WithEntry(h, t, r) == [h EXCEPT ![t] = r]

LEMMA WithEntryView ==
  ASSUME NEW T, NEW h, IsTable(T, h), NEW t \in T, NEW r
  PROVE  LET g == WithEntry(h, t, r) IN
         IsTable(T, g) /\ g[t] = r /\ \A u \in T : u # t => g[u] = h[u]
BY DEF IsTable, WithEntry

LEMMA RefsType ==
  ASSUME NEW T, IsFiniteSet(T), NEW h, NEW x
  PROVE  /\ IsFiniteSet(Referrers(T, h, x)) /\ RefsTo(T, h, x) \in Nat
         /\ RefsTo(T, h, x) = 0 <=> Referrers(T, h, x) = {}
<1>1. Referrers(T, h, x) \in SUBSET T
  BY DEF Referrers
<1>2. IsFiniteSet(Referrers(T, h, x))
  BY <1>1, FS_Subset
<1> QED
  BY <1>2, FS_CardinalityType, FS_EmptySet DEF RefsTo

\* There is room for one more.
LEMMA RefsBound ==
  ASSUME NEW T, IsFiniteSet(T), NEW h, NEW x, NEW t \in T, h[t].it # x
  PROVE  RefsTo(T, h, x) + 1 <= Cardinality(T)
<1> DEFINE S == T \ {t}
<1>1. Referrers(T, h, x) \in SUBSET S
  BY DEF Referrers
<1>2. IsFiniteSet(S) /\ Cardinality(S) = Cardinality(T) - 1
  BY FS_RemoveElement
<1>3. Cardinality(Referrers(T, h, x)) <= Cardinality(S)
  <2> HIDE DEF S
  <2> QED BY <1>1, <1>2, FS_Subset
<1>4. Cardinality(Referrers(T, h, x)) \in Nat /\ Cardinality(T) \in Nat
  BY RefsType, FS_CardinalityType DEF RefsTo
<1> QED
  BY <1>2, <1>3, <1>4 DEF RefsTo

\* A reference to x takes the place of a reference to something else.
LEMMA RefsChange ==
  ASSUME NEW T, IsFiniteSet(T), NEW h, IsTable(T, h), NEW t \in T, NEW r,
         NEW g, g = WithEntry(h, t, r), r.it # h[t].it
  PROVE  /\ Referrers(T, g, r.it) = Referrers(T, h, r.it) \cup {t}
         /\ RefsTo(T, g, r.it) = RefsTo(T, h, r.it) + 1
         /\ Referrers(T, g, h[t].it) = Referrers(T, h, h[t].it) \ {t}
         /\ RefsTo(T, g, h[t].it) = RefsTo(T, h, h[t].it) - 1
         /\ \A x : x # r.it /\ x # h[t].it => Referrers(T, g, x) = Referrers(T, h, x) /\ RefsTo(T, g, x) = RefsTo(T, h, x)
<1>1. g[t] = r /\ \A u \in T : u # t => g[u] = h[u]
  BY WithEntryView
<1>2. /\ Referrers(T, g, r.it) = Referrers(T, h, r.it) \cup {t} /\ t \notin Referrers(T, h, r.it)
      /\ Referrers(T, g, h[t].it) = Referrers(T, h, h[t].it) \ {t} /\ t \in Referrers(T, h, h[t].it)
      /\ \A x : x # r.it /\ x # h[t].it => Referrers(T, g, x) = Referrers(T, h, x)
  BY <1>1 DEF Referrers
<1>3. IsFiniteSet(Referrers(T, h, r.it)) /\ IsFiniteSet(Referrers(T, h, h[t].it))
  BY RefsType
<1>4. RefsTo(T, g, r.it) = RefsTo(T, h, r.it) + 1
  BY <1>2, <1>3, FS_AddElement DEF RefsTo
<1>5. RefsTo(T, g, h[t].it) = RefsTo(T, h, h[t].it) - 1
  <2> DEFINE S == Referrers(T, h, h[t].it)
  <2>1. IsFiniteSet(S) /\ t \in S /\ Referrers(T, g, h[t].it) = S \ {t}
    BY <1>2, <1>3
  <2> HIDE DEF S
  <2>2. Cardinality(S \ {t}) = Cardinality(S) - 1
    BY <2>1, FS_RemoveElement
  <2> QED BY <2>1, <2>2 DEF RefsTo, S
<1> QED
  BY <1>2, <1>4, <1>5 DEF RefsTo

\* The reference of t is to the same item as before.
LEMMA RefsKept ==
  ASSUME NEW T, NEW h, IsTable(T, h), NEW t \in T, NEW r, NEW g, g = WithEntry(h, t, r), r.it = h[t].it
  PROVE  \A x : Referrers(T, g, x) = Referrers(T, h, x) /\ RefsTo(T, g, x) = RefsTo(T, h, x)
<1>1. g[t] = r /\ \A u \in T : u # t => g[u] = h[u]
  BY WithEntryView
<1> QED
  BY <1>1 DEF Referrers, RefsTo

-----------------------------------------------------------------------------

\* The data of an item, as a client fills it in.
Valued(it, v) == [it EXCEPT !.val = v]

LEMMA ItemValued ==
  ASSUME NEW it, IsItem(it), NEW v
  PROVE  LET f == Valued(it, v) IN
         /\ IsItem(f) /\ f.iflag = it.iflag /\ f.slabs_clsid = it.slabs_clsid
         /\ f.key = it.key /\ f.val = v /\ f.time = it.time /\ f.refcount = it.refcount
<1> PICK f : f = Valued(it, v)
  OBVIOUS
<1>1. f = [key |-> it.key, val |-> v, bytes |-> it.bytes, time |-> it.time,
           refcount |-> it.refcount, iflag |-> it.iflag, slabs_clsid |-> it.slabs_clsid]
  BY DEF IsItem, Valued
<1> QED
  BY <1>1 DEF IsItem

-----------------------------------------------------------------------------
(* The queues as prev and next pointers. *)

Queues == INSTANCE ItemQueues

Ids == 0 .. power_largest

Pointers == Queues!Links(Ids, Chunks)

\* An item is in one queue at most, and there once.
QueuesApart(lru) ==
  /\ AreQueues(lru)
  /\ \A id \in Ids : lru[id] \in Seq(Chunks) /\ IsInjective(lru[id])
  /\ \A id, jd \in Ids : id # jd => Range(lru[id]) \cap Range(lru[jd]) = {}

LEMMA AtIs ==
  ASSUME NEW q \in Seq(Chunks)
  PROVE  /\ \A i \in 1 .. Len(q) : Queues!At(q, i) = q[i] /\ q[i] \in Range(q) /\ q[i] \in Chunks
         /\ \A i \in Int : i \notin 1 .. Len(q) => Queues!At(q, i) = NULL
         /\ \A i \in Int : Queues!At(q, i) \in Chunks \cup {NULL}
         /\ IsInjective(q) => \A i \in 1 .. Len(q), j \in Int : Queues!At(q, j) = q[i] => j = i
<1>1. DOMAIN q = 1 .. Len(q) /\ \A i \in 1 .. Len(q) : q[i] \in Chunks
  OBVIOUS
<1> QED
  BY <1>1, NullIsNoChunk DEF Queues!At, Range, IsInjective

\* The pointers of a queue are right when both ends are, and each neighbour is.
LEMMA RepresentsIs ==
  ASSUME NEW d, NEW lru, AreQueues(lru)
  PROVE  Queues!Represents(d, lru) <=>
           \A id \in Ids :
             /\ d.heads[id] = Queues!At(lru[id], 1)
             /\ d.tails[id] = Queues!At(lru[id], Len(lru[id]))
             /\ \A i \in 1 .. Len(lru[id]) :
                  /\ d.prev[lru[id][i]] = Queues!At(lru[id], i - 1)
                  /\ d.next[lru[id][i]] = Queues!At(lru[id], i + 1)
BY DEF Queues!Represents, AreQueues, Ids

(***************************************************************************)
(* item_link_q puts an item of no queue before the head of one             *)
(* (lru.cpp:17-37).                                                        *)
(***************************************************************************)
LEMMA LinkPointers ==
  ASSUME NEW lru, QueuesApart(lru), NEW d \in Pointers, Queues!Represents(d, lru),
         NEW id \in Ids, NEW x \in Chunks, \A jd \in Ids : x \notin Range(lru[jd]),
         NEW r, r = <<x>> \o lru[id],
         NEW m, m = [lru EXCEPT ![id] = r]
  PROVE  LET e == Queues!item_link_q(d, id, x) IN
         /\ Queues!LinkAsserts(d, id, x)
         /\ e \in Pointers /\ Queues!Represents(e, m) /\ QueuesApart(m)
<1> DEFINE e == Queues!item_link_q(d, id, x)
           head == d.heads[id]
           tail == d.tails[id]
<1> PICK q : q = lru[id]
  OBVIOUS
<1> PICK n : n = Len(q)
  OBVIOUS
<1>1. /\ q \in Seq(Chunks) /\ n \in Nat /\ IsInjective(q) /\ DOMAIN q = 1 .. n
      /\ x \notin Range(q) /\ x # NULL
  BY NullIsNoChunk DEF QueuesApart
<1>2. /\ \A jd \in Ids : /\ d.heads[jd] = Queues!At(lru[jd], 1)
                         /\ d.tails[jd] = Queues!At(lru[jd], Len(lru[jd]))
                         /\ \A i \in 1 .. Len(lru[jd]) :
                              /\ d.prev[lru[jd][i]] = Queues!At(lru[jd], i - 1)
                              /\ d.next[lru[jd][i]] = Queues!At(lru[jd], i + 1)
  BY RepresentsIs DEF QueuesApart
<1>3. /\ d.heads \in [Ids -> Chunks \cup {NULL}] /\ d.tails \in [Ids -> Chunks \cup {NULL}]
      /\ d.prev \in [Chunks -> Chunks \cup {NULL}] /\ d.next \in [Chunks -> Chunks \cup {NULL}]
  BY DEF Pointers, Queues!Links
<1>4. /\ r \in Seq(Chunks) /\ Len(r) = n + 1 /\ r[1] = x
      /\ \A i \in 1 .. n : r[i + 1] = q[i]
  BY <1>1
<1>5. /\ head = Queues!At(q, 1) /\ tail = Queues!At(q, n)
      /\ head = NULL <=> n = 0
      /\ tail = NULL <=> n = 0
      /\ head # NULL => head \in Range(q) /\ head = q[1]
  <2>1. head = Queues!At(q, 1) /\ tail = Queues!At(q, n)
    BY <1>2
  <2> HIDE DEF head, tail
  <2>2. CASE n = 0
    <3>1. 1 \notin 1 .. n /\ n \notin 1 .. n
      BY <2>2
    <3> QED BY <1>1, <2>1, <2>2, <3>1 DEF Queues!At
  <2>3. CASE n # 0
    <3>1. 1 \in 1 .. n /\ n \in 1 .. n
      BY <1>1, <2>3
    <3>2. head = q[1] /\ tail = q[n]
      BY <2>1, <3>1 DEF Queues!At
    <3>3. q[1] \in Chunks /\ q[n] \in Chunks
      BY <1>1, <3>1
    <3>4. q[1] \in Range(q)
      BY <1>1, <3>1 DEF Range
    <3> QED BY <2>1, <2>3, <3>2, <3>3, <3>4, NullIsNoChunk
  <2> QED BY <2>2, <2>3
<1>6. x # head
  BY <1>1, <1>5
<1>7. Queues!LinkAsserts(d, id, x)
  BY <1>5, <1>6 DEF Queues!LinkAsserts
<1> DEFINE heads == [d.heads EXCEPT ![id] = x]
           tails == IF tail = NULL THEN [d.tails EXCEPT ![id] = x] ELSE d.tails
           prev == Queues!Write([d.prev EXCEPT ![x] = NULL], head, x)
           next == [d.next EXCEPT ![x] = head]
<1>8. e.heads = heads /\ e.tails = tails /\ e.prev = prev /\ e.next = next
  BY DEF Queues!item_link_q
<1>9. e \in Pointers
  <2>1. heads \in [Ids -> Chunks \cup {NULL}] /\ tails \in [Ids -> Chunks \cup {NULL}]
    BY <1>3
  <2>2. next \in [Chunks -> Chunks \cup {NULL}] /\ prev \in [Chunks -> Chunks \cup {NULL}]
    BY <1>3 DEF Queues!Write
  <2>3. e = [heads |-> heads, tails |-> tails, prev |-> prev, next |-> next]
    BY DEF Queues!item_link_q
  <2> HIDE DEF e, heads, tails, prev, next
  <2> QED
    BY <2>1, <2>2, <2>3 DEF Pointers, Queues!Links
<1>10. \A y \in Chunks :
         /\ next[y] = IF y = x THEN head ELSE d.next[y]
         /\ prev[y] = IF y = head THEN x ELSE IF y = x THEN NULL ELSE d.prev[y]
  BY <1>3, <1>5, NullIsNoChunk DEF Queues!Write
<1>11. \A i \in Int : Queues!At(r, i) = IF i = 1 THEN x ELSE Queues!At(q, i - 1)
  BY <1>1, <1>4 DEF Queues!At
<1>12. heads[id] = Queues!At(r, 1) /\ tails[id] = Queues!At(r, n + 1)
  <2>1. heads[id] = x /\ tails[id] = IF n = 0 THEN x ELSE tail
    BY <1>3, <1>5
  <2>2. Queues!At(r, 1) = x /\ Queues!At(r, n + 1) = IF n = 0 THEN x ELSE Queues!At(q, n)
    <3>1. n + 1 \in Int /\ (n + 1) - 1 = n /\ (n + 1 = 1 <=> n = 0)
      BY <1>1
    <3> QED BY <1>11, <3>1
  <2> HIDE DEF heads, tails, tail
  <2> QED BY <1>5, <2>1, <2>2
<1>13. ASSUME NEW i \in 1 .. n + 1
       PROVE  prev[r[i]] = Queues!At(r, i - 1) /\ next[r[i]] = Queues!At(r, i + 1)
  <2> HIDE DEF prev, next, head, tail
  <2>1. CASE i = 1
    <3>1. Queues!At(r, 0) = NULL /\ Queues!At(r, 2) = head
      <4>1. Queues!At(r, 0) = NULL
        BY <1>1, <1>4 DEF Queues!At
      <4>2. Queues!At(r, 2) = Queues!At(q, 1)
        BY <1>11, 2 - 1 = 1, 2 # 1, 2 \in Int
      <4> QED BY <1>5, <4>1, <4>2
    <3> QED BY <1>4, <1>6, <1>10, <2>1, <3>1
  <2>2. CASE i # 1
    <3> PICK j : j = i - 1
      OBVIOUS
    <3>1. j \in 1 .. n /\ r[i] = q[j] /\ i = j + 1
      BY <1>1, <1>4, <2>2
    <3>2. q[j] \in Chunks /\ q[j] # x
      BY <1>1, <3>1, AtIs
    <3>3. next[q[j]] = Queues!At(q, j + 1) /\ d.prev[q[j]] = Queues!At(q, j - 1)
      BY <1>2, <1>10, <3>1, <3>2
    <3>4. q[j] = head <=> j = 1
      <4>1. head = q[1] /\ 1 \in 1 .. n
        BY <1>1, <1>5, <3>1
      <4> QED BY <1>1, <3>1, <4>1 DEF IsInjective
    <3>5. Queues!At(r, i + 1) = Queues!At(q, j + 1)
      <4>1. i + 1 \in Int /\ i + 1 # 1 /\ (i + 1) - 1 = j + 1
        BY <1>1, <3>1
      <4> QED BY <1>11, <4>1
    <3>6. Queues!At(r, i - 1) = IF j = 1 THEN x ELSE Queues!At(q, j - 1)
      <4>1. i - 1 \in Int /\ (i - 1) - 1 = j - 1 /\ (i - 1 = 1 <=> j = 1)
        BY <1>1, <3>1
      <4> QED BY <1>11, <4>1
    <3> QED BY <1>10, <3>1, <3>2, <3>3, <3>4, <3>5, <3>6
  <2> QED BY <2>1, <2>2
<1>14. /\ m = [jd \in Ids |-> IF jd = id THEN r ELSE lru[jd]]
       /\ AreQueues(m)
  <2>1. m = [jd \in Ids |-> IF jd = id THEN r ELSE lru[jd]]
    BY DEF QueuesApart, AreQueues, Ids
  <2> QED BY <2>1 DEF AreQueues, Ids
<1>15. ASSUME NEW jd \in Ids, jd # id, NEW i \in 1 .. Len(lru[jd])
       PROVE  prev[lru[jd][i]] = d.prev[lru[jd][i]] /\ next[lru[jd][i]] = d.next[lru[jd][i]]
  <2>1. lru[jd] \in Seq(Chunks) /\ Range(lru[jd]) \cap Range(q) = {}
    BY <1>15 DEF QueuesApart
  <2>2. lru[jd][i] \in Chunks /\ lru[jd][i] \in Range(lru[jd])
    BY <1>15, <2>1, AtIs
  <2>3. lru[jd][i] # x /\ lru[jd][i] # head
    BY <1>5, <2>1, <2>2, NullIsNoChunk
  <2> QED BY <1>10, <2>2, <2>3
<1>16. Queues!Represents(e, m)
  <2> SUFFICES ASSUME NEW jd \in Ids
               PROVE  /\ e.heads[jd] = Queues!At(m[jd], 1)
                      /\ e.tails[jd] = Queues!At(m[jd], Len(m[jd]))
                      /\ \A i \in 1 .. Len(m[jd]) :
                           /\ e.prev[m[jd][i]] = Queues!At(m[jd], i - 1)
                           /\ e.next[m[jd][i]] = Queues!At(m[jd], i + 1)
    BY <1>14, RepresentsIs
  <2>1. jd # id => heads[jd] = d.heads[jd] /\ tails[jd] = d.tails[jd]
    BY <1>3
  <2> HIDE DEF e, heads, tails, prev, next, head, tail
  <2>2. CASE jd = id
    <3>1. m[jd] = r /\ Len(r) = n + 1
      BY <1>4, <1>14, <2>2
    <3> QED BY <1>8, <1>12, <1>13, <2>2, <3>1
  <2>3. CASE jd # id
    BY <1>2, <1>8, <1>14, <1>15, <2>1, <2>3
  <2> QED BY <2>2, <2>3
<1>17. QueuesApart(m)
  <2>1. Range(r) = Range(q) \cup {x} /\ IsInjective(r)
    <3>1. DOMAIN r = 1 .. n + 1
      BY <1>1, <1>4
    <3>2. \A i \in 1 .. n + 1 : i = 1 \/ (i - 1 \in 1 .. n /\ r[i] = q[i - 1] /\ q[i - 1] \in Range(q))
      BY <1>1, <1>4 DEF Range
    <3>3. IsInjective(r)
      BY <1>1, <1>4, <3>1, <3>2 DEF IsInjective
    <3>4. \A i \in 1 .. n : i + 1 \in 1 .. n + 1
      BY <1>1
    <3>5. Range(r) \subseteq Range(q) \cup {x}
      BY <1>4, <3>1, <3>2 DEF Range
    <3>6. Range(q) \cup {x} \subseteq Range(r)
      BY <1>1, <1>4, <3>1, <3>4 DEF Range
    <3> QED BY <3>3, <3>5, <3>6
  <2>2. ASSUME NEW jd \in Ids PROVE m[jd] \in Seq(Chunks) /\ IsInjective(m[jd])
    BY <1>4, <1>14, <2>1 DEF QueuesApart
  <2>3. ASSUME NEW jd \in Ids, NEW kd \in Ids, jd # kd
        PROVE  Range(m[jd]) \cap Range(m[kd]) = {}
    <3>1. \A ld \in Ids : Range(m[ld]) = IF ld = id THEN Range(q) \cup {x} ELSE Range(lru[ld])
      BY <1>14, <2>1
    <3>2. Range(lru[jd]) \cap Range(lru[kd]) = {}
      BY <2>3 DEF QueuesApart
    <3> QED BY <2>3, <3>1, <3>2
  <2> QED
    BY <1>14, <2>2, <2>3 DEF QueuesApart
<1> QED
  BY <1>7, <1>9, <1>16, <1>17

(***************************************************************************)
(* item_unlink_q takes an item out of its queue, wherever in it the item   *)
(* is (lru.cpp:39-63).                                                     *)
(***************************************************************************)
LEMMA UnlinkPointers ==
  ASSUME NEW lru, QueuesApart(lru), NEW d \in Pointers, Queues!Represents(d, lru),
         NEW id \in Ids, NEW x \in Range(lru[id]),
         NEW r, r = RemoveFirst(lru[id], x),
         NEW m, m = [lru EXCEPT ![id] = r]
  PROVE  LET e == Queues!item_unlink_q(d, id, x) IN
         /\ Queues!UnlinkAsserts(d, id, x)
         /\ e \in Pointers /\ Queues!Represents(e, m) /\ QueuesApart(m)
<1> DEFINE e == Queues!item_unlink_q(d, id, x)
<1> PICK q : q = lru[id]
  OBVIOUS
<1> PICK n : n = Len(q)
  OBVIOUS
<1>1. /\ q \in Seq(Chunks) /\ n \in Nat /\ IsInjective(q) /\ DOMAIN q = 1 .. n
      /\ \A i \in 1 .. n : q[i] \in Chunks /\ q[i] \in Range(q) /\ q[i] # NULL
      /\ \A i, j \in 1 .. n : q[i] = q[j] => i = j
  <2>1. q \in Seq(Chunks) /\ n \in Nat /\ IsInjective(q) /\ DOMAIN q = 1 .. n
    BY DEF QueuesApart
  <2> QED BY <2>1, NullIsNoChunk DEF Range, IsInjective
<1>2. PICK k \in 1 .. n : q[k] = x
  BY <1>1 DEF Range
<1>3. /\ r \in Seq(Chunks) /\ IsInjective(r) /\ Range(r) = Range(q) \ {x}
      /\ DOMAIN r = 1 .. n - 1 /\ Len(r) = n - 1
      /\ \A j \in 1 .. n - 1 : r[j] = IF j < k THEN q[j] ELSE q[j + 1]
  <2>1. r \in Seq(Chunks) /\ IsInjective(r) /\ Range(r) = Range(q) \ {x}
    BY <1>1, QueueRemove
  <2>2. r = RemoveAt(q, k)
    BY <1>1, <1>2, RemovesAt
  <2>3. DOMAIN r = 1 .. n - 1 /\ \A j \in 1 .. n - 1 : r[j] = IF j < k THEN q[j] ELSE q[j + 1]
    BY <1>1, <1>2, <2>2, RemoveAtLemma
  <2>4. Len(r) = n - 1
    BY <1>1, <1>2, <2>1, <2>3
  <2> QED BY <2>1, <2>3, <2>4
<1>4. \A jd \in Ids : /\ d.heads[jd] = Queues!At(lru[jd], 1)
                      /\ d.tails[jd] = Queues!At(lru[jd], Len(lru[jd]))
                      /\ \A i \in 1 .. Len(lru[jd]) :
                           /\ d.prev[lru[jd][i]] = Queues!At(lru[jd], i - 1)
                           /\ d.next[lru[jd][i]] = Queues!At(lru[jd], i + 1)
  BY RepresentsIs DEF QueuesApart
<1>5. /\ d.heads \in [Ids -> Chunks \cup {NULL}] /\ d.tails \in [Ids -> Chunks \cup {NULL}]
      /\ d.prev \in [Chunks -> Chunks \cup {NULL}] /\ d.next \in [Chunks -> Chunks \cup {NULL}]
  BY DEF Pointers, Queues!Links
<1> PICK before : before = Queues!At(q, k - 1)
  OBVIOUS
<1> PICK behind : behind = Queues!At(q, k + 1)
  OBVIOUS
<1>6. /\ d.prev[x] = before /\ d.next[x] = behind
      /\ d.heads[id] = Queues!At(q, 1) /\ d.tails[id] = Queues!At(q, n)
      /\ \A i \in 1 .. n : /\ d.prev[q[i]] = Queues!At(q, i - 1)
                          /\ d.next[q[i]] = Queues!At(q, i + 1)
  BY <1>2, <1>4
<1>7. \A i \in Int : /\ i \in 1 .. n => Queues!At(q, i) = q[i]
                     /\ i \notin 1 .. n => Queues!At(q, i) = NULL
  BY DEF Queues!At
<1>8. \A i \in 1 .. n, j \in Int : Queues!At(q, j) = q[i] <=> j = i
  BY <1>1, <1>7
<1>9. before \in Chunks \cup {NULL} /\ behind \in Chunks \cup {NULL}
  BY <1>1, <1>2, <1>7
<1>10. \A i \in Int : Queues!At(r, i) = IF i < k THEN Queues!At(q, i) ELSE Queues!At(q, i + 1)
  <2> SUFFICES ASSUME NEW i \in Int
               PROVE  Queues!At(r, i) = IF i < k THEN Queues!At(q, i) ELSE Queues!At(q, i + 1)
    OBVIOUS
  <2>1. Queues!At(r, i) = IF i \in 1 .. n - 1 THEN r[i] ELSE NULL
    BY <1>3 DEF Queues!At
  <2>2. Queues!At(q, i) = IF i \in 1 .. n THEN q[i] ELSE NULL
    BY DEF Queues!At
  <2>3. Queues!At(q, i + 1) = IF i + 1 \in 1 .. n THEN q[i + 1] ELSE NULL
    BY DEF Queues!At
  <2>4. CASE i \in 1 .. n - 1
    <3>1. i \in 1 .. n /\ i + 1 \in 1 .. n
      BY <1>1, <2>4
    <3>2. r[i] = IF i < k THEN q[i] ELSE q[i + 1]
      BY <1>3, <2>4
    <3> QED BY <2>1, <2>2, <2>3, <2>4, <3>1, <3>2
  <2>5. CASE i \notin 1 .. n - 1
    <3>1. IF i < k THEN i \notin 1 .. n ELSE i + 1 \notin 1 .. n
      BY <1>1, <1>2, <2>5
    <3> QED BY <2>1, <2>2, <2>3, <2>5, <3>1
  <2> QED BY <2>4, <2>5
<1> DEFINE heads == IF d.heads[id] = x THEN [d.heads EXCEPT ![id] = behind] ELSE d.heads
           tails == IF d.tails[id] = x THEN [d.tails EXCEPT ![id] = before] ELSE d.tails
           prev == Queues!Write(d.prev, behind, before)
           next == Queues!Write(d.next, before, behind)
<1>11. e = [heads |-> heads, tails |-> tails, prev |-> prev, next |-> next]
  BY <1>6 DEF Queues!item_unlink_q
<1>12. Queues!UnlinkAsserts(d, id, x)
  <2>1. d.heads[id] = x => k = 1
    BY <1>2, <1>6, <1>8
  <2>2. d.tails[id] = x => k = n
    <3>1. n \in Int /\ d.tails[id] = Queues!At(q, n)
      BY <1>1, <1>6
    <3>2. Queues!At(q, n) = q[k] <=> n = k
      BY <1>8, <3>1
    <3> QED BY <1>2, <3>1, <3>2
  <2>3. before # x /\ behind # x
    BY <1>2, <1>8
  <2>4. k = 1 => before = NULL
    BY <1>7
  <2>5. k = n => behind = NULL
    BY <1>1, <1>7
  <2> QED BY <1>6, <2>1, <2>2, <2>3, <2>4, <2>5 DEF Queues!UnlinkAsserts
<1>13. e \in Pointers
  <2>1. heads \in [Ids -> Chunks \cup {NULL}] /\ tails \in [Ids -> Chunks \cup {NULL}]
    BY <1>5, <1>9
  <2>2. next \in [Chunks -> Chunks \cup {NULL}] /\ prev \in [Chunks -> Chunks \cup {NULL}]
    BY <1>5, <1>9 DEF Queues!Write
  <2> HIDE DEF e, heads, tails, prev, next
  <2> QED
    BY <1>11, <2>1, <2>2 DEF Pointers, Queues!Links
<1>14. \A y \in Chunks : /\ prev[y] = IF y = behind THEN before ELSE d.prev[y]
                         /\ next[y] = IF y = before THEN behind ELSE d.next[y]
  BY <1>5, NullIsNoChunk DEF Queues!Write
<1>15. heads[id] = Queues!At(r, 1) /\ tails[id] = Queues!At(r, n - 1)
  <2>1. heads[id] = IF k = 1 THEN behind ELSE Queues!At(q, 1)
    BY <1>2, <1>5, <1>6, <1>8
  <2>2. tails[id] = IF k = n THEN before ELSE Queues!At(q, n)
    BY <1>1, <1>2, <1>5, <1>6, <1>8
  <2> HIDE DEF heads, tails
  <2>3. heads[id] = Queues!At(r, 1)
    BY <1>2, <1>10, <2>1
  <2>4. /\ n - 1 \in Int /\ (n - 1) + 1 = n
        /\ k = n <=> n - 1 < k
        /\ k = n => k - 1 = n - 1
    BY <1>1, <1>2
  <2>5. tails[id] = Queues!At(r, n - 1)
    BY <1>10, <2>2, <2>4
  <2> QED BY <2>3, <2>5
<1>16. ASSUME NEW i \in 1 .. n - 1
       PROVE  prev[r[i]] = Queues!At(r, i - 1) /\ next[r[i]] = Queues!At(r, i + 1)
  <2> HIDE DEF prev, next
  <2> PICK l : l = IF i < k THEN i ELSE i + 1
    OBVIOUS
  <2>0. {i, k, l, n} \subseteq Int /\ 1 <= i /\ i <= n - 1 /\ 1 <= k /\ k <= n
    BY <1>1, <1>2
  <2>1. l \in 1 .. n /\ r[i] = q[l] /\ l # k
    <3>1. l \in 1 .. n /\ l # k
      BY <2>0
    <3>2. r[i] = IF i < k THEN q[i] ELSE q[i + 1]
      BY <1>3
    <3> QED BY <3>1, <3>2
  <2>2. q[l] \in Chunks
    BY <1>1, <2>1
  <2>3. (q[l] = behind <=> l = k + 1) /\ (q[l] = before <=> l = k - 1)
    <3>1. k + 1 \in Int /\ k - 1 \in Int
      BY <2>0
    <3> QED BY <1>8, <2>1, <3>1
  <2>4. prev[q[l]] = IF l = k + 1 THEN before ELSE Queues!At(q, l - 1)
    BY <1>6, <1>14, <2>1, <2>2, <2>3
  <2>5. next[q[l]] = IF l = k - 1 THEN behind ELSE Queues!At(q, l + 1)
    BY <1>6, <1>14, <2>1, <2>2, <2>3
  <2>6. /\ Queues!At(r, i - 1) = IF i - 1 < k THEN Queues!At(q, i - 1) ELSE Queues!At(q, i)
        /\ Queues!At(r, i + 1) = IF i + 1 < k THEN Queues!At(q, i + 1) ELSE Queues!At(q, i + 2)
    <3>1. i - 1 \in Int /\ i + 1 \in Int /\ (i - 1) + 1 = i /\ (i + 1) + 1 = i + 2
      BY <2>0
    <3> QED BY <1>10, <3>1
  <2>7. Queues!At(r, i - 1) = IF l = k + 1 THEN before ELSE Queues!At(q, l - 1)
    <3>1. CASE l = k + 1
      <4>1. i - 1 < k /\ i - 1 = k - 1
        BY <2>0, <3>1
      <4> QED BY <2>6, <3>1, <4>1
    <3>2. CASE l # k + 1
      <4>1. IF i - 1 < k THEN l - 1 = i - 1 ELSE l - 1 = i
        BY <2>0, <3>2
      <4> QED BY <2>6, <3>2, <4>1
    <3> QED BY <3>1, <3>2
  <2>8. Queues!At(r, i + 1) = IF l = k - 1 THEN behind ELSE Queues!At(q, l + 1)
    <3>1. CASE l = k - 1
      <4>1. ~ (i + 1 < k) /\ i + 2 = k + 1
        BY <2>0, <3>1
      <4> QED BY <2>6, <3>1, <4>1
    <3>2. CASE l # k - 1
      <4>1. IF i + 1 < k THEN l + 1 = i + 1 ELSE l + 1 = i + 2
        BY <2>0, <3>2
      <4> QED BY <2>6, <3>2, <4>1
    <3> QED BY <3>1, <3>2
  <2> QED BY <2>1, <2>4, <2>5, <2>7, <2>8
<1>17. m = [jd \in Ids |-> IF jd = id THEN r ELSE lru[jd]] /\ AreQueues(m)
  <2>1. m = [jd \in Ids |-> IF jd = id THEN r ELSE lru[jd]]
    BY DEF QueuesApart, AreQueues, Ids
  <2> QED BY <2>1 DEF AreQueues, Ids
<1>18. ASSUME NEW jd \in Ids, jd # id, NEW i \in 1 .. Len(lru[jd])
       PROVE  prev[lru[jd][i]] = d.prev[lru[jd][i]] /\ next[lru[jd][i]] = d.next[lru[jd][i]]
  <2>1. lru[jd] \in Seq(Chunks) /\ Range(lru[jd]) \cap Range(q) = {}
    BY <1>18 DEF QueuesApart
  <2>2. lru[jd][i] \in Chunks /\ lru[jd][i] \in Range(lru[jd])
    BY <1>18, <2>1, AtIs
  <2>3. before \in Range(q) \cup {NULL} /\ behind \in Range(q) \cup {NULL}
    BY <1>1, <1>2, <1>7
  <2>4. lru[jd][i] # before /\ lru[jd][i] # behind
    BY <2>1, <2>2, <2>3, NullIsNoChunk
  <2> QED BY <1>14, <2>2, <2>4
<1>19. Queues!Represents(e, m)
  <2> SUFFICES ASSUME NEW jd \in Ids
               PROVE  /\ e.heads[jd] = Queues!At(m[jd], 1)
                      /\ e.tails[jd] = Queues!At(m[jd], Len(m[jd]))
                      /\ \A i \in 1 .. Len(m[jd]) :
                           /\ e.prev[m[jd][i]] = Queues!At(m[jd], i - 1)
                           /\ e.next[m[jd][i]] = Queues!At(m[jd], i + 1)
    BY <1>17, RepresentsIs
  <2>1. jd # id => heads[jd] = d.heads[jd] /\ tails[jd] = d.tails[jd]
    BY <1>5
  <2>2. e.heads = heads /\ e.tails = tails /\ e.prev = prev /\ e.next = next
    BY <1>11
  <2> HIDE DEF e, heads, tails, prev, next
  <2>3. CASE jd = id
    <3>1. m[jd] = r /\ Len(r) = n - 1
      BY <1>3, <1>17, <2>3
    <3> QED BY <1>15, <1>16, <2>2, <2>3, <3>1
  <2>4. CASE jd # id
    <3>1. m[jd] = lru[jd]
      BY <1>17, <2>4
    <3> QED BY <1>4, <1>18, <2>1, <2>2, <2>4, <3>1
  <2> QED BY <2>3, <2>4
<1>20. QueuesApart(m)
  <2>1. ASSUME NEW jd \in Ids PROVE m[jd] \in Seq(Chunks) /\ IsInjective(m[jd])
    BY <1>3, <1>17 DEF QueuesApart
  <2>2. ASSUME NEW jd \in Ids, NEW kd \in Ids, jd # kd
        PROVE  Range(m[jd]) \cap Range(m[kd]) = {}
    <3>1. \A ld \in Ids : Range(m[ld]) \subseteq Range(lru[ld])
      BY <1>3, <1>17
    <3>2. Range(lru[jd]) \cap Range(lru[kd]) = {}
      BY <2>2 DEF QueuesApart
    <3> QED BY <3>1, <3>2
  <2> QED
    BY <1>17, <2>1, <2>2 DEF QueuesApart
<1> QED
  BY <1>12, <1>13, <1>19, <1>20

\* item_alloc resets the pointers of an item that is in no queue (lru.cpp:114).
LEMMA FreshPointers ==
  ASSUME NEW lru, QueuesApart(lru), NEW d \in Pointers, Queues!Represents(d, lru),
         NEW x \in Chunks, \A jd \in Ids : x \notin Range(lru[jd])
  PROVE  LET e == Queues!item_alloc_q(d, x) IN
         e \in Pointers /\ Queues!Represents(e, lru)
<1> PICK e : e = Queues!item_alloc_q(d, x)
  OBVIOUS
<1> DEFINE prev == [d.prev EXCEPT ![x] = NULL]
           next == [d.next EXCEPT ![x] = NULL]
<1>1. /\ d = [heads |-> d.heads, tails |-> d.tails, prev |-> d.prev, next |-> d.next]
      /\ d.heads \in [Ids -> Chunks \cup {NULL}] /\ d.tails \in [Ids -> Chunks \cup {NULL}]
      /\ d.prev \in [Chunks -> Chunks \cup {NULL}] /\ d.next \in [Chunks -> Chunks \cup {NULL}]
  BY DEF Pointers, Queues!Links
<1>2. e = [heads |-> d.heads, tails |-> d.tails, prev |-> prev, next |-> next]
  <2> PICK f : f = [d EXCEPT !.prev[x] = NULL]
    OBVIOUS
  <2>1. f = [heads |-> d.heads, tails |-> d.tails, prev |-> prev, next |-> d.next]
    BY <1>1
  <2>2. e = [f EXCEPT !.next = next]
    BY <2>1 DEF Queues!item_alloc_q
  <2> HIDE DEF prev, next
  <2> QED BY <2>1, <2>2
<1>3. /\ prev \in [Chunks -> Chunks \cup {NULL}] /\ next \in [Chunks -> Chunks \cup {NULL}]
      /\ \A y \in Chunks : y # x => prev[y] = d.prev[y] /\ next[y] = d.next[y]
  BY <1>1
<1> HIDE DEF prev, next
<1>4. ASSUME NEW jd \in Ids, NEW i \in 1 .. Len(lru[jd])
      PROVE  lru[jd][i] \in Chunks /\ lru[jd][i] # x
  <2>1. lru[jd] \in Seq(Chunks)
    BY DEF QueuesApart
  <2> QED BY <1>4, <2>1, AtIs
<1>5. Queues!Represents(e, lru)
  <2> SUFFICES ASSUME NEW jd \in Ids
               PROVE  /\ e.heads[jd] = Queues!At(lru[jd], 1)
                      /\ e.tails[jd] = Queues!At(lru[jd], Len(lru[jd]))
                      /\ \A i \in 1 .. Len(lru[jd]) :
                           /\ e.prev[lru[jd][i]] = Queues!At(lru[jd], i - 1)
                           /\ e.next[lru[jd][i]] = Queues!At(lru[jd], i + 1)
    BY RepresentsIs DEF QueuesApart
  <2>1. /\ d.heads[jd] = Queues!At(lru[jd], 1)
        /\ d.tails[jd] = Queues!At(lru[jd], Len(lru[jd]))
        /\ \A i \in 1 .. Len(lru[jd]) :
             /\ d.prev[lru[jd][i]] = Queues!At(lru[jd], i - 1)
             /\ d.next[lru[jd][i]] = Queues!At(lru[jd], i + 1)
    BY RepresentsIs DEF QueuesApart
  <2>2. e.heads = d.heads /\ e.tails = d.tails /\ e.prev = prev /\ e.next = next
    BY <1>2
  <2> QED BY <1>3, <1>4, <2>1, <2>2
<1> QED
  BY <1>1, <1>2, <1>3, <1>5 DEF Pointers, Queues!Links

\* The constructor's queues (lru.cpp:11-14).
LEMMA EmptyQueues ==
  ASSUME NEW malloced, NEW hash_items, NEW d \in Pointers,
         \A id \in Ids : d.heads[id] = NULL /\ d.tails[id] = NULL
  PROVE  LET lru == InitCache(malloced, hash_items).lru IN
         QueuesApart(lru) /\ Queues!Represents(d, lru)
<1> PICK lru : lru = InitCache(malloced, hash_items).lru
  OBVIOUS
<1>1. lru = [id \in Ids |-> <<>>]
  BY DEF InitCache, Ids
<1>2. AreQueues(lru) /\ \A id \in Ids : lru[id] = <<>>
  BY <1>1 DEF AreQueues, Ids
<1>3. <<>> \in Seq(Chunks) /\ Len(<<>>) = 0 /\ Range(<<>>) = {} /\ IsInjective(<<>>)
  BY DEF Range, IsInjective
<1>4. Queues!At(<<>>, 1) = NULL /\ Queues!At(<<>>, 0) = NULL
  BY DEF Queues!At
<1>5. QueuesApart(lru)
  BY <1>2, <1>3 DEF QueuesApart
<1>6. Queues!Represents(d, lru)
  BY <1>2, <1>3, <1>4, RepresentsIs
<1> QED
  BY <1>5, <1>6

\* In a sound cache an item is in the queue of its class or in none.
LEMMA QueuesStayApart ==
  ASSUME NEW c, NEW E, CacheOK(c, E)
  PROVE  QueuesApart(c.lru)
<1>1. /\ AreQueues(c.lru)
      /\ \A id \in Ids :
           /\ c.lru[id] \in Seq(Chunks) /\ IsInjective(c.lru[id])
           /\ Range(c.lru[id]) = {x \in LinkedItems(c) : Item(c, x).slabs_clsid = id}
  BY DEF CacheOK, QueuesAgree, Ids
<1>2. \A id, jd \in Ids : id # jd => Range(c.lru[id]) \cap Range(c.lru[jd]) = {}
  BY <1>1
<1> QED
  BY <1>1, <1>2 DEF QueuesApart

(***************************************************************************)
(* The code's queues, which are pointers in the items, do what those of    *)
(* LRULists do, which are sequences: what item_link_q and item_unlink_q    *)
(* make of heads, tails, prev and next represents what they make of the    *)
(* sequences, in the other classes too, and their asserts hold             *)
(* (lru.cpp:17-63).                                                        *)
(***************************************************************************)
THEOREM LinkedQueues ==
  ASSUME NEW c, IsCache(c), QueuesApart(c.lru),
         NEW d \in Pointers, Queues!Represents(d, c.lru),
         NEW x \in Chunks, NEW id \in Ids, id = Item(c, x).slabs_clsid
  PROVE  /\ (\A jd \in Ids : x \notin Range(c.lru[jd])) =>
              LET e == Queues!item_link_q(d, id, x)
                  lru == item_link_q(c, x).lru
              IN  /\ Queues!LinkAsserts(d, id, x)
                  /\ e \in Pointers /\ Queues!Represents(e, lru) /\ QueuesApart(lru)
         /\ x \in Range(c.lru[id]) =>
              LET e == Queues!item_unlink_q(d, id, x)
                  lru == item_unlink_q(c, x).lru
              IN  /\ Queues!UnlinkAsserts(d, id, x)
                  /\ e \in Pointers /\ Queues!Represents(e, lru) /\ QueuesApart(lru)
<1> DEFINE pushed == <<x>> \o c.lru[id]
           rest == RemoveFirst(c.lru[id], x)
<1>1. item_link_q(c, x).lru = [c.lru EXCEPT ![id] = pushed]
  BY DEF item_link_q, Check, IsCache
<1>2. item_unlink_q(c, x).lru = [c.lru EXCEPT ![id] = rest]
  BY DEF item_unlink_q, Check, IsCache
<1> HIDE DEF pushed, rest
<1>3. ASSUME \A jd \in Ids : x \notin Range(c.lru[jd])
      PROVE  LET e == Queues!item_link_q(d, id, x)
                 lru == item_link_q(c, x).lru
             IN  /\ Queues!LinkAsserts(d, id, x)
                 /\ e \in Pointers /\ Queues!Represents(e, lru) /\ QueuesApart(lru)
  BY <1>1, <1>3, LinkPointers DEF pushed
<1>4. ASSUME x \in Range(c.lru[id])
      PROVE  LET e == Queues!item_unlink_q(d, id, x)
                 lru == item_unlink_q(c, x).lru
             IN  /\ Queues!UnlinkAsserts(d, id, x)
                 /\ e \in Pointers /\ Queues!Represents(e, lru) /\ QueuesApart(lru)
  BY <1>2, <1>4, UnlinkPointers DEF rest
<1> QED
  BY <1>3, <1>4
=============================================================================
