------------------------- MODULE SlabAllocatorProofs -------------------------
EXTENDS SlabAllocator, FiniteSetTheorems, WellFoundedInduction, TLAPS

LEMMA PageLenType == \A id \in Classes : PageLen(id) \in Nat /\ PageLen(id) <= item_size_max
BY SlabsAssumption

LEMMA GrownType == \A n \in Nat : Grown(n) \in Nat /\ Grown(n) > n
BY SlabsAssumption DEF Grown

LEMMA AlignedType == \A n \in Nat : Aligned(n) \in Nat
BY DEF Aligned, CHUNK_ALIGN_BYTES

(***************************************************************************)
(* Replacing one class leaves the others and the scalar fields alone.      *)
(***************************************************************************)
LEMMA SetClassLemma ==
  ASSUME NEW s \in SlabState, NEW id \in Classes, NEW q \in SlabClass
  PROVE  LET t == SetClass(s, id, q) IN
         /\ t \in SlabState
         /\ t.slabclass[id] = q
         /\ \A j \in Classes : j # id => t.slabclass[j] = s.slabclass[j]
         /\ t.mem_malloced = s.mem_malloced
         /\ t.mem_current = s.mem_current
         /\ t.mem_avail = s.mem_avail
BY DEF SetClass, SlabState

\* What SetClass writes, whatever it is.
LEMMA SetClassView ==
  ASSUME NEW s \in SlabState, NEW id \in Classes, NEW q, NEW j \in Classes
  PROVE  SetClass(s, id, q).slabclass[j] = IF j = id THEN q ELSE s.slabclass[j]
<1>1. SetClass(s, id, q).slabclass = [s.slabclass EXCEPT ![id] = q]
  BY DEF SetClass, SlabState
<1>2. s.slabclass = [i \in Classes |-> s.slabclass[i]]
  BY DEF SlabState
<1> QED
  BY <1>1, <1>2

\* The last index of a sequence, apart from the others.
LEMMA LastIndex ==
  \A n \in Nat \ {0} : 1 .. n = (1 .. (n - 1)) \cup {n} /\ n \notin 1 .. (n - 1)
OBVIOUS

\* What popping the last element of a sequence without repetition leaves.
LEMMA PopRange ==
  ASSUME NEW a, NEW b, NEW n \in Nat \ {0},
         DOMAIN a = 1 .. n, DOMAIN b = 1 .. (n - 1),
         \A i \in 1 .. (n - 1) : b[i] = a[i],
         IsInjective(a)
  PROVE  /\ Range(a) = Range(b) \cup {a[n]}
         /\ a[n] \notin Range(b)
         /\ IsInjective(b)
<1>1. 1 .. n = (1 .. (n - 1)) \cup {n} /\ n \notin 1 .. (n - 1)
  BY LastIndex
<1>2. Range(a) \subseteq Range(b) \cup {a[n]}
  BY <1>1 DEF Range
<1>3. Range(b) \cup {a[n]} \subseteq Range(a)
  BY <1>1 DEF Range
<1>4. a[n] \notin Range(b)
  BY <1>1 DEF Range, IsInjective
<1>5. IsInjective(b)
  BY <1>1 DEF IsInjective
<1> QED
  BY <1>2, <1>3, <1>4, <1>5

\* No page was added between s and t.
SamePages(s, t) ==
  /\ t.mem_malloced = s.mem_malloced
  /\ \A j \in Classes : t.slabclass[j].slabs = s.slabclass[j].slabs

\* One page was added, to class id, and the limit allowed it.
OnePageMore(s, t, id) ==
  /\ t.mem_malloced = s.mem_malloced + PageLen(id)
  /\ t.slabclass[id].slabs = s.slabclass[id].slabs + 1
  /\ \A j \in Classes : j # id => t.slabclass[j].slabs = s.slabclass[j].slabs
  /\ \/ mem_limit = 0
     \/ s.mem_malloced + PageLen(id) <= mem_limit
     \/ s.slabclass[id].slabs = 0

(***************************************************************************)
(* The first branch of do_slabs_alloc gives out a chunk that was free.     *)
(***************************************************************************)
LEMMA FreeListLemma ==
  ASSUME NEW s \in SlabState, NEW id \in Classes, NEW bytes \in Nat,
         NEW given, NEW dropped,
         EndPageOK(s), ArraysOK(s), Partitioned(s, given, dropped),
         s.slabclass[id].slots # <<>>
  PROVE  LET o == FromFreeList(s, bytes, id) IN
         /\ o.s \in SlabState
         /\ o.ret \in Chunk
         /\ o.ret[1] = id
         /\ EndPageOK(o.s)
         /\ ArraysOK(o.s)
         /\ SamePages(s, o.s)
         /\ o.ret \notin given \cup dropped
         /\ Partitioned(o.s, given \cup {o.ret}, dropped)
<1> DEFINE p == s.slabclass[id]
           n == Len(p.slots)
           q == [p EXCEPT !.slots = SubSeq(p.slots, 1, n - 1),
                          !.requested = p.requested + bytes]
           t == SetClass(s, id, q)
           c == p.slots[n]
<1>1. FromFreeList(s, bytes, id) = [ret |-> c, s |-> t]
  BY DEF FromFreeList
<1>2. p \in SlabClass
  BY DEF SlabState
<1>3. n \in Nat \ {0} /\ p.slots \in Seq(Chunk) /\ c \in Chunk
  BY <1>2 DEF SlabClass
<1>4. /\ q \in SlabClass
      /\ q.slots = SubSeq(p.slots, 1, n - 1)
      /\ q.end_page_ptr = p.end_page_ptr
      /\ q.end_page_free = p.end_page_free
      /\ q.slabs = p.slabs
      /\ q.sl_total = p.sl_total
      /\ q.list_size = p.list_size
  <2>1. SubSeq(p.slots, 1, n - 1) \in Seq(Chunk)
    BY <1>3
  <2>2. p.requested + bytes \in Int
    BY <1>2 DEF SlabClass
  <2> QED
    BY <2>1, <2>2, <1>2 DEF SlabClass
<1> HIDE DEF q
<1>5. /\ t \in SlabState
      /\ t.slabclass[id] = q
      /\ \A j \in Classes : j # id => t.slabclass[j] = s.slabclass[j]
      /\ t.mem_malloced = s.mem_malloced
  BY <1>4, SetClassLemma
<1> HIDE DEF t
<1>6. EndPageOK(t) /\ ArraysOK(t) /\ SamePages(s, t)
  <2>1. EndPageOK(t)
    BY <1>4, <1>5 DEF EndPageOK
  <2>2. Len(q.slots) <= q.sl_total /\ q.slabs <= q.list_size
    BY <1>2, <1>3, <1>4 DEF ArraysOK, SlabClass
  <2>3. ArraysOK(t)
    BY <1>5, <2>2 DEF ArraysOK
  <2> QED
    BY <1>4, <1>5, <2>1, <2>3 DEF SamePages
<1>7. Carved(t, id) = Carved(s, id)
  BY <1>4, <1>5 DEF Carved
<1>8. /\ Range(p.slots) = Range(q.slots) \cup {c}
      /\ c \notin Range(q.slots)
      /\ IsInjective(q.slots)
  <2>1. IsInjective(p.slots)
    BY DEF Partitioned
  <2>2. /\ DOMAIN p.slots = 1 .. n
        /\ DOMAIN q.slots = 1 .. (n - 1)
        /\ \A i \in 1 .. (n - 1) : q.slots[i] = p.slots[i]
    BY <1>3, <1>4
  <2>3. n \in Nat \ {0}
    BY <1>3
  <2> HIDE DEF n, p
  <2> QED
    BY <2>1, <2>2, <2>3, PopRange DEF c
<1>9. c \in Carved(s, id) /\ c[1] = id
  <2>1. c \in Carved(s, id)
    BY <1>8 DEF Partitioned
  <2> QED
    BY <2>1 DEF Carved
<1>10. c \notin given \cup dropped
  BY <1>8, <1>9 DEF Partitioned
<1>11. Partitioned(t, given \cup {c}, dropped)
  <2>1. (given \cup {c}) \cap dropped = {}
    BY <1>10 DEF Partitioned
  <2>2. ASSUME NEW j \in Classes, j # id
        PROVE  /\ Carved(t, j) = Carved(s, j)
               /\ t.slabclass[j].slots = s.slabclass[j].slots
               /\ {x \in given \cup {c} \cup dropped : x[1] = j}
                    = {x \in given \cup dropped : x[1] = j}
    BY <1>5, <1>9, <2>2 DEF Carved
  <2>3. {x \in given \cup {c} \cup dropped : x[1] = id}
          = {x \in given \cup dropped : x[1] = id} \cup {c}
    BY <1>9
  <2> QED
    BY <1>5, <1>7, <1>8, <1>10, <2>1, <2>2, <2>3 DEF Partitioned
<1> QED
  BY <1>1, <1>3, <1>5, <1>6, <1>9, <1>10, <1>11

(***************************************************************************)
(* The second branch of do_slabs_alloc gives out a chunk never given out.  *)
(***************************************************************************)
LEMMA PageEndLemma ==
  ASSUME NEW s \in SlabState, NEW id \in Classes, NEW bytes \in Nat,
         NEW given, NEW dropped,
         EndPageOK(s), ArraysOK(s), Partitioned(s, given, dropped),
         s.slabclass[id].end_page_ptr # NULL
  PROVE  LET o == FromPageEnd(s, bytes, id) IN
         /\ o.s \in SlabState
         /\ o.ret \in Chunk
         /\ EndPageOK(o.s)
         /\ ArraysOK(o.s)
         /\ SamePages(s, o.s)
         /\ o.ret \notin given \cup dropped
         /\ Partitioned(o.s, given \cup {o.ret}, dropped)
<1> DEFINE p == s.slabclass[id]
           next == <<id, p.end_page_ptr[2], p.end_page_ptr[3] + 1>>
           end == IF p.end_page_free - 1 # 0 THEN next ELSE NULL
           q == [p EXCEPT !.end_page_free = p.end_page_free - 1,
                          !.end_page_ptr = end,
                          !.requested = p.requested + bytes]
           t == SetClass(s, id, q)
           c == p.end_page_ptr
           n == perslab[id]
<1>1. FromPageEnd(s, bytes, id) = [ret |-> c, s |-> t]
  BY DEF FromPageEnd
<1>2. p \in SlabClass
  BY DEF SlabState
<1>3. /\ n \in Nat \ {0}
      /\ p.slabs \in Nat \ {0}
      /\ p.end_page_free \in 1 .. n
      /\ c = <<id, p.slabs, n - p.end_page_free + 1>>
  <2>1. n \in Nat \ {0}
    BY SlabsAssumption
  <2>2. p.slabs \in Nat /\ p.end_page_free \in Nat /\ c # NULL
    BY <1>2 DEF SlabClass
  <2>3. /\ p.end_page_free <= n
        /\ p.slabs = 0 => p.end_page_free = 0
        /\ c = IF p.end_page_free = 0 THEN NULL
               ELSE <<id, p.slabs, n - p.end_page_free + 1>>
    BY DEF EndPageOK
  <2> HIDE DEF c, n
  <2> QED
    BY <2>1, <2>2, <2>3
<1>4. c \in Chunk /\ c[1] = id
  BY <1>3 DEF Chunk
<1>5. end = IF p.end_page_free - 1 = 0 THEN NULL
            ELSE <<id, p.slabs, n - (p.end_page_free - 1) + 1>>
  BY <1>3
<1>6. end \in Chunk \cup {NULL}
  BY <1>3, <1>5 DEF Chunk
<1>7. p.requested + bytes \in Int /\ p.end_page_free - 1 \in Nat
  <2>1. p.requested \in Int
    BY <1>2 DEF SlabClass
  <2>2. p.end_page_free \in 1 .. n /\ n \in Nat
    BY <1>3
  <2> HIDE DEF p, n
  <2> QED
    BY <2>1, <2>2
<1> HIDE DEF end
<1>8. /\ q \in SlabClass
      /\ q.slots = p.slots
      /\ q.end_page_ptr = end
      /\ q.end_page_free = p.end_page_free - 1
      /\ q.slabs = p.slabs
      /\ q.sl_total = p.sl_total
      /\ q.list_size = p.list_size
  BY <1>2, <1>6, <1>7 DEF SlabClass
<1> HIDE DEF q
<1>9. /\ t \in SlabState
      /\ t.slabclass[id] = q
      /\ \A j \in Classes : j # id => t.slabclass[j] = s.slabclass[j]
      /\ t.mem_malloced = s.mem_malloced
  BY <1>8, SetClassLemma
<1> HIDE DEF t
<1>10. EndPageOK(t) /\ ArraysOK(t) /\ SamePages(s, t)
  <2>1. /\ q.end_page_free <= n
        /\ q.slabs = 0 => q.end_page_free = 0
        /\ q.end_page_ptr = IF q.end_page_free = 0 THEN NULL
                            ELSE <<id, q.slabs, n - q.end_page_free + 1>>
    BY <1>3, <1>5, <1>8
  <2>2. EndPageOK(t)
    BY <1>9, <2>1 DEF EndPageOK
  <2>3. ArraysOK(t)
    BY <1>8, <1>9 DEF ArraysOK
  <2> QED
    BY <1>8, <1>9, <2>2, <2>3 DEF SamePages
<1>11. Carved(t, id) = Carved(s, id) \cup {c} /\ c \notin Carved(s, id)
  <2>1. /\ Carved(s, id) = {x \in {id} \X (1 .. p.slabs) \X (1 .. n) :
                              x[2] = p.slabs => x[3] <= n - p.end_page_free}
        /\ Carved(t, id) = {x \in {id} \X (1 .. p.slabs) \X (1 .. n) :
                              x[2] = p.slabs => x[3] <= n - (p.end_page_free - 1)}
    BY <1>8, <1>9 DEF Carved
  <2> DEFINE f == p.end_page_free
             k == p.slabs
  <2>2. c = <<id, k, n - f + 1>> /\ n \in Nat \ {0} /\ k \in Nat \ {0} /\ f \in 1 .. n
    BY <1>3
  <2> HIDE DEF f, k, n, c
  <2>3. c \in {id} \X (1 .. k) \X (1 .. n)
    BY <2>2
  <2>4. ASSUME NEW x \in {id} \X (1 .. k) \X (1 .. n)
        PROVE  (x[2] = k => x[3] <= n - (f - 1))
                 <=> (x[2] = k => x[3] <= n - f) \/ x = c
    <3>1. x = <<id, x[2], x[3]>> /\ x[2] \in 1 .. k /\ x[3] \in 1 .. n
      OBVIOUS
    <3> QED
      BY <2>2, <3>1
  <2>5. ~ (c[2] = k => c[3] <= n - f)
    BY <2>2
  <2> QED
    BY <2>1, <2>3, <2>4, <2>5 DEF f, k
<1>12. c \notin given \cup dropped /\ c \notin Range(p.slots)
  BY <1>4, <1>11 DEF Partitioned
<1>13. Partitioned(t, given \cup {c}, dropped)
  <2>1. (given \cup {c}) \cap dropped = {}
    BY <1>12 DEF Partitioned
  <2>2. ASSUME NEW j \in Classes, j # id
        PROVE  /\ Carved(t, j) = Carved(s, j)
               /\ t.slabclass[j].slots = s.slabclass[j].slots
               /\ {x \in given \cup {c} \cup dropped : x[1] = j}
                    = {x \in given \cup dropped : x[1] = j}
    BY <1>9, <1>4, <2>2 DEF Carved
  <2>3. {x \in given \cup {c} \cup dropped : x[1] = id}
          = {x \in given \cup dropped : x[1] = id} \cup {c}
    BY <1>4
  <2> QED
    BY <1>8, <1>9, <1>11, <1>12, <2>1, <2>2, <2>3 DEF Partitioned
<1> QED
  BY <1>1, <1>4, <1>9, <1>10, <1>12, <1>13

\* grow_slab_list changes nothing but the capacity, and makes room for a page.
LEMMA GrowLemma ==
  ASSUME NEW p \in SlabClass, p.slabs <= p.list_size,
         NEW g \in grow_slab_list(p)
  PROVE  /\ g.ok \in BOOLEAN
         /\ g.p \in SlabClass
         /\ g.p.slots = p.slots
         /\ g.p.sl_total = p.sl_total
         /\ g.p.end_page_ptr = p.end_page_ptr
         /\ g.p.end_page_free = p.end_page_free
         /\ g.p.slabs = p.slabs
         /\ g.p.slabs <= g.p.list_size
         /\ g.ok => g.p.slabs < g.p.list_size
<1> DEFINE q == [p EXCEPT !.list_size = Grown(p.list_size)]
<1>1. p.list_size \in Nat /\ p.slabs \in Nat
  BY DEF SlabClass
<1>2. Grown(p.list_size) \in Nat /\ Grown(p.list_size) > p.list_size
  BY <1>1, GrownType
<1>3. /\ q \in SlabClass
      /\ q.slots = p.slots
      /\ q.sl_total = p.sl_total
      /\ q.end_page_ptr = p.end_page_ptr
      /\ q.end_page_free = p.end_page_free
      /\ q.slabs = p.slabs
      /\ q.list_size = Grown(p.list_size)
  BY <1>2 DEF SlabClass
<1>4. \/ g = [ok |-> FALSE, p |-> p]
      \/ g = [ok |-> TRUE, p |-> q]
      \/ g = [ok |-> TRUE, p |-> p] /\ p.slabs # p.list_size
  BY DEF grow_slab_list
<1> HIDE DEF q
<1>5. CASE g = [ok |-> FALSE, p |-> p]
  BY <1>5
<1>6. CASE g = [ok |-> TRUE, p |-> q]
  BY <1>1, <1>2, <1>3, <1>6
<1>7. CASE g = [ok |-> TRUE, p |-> p] /\ p.slabs # p.list_size
  BY <1>1, <1>7
<1> QED
  BY <1>4, <1>5, <1>6, <1>7

\* memory_allocate touches no slab class.
LEMMA MemoryLemma ==
  ASSUME NEW s \in SlabState, NEW len \in Nat,
         NEW a \in memory_allocate(s, len)
  PROVE  /\ a.ok \in BOOLEAN
         /\ a.s \in SlabState
         /\ a.s.slabclass = s.slabclass
         /\ a.s.mem_malloced = s.mem_malloced
<1> DEFINE n == Aligned(len)
           left == s.mem_avail - (IF n < s.mem_avail THEN n ELSE 0)
           t == [s EXCEPT !.mem_current = s.mem_current + n, !.mem_avail = left]
<1>1. n \in Nat
  BY AlignedType
<1> HIDE DEF n
<1>2. s.mem_avail \in Nat /\ s.mem_current \in Nat
  BY DEF SlabState
<1>3. left \in Nat /\ s.mem_current + n \in Nat
  BY <1>1, <1>2
<1> HIDE DEF left
<1>4. t \in SlabState /\ t.slabclass = s.slabclass /\ t.mem_malloced = s.mem_malloced
  BY <1>3 DEF SlabState
<1>5. \/ \E b \in BOOLEAN : a = [ok |-> b, s |-> s]
      \/ a = [ok |-> TRUE, s |-> t]
  BY SlabsAssumption DEF memory_allocate, n, left
<1> HIDE DEF t
<1>6. CASE a = [ok |-> TRUE, s |-> t]
  BY <1>4, <1>6
<1>7. ASSUME NEW b \in BOOLEAN, a = [ok |-> b, s |-> s]
      PROVE  a.ok = b /\ a.s = s
  BY <1>7
<1> QED
  BY <1>5, <1>6, <1>7

\* The chunks of an allocator do not depend on its capacities and counters.
LEMMA SameChunks ==
  ASSUME NEW s, NEW t, NEW given, NEW dropped,
         EndPageOK(s), Partitioned(s, given, dropped),
         \A j \in Classes :
           /\ t.slabclass[j].slots = s.slabclass[j].slots
           /\ t.slabclass[j].end_page_ptr = s.slabclass[j].end_page_ptr
           /\ t.slabclass[j].end_page_free = s.slabclass[j].end_page_free
           /\ t.slabclass[j].slabs = s.slabclass[j].slabs
  PROVE  EndPageOK(t) /\ Partitioned(t, given, dropped)
<1>1. EndPageOK(t)
  BY DEF EndPageOK
<1>2. \A j \in Classes : Carved(t, j) = Carved(s, j)
  BY DEF Carved
<1> QED
  BY <1>1, <1>2 DEF Partitioned

\* A new page adds no chunk that counts as cut.
LEMMA AddPageLemma ==
  ASSUME NEW s \in SlabState, NEW id \in Classes, NEW given, NEW dropped,
         EndPageOK(s), ArraysOK(s), Partitioned(s, given, dropped),
         s.slabclass[id].end_page_ptr = NULL,
         s.slabclass[id].slabs < s.slabclass[id].list_size
  PROVE  LET t == AddPage(s, id) IN
         /\ t \in SlabState
         /\ EndPageOK(t)
         /\ ArraysOK(t)
         /\ Partitioned(t, given, dropped)
         /\ t.slabclass[id].end_page_ptr # NULL
         /\ t.mem_malloced = s.mem_malloced + PageLen(id)
         /\ t.slabclass[id].slabs = s.slabclass[id].slabs + 1
         /\ \A j \in Classes :
              j # id => t.slabclass[j].slabs = s.slabclass[j].slabs
<1> DEFINE p == s.slabclass[id]
           k == p.slabs
           n == perslab[id]
           c == <<id, k + 1, 1>>
           q == [p EXCEPT !.end_page_ptr = c, !.end_page_free = n, !.slabs = k + 1]
           u == SetClass(s, id, q)
           t == [u EXCEPT !.mem_malloced = @ + PageLen(id)]
<1>1. AddPage(s, id) = t
  BY DEF AddPage
<1>2. p \in SlabClass
  BY DEF SlabState
<1>3. k \in Nat /\ n \in Nat \ {0} /\ PageLen(id) \in Nat
  BY <1>2, PageLenType, SlabsAssumption DEF SlabClass
<1>4. p.end_page_free = 0
  <2>1. /\ p.end_page_ptr = IF p.end_page_free = 0 THEN NULL
                            ELSE <<id, k, n - p.end_page_free + 1>>
        /\ p.end_page_free <= n
        /\ k = 0 => p.end_page_free = 0
        /\ p.end_page_free \in Nat
    BY <1>2 DEF EndPageOK, SlabClass
  <2>2. ASSUME p.end_page_free # 0
        PROVE  <<id, k, n - p.end_page_free + 1>> \in Chunk
    <3>1. k \in Nat \ {0} /\ n - p.end_page_free + 1 \in Nat \ {0}
      BY <1>3, <2>1, <2>2
    <3> QED
      BY <3>1 DEF Chunk
  <2> QED
    BY <2>1, <2>2, SlabsAssumption
<1>5. c \in Chunk /\ c # NULL
  BY <1>3, SlabsAssumption DEF Chunk
<1> HIDE DEF c
<1>6. /\ q \in SlabClass
      /\ q.slots = p.slots
      /\ q.end_page_ptr = c
      /\ q.end_page_free = n
      /\ q.slabs = k + 1
      /\ q.sl_total = p.sl_total
      /\ q.list_size = p.list_size
  <2>1. k + 1 \in Nat
    BY <1>3
  <2> QED
    BY <1>2, <1>3, <1>5, <2>1 DEF SlabClass
<1> HIDE DEF q
<1>7. /\ u \in SlabState
      /\ u.slabclass[id] = q
      /\ \A j \in Classes : j # id => u.slabclass[j] = s.slabclass[j]
      /\ u.mem_malloced = s.mem_malloced
  BY <1>6, SetClassLemma
<1> HIDE DEF u
<1>8. /\ t \in SlabState
      /\ t.slabclass = u.slabclass
      /\ t.mem_malloced = s.mem_malloced + PageLen(id)
  <2>1. u.mem_malloced + PageLen(id) \in Nat
    BY <1>3, <1>7 DEF SlabState
  <2> QED
    BY <1>7, <2>1 DEF SlabState
<1> HIDE DEF t
<1>9. EndPageOK(t) /\ ArraysOK(t)
  <2>1. /\ q.end_page_free <= n
        /\ q.slabs = 0 => q.end_page_free = 0
        /\ q.end_page_ptr = IF q.end_page_free = 0 THEN NULL
                            ELSE <<id, q.slabs, n - q.end_page_free + 1>>
    BY <1>3, <1>6 DEF c
  <2>2. EndPageOK(t)
    BY <1>7, <1>8, <2>1 DEF EndPageOK
  <2>3. q.slabs <= q.list_size
    BY <1>2, <1>3, <1>6 DEF SlabClass
  <2>4. ArraysOK(t)
    BY <1>6, <1>7, <1>8, <2>3 DEF ArraysOK
  <2> QED
    BY <2>2, <2>4
<1>10. Carved(t, id) = Carved(s, id)
  <2>1. /\ Carved(s, id) = {x \in {id} \X (1 .. k) \X (1 .. n) :
                              x[2] = k => x[3] <= n - 0}
        /\ Carved(t, id) = {x \in {id} \X (1 .. (k + 1)) \X (1 .. n) :
                              x[2] = k + 1 => x[3] <= n - n}
    BY <1>4, <1>6, <1>7, <1>8 DEF Carved
  <2> HIDE DEF k, n
  <2>2. Carved(s, id) = {id} \X (1 .. k) \X (1 .. n)
    BY <1>3, <2>1
  <2>3. ASSUME NEW x \in {id} \X (1 .. (k + 1)) \X (1 .. n)
        PROVE  (x[2] = k + 1 => x[3] <= n - n) <=> x \in {id} \X (1 .. k) \X (1 .. n)
    <3>1. x = <<id, x[2], x[3]>> /\ x[2] \in 1 .. (k + 1) /\ x[3] \in 1 .. n
      OBVIOUS
    <3> QED
      BY <1>3, <3>1
  <2>4. {id} \X (1 .. k) \X (1 .. n) \subseteq {id} \X (1 .. (k + 1)) \X (1 .. n)
    BY <1>3
  <2> QED
    BY <2>1, <2>2, <2>3, <2>4
<1>11. ASSUME NEW j \in Classes
       PROVE  Carved(t, j) = Carved(s, j)
              /\ t.slabclass[j].slots = s.slabclass[j].slots
  <2>1. CASE j = id
    BY <1>6, <1>7, <1>8, <1>10, <2>1
  <2>2. CASE j # id
    BY <1>7, <1>8, <2>2 DEF Carved
  <2> QED
    BY <2>1, <2>2
<1>12. Partitioned(t, given, dropped)
  BY <1>11 DEF Partitioned
<1> QED
  BY <1>1, <1>5, <1>6, <1>7, <1>8, <1>9, <1>12

\* Every outcome of do_slabs_newslab, the failures half-way included.
LEMMA NewSlabLemma ==
  ASSUME NEW s \in SlabState, NEW id \in Classes, NEW given, NEW dropped,
         EndPageOK(s), ArraysOK(s), Partitioned(s, given, dropped),
         s.slabclass[id].end_page_ptr = NULL,
         NEW o \in do_slabs_newslab(s, id)
  PROVE  /\ o.s \in SlabState
         /\ EndPageOK(o.s)
         /\ ArraysOK(o.s)
         /\ Partitioned(o.s, given, dropped)
         /\ o.ok => o.s.slabclass[id].end_page_ptr # NULL
         /\ SamePages(s, o.s) \/ OnePageMore(s, o.s, id)
<1> DEFINE p == s.slabclass[id]
           len == PageLen(id)
           Limited == mem_limit # 0 /\ s.mem_malloced + len > mem_limit /\ p.slabs > 0
           Good(r) == /\ r.s \in SlabState
                      /\ EndPageOK(r.s)
                      /\ ArraysOK(r.s)
                      /\ Partitioned(r.s, given, dropped)
                      /\ r.ok => r.s.slabclass[id].end_page_ptr # NULL
                      /\ SamePages(s, r.s) \/ OnePageMore(s, r.s, id)
<1>1. p \in SlabClass /\ p.slabs <= p.list_size /\ len \in Nat
  BY PageLenType DEF SlabState, ArraysOK
<1>2. Good([ok |-> FALSE, s |-> s])
  BY DEF SamePages
<1>3. ASSUME ~Limited, NEW g \in grow_slab_list(p), g.ok,
             NEW a \in memory_allocate(SetClass(s, id, g.p), len)
      PROVE  Good([ok |-> a.ok, s |-> IF a.ok THEN AddPage(a.s, id) ELSE a.s])
  <2> DEFINE u == SetClass(s, id, g.p)
             v == a.s
  <2>1. /\ g.p \in SlabClass
        /\ g.p.slots = p.slots
        /\ g.p.sl_total = p.sl_total
        /\ g.p.end_page_ptr = p.end_page_ptr
        /\ g.p.end_page_free = p.end_page_free
        /\ g.p.slabs = p.slabs
        /\ g.p.slabs < g.p.list_size
    BY <1>1, <1>3, GrowLemma
  <2>2. /\ u \in SlabState
        /\ u.slabclass[id] = g.p
        /\ \A j \in Classes : j # id => u.slabclass[j] = s.slabclass[j]
        /\ u.mem_malloced = s.mem_malloced
    BY <2>1, SetClassLemma
  <2> HIDE DEF u
  <2>3. /\ a.ok \in BOOLEAN
        /\ v \in SlabState
        /\ v.slabclass = u.slabclass
        /\ v.mem_malloced = u.mem_malloced
    BY <1>1, <1>3, <2>2, MemoryLemma DEF u
  <2> HIDE DEF v
  <2>4. \A j \in Classes :
          /\ v.slabclass[j].slots = s.slabclass[j].slots
          /\ v.slabclass[j].sl_total = s.slabclass[j].sl_total
          /\ v.slabclass[j].end_page_ptr = s.slabclass[j].end_page_ptr
          /\ v.slabclass[j].end_page_free = s.slabclass[j].end_page_free
          /\ v.slabclass[j].slabs = s.slabclass[j].slabs
    BY <2>1, <2>2, <2>3
  <2>5. EndPageOK(v) /\ Partitioned(v, given, dropped) /\ SamePages(s, v)
    BY <2>2, <2>3, <2>4, SameChunks DEF SamePages
  <2>6. ArraysOK(v) /\ v.slabclass[id].slabs < v.slabclass[id].list_size
    <3>1. g.p.slabs <= g.p.list_size
      BY <2>1 DEF SlabClass
    <3> QED
      BY <2>1, <2>2, <2>3, <3>1 DEF ArraysOK
  <2>7. CASE ~a.ok
    BY <2>3, <2>5, <2>6, <2>7 DEF v
  <2>8. CASE a.ok
    <3> DEFINE t == AddPage(v, id)
    <3>1. v.slabclass[id].end_page_ptr = NULL
      BY <2>4
    <3>2. /\ t \in SlabState
          /\ EndPageOK(t)
          /\ ArraysOK(t)
          /\ Partitioned(t, given, dropped)
          /\ t.slabclass[id].end_page_ptr # NULL
          /\ t.mem_malloced = v.mem_malloced + len
          /\ t.slabclass[id].slabs = v.slabclass[id].slabs + 1
          /\ \A j \in Classes :
               j # id => t.slabclass[j].slabs = v.slabclass[j].slabs
      BY <2>3, <2>5, <2>6, <3>1, AddPageLemma
    <3> HIDE DEF t
    <3>3. \/ mem_limit = 0
          \/ s.mem_malloced + len <= mem_limit
          \/ p.slabs = 0
      <4>1. s.mem_malloced \in Nat /\ p.slabs \in Nat
        BY <1>1 DEF SlabState, SlabClass
      <4>2. mem_limit \in Nat
        BY SlabsAssumption
      <4> HIDE DEF p, len
      <4> QED
        BY <1>1, <1>3, <4>1, <4>2
    <3>4. OnePageMore(s, t, id)
      BY <2>5, <3>2, <3>3 DEF OnePageMore, SamePages
    <3> QED
      BY <2>8, <3>2, <3>4 DEF v, t
  <2> QED
    BY <2>3, <2>7, <2>8
<1>4. \/ o = [ok |-> FALSE, s |-> s]
      \/ /\ ~Limited
         /\ \E g \in grow_slab_list(p) :
              /\ g.ok
              /\ \E a \in memory_allocate(SetClass(s, id, g.p), len) :
                   o = [ok |-> a.ok, s |-> IF a.ok THEN AddPage(a.s, id) ELSE a.s]
  BY DEF do_slabs_newslab
<1>5. Good(o)
  <2>1. CASE o = [ok |-> FALSE, s |-> s]
    BY <1>2, <2>1
  <2>2. CASE o # [ok |-> FALSE, s |-> s]
    <3> HIDE DEF Good, Limited
    <3> QED
      BY <1>3, <1>4, <2>2
  <2> QED
    BY <2>1, <2>2
<1> QED
  BY <1>5

\* do_slabs_alloc: a chunk that nobody has, or none.
LEMMA AllocLemma ==
  ASSUME NEW s \in SlabState, NEW id, NEW bytes \in Nat,
         NEW given, NEW dropped,
         EndPageOK(s), ArraysOK(s), Partitioned(s, given, dropped),
         NEW o \in do_slabs_alloc(s, bytes, id)
  PROVE  /\ o.s \in SlabState
         /\ EndPageOK(o.s)
         /\ ArraysOK(o.s)
         /\ \/ SamePages(s, o.s)
            \/ \E c \in Classes : OnePageMore(s, o.s, c)
         /\ \/ o.ret = NULL /\ Partitioned(o.s, given, dropped)
            \/ /\ o.ret \in Chunk
               /\ o.ret \notin given \cup dropped
               /\ Partitioned(o.s, given \cup {o.ret}, dropped)
<1>1. CASE id \notin Classes
  <2>1. o = [ret |-> NULL, s |-> s]
    BY <1>1 DEF do_slabs_alloc
  <2> QED
    BY <2>1 DEF SamePages
<1>2. CASE id \in Classes /\ s.slabclass[id].slots # <<>>
  <2>1. o = FromFreeList(s, bytes, id)
    BY <1>2 DEF do_slabs_alloc
  <2> QED
    BY <1>2, <2>1, FreeListLemma
<1>3. CASE id \in Classes /\ s.slabclass[id].slots = <<>>
           /\ s.slabclass[id].end_page_ptr # NULL
  <2>1. o = FromPageEnd(s, bytes, id)
    BY <1>3 DEF do_slabs_alloc
  <2> QED
    BY <1>3, <2>1, PageEndLemma
<1>4. CASE id \in Classes /\ s.slabclass[id].slots = <<>>
           /\ s.slabclass[id].end_page_ptr = NULL
  <2>1. PICK m \in do_slabs_newslab(s, id) :
          o = IF m.ok THEN FromPageEnd(m.s, bytes, id)
                      ELSE [ret |-> NULL, s |-> m.s]
    BY <1>4 DEF do_slabs_alloc
  <2>2. /\ m.s \in SlabState
        /\ EndPageOK(m.s)
        /\ ArraysOK(m.s)
        /\ Partitioned(m.s, given, dropped)
        /\ m.ok => m.s.slabclass[id].end_page_ptr # NULL
        /\ SamePages(s, m.s) \/ OnePageMore(s, m.s, id)
    BY <1>4, NewSlabLemma
  <2>3. CASE ~m.ok
    <3>1. o.ret = NULL /\ o.s = m.s
      BY <2>1, <2>3
    <3> QED
      BY <1>4, <2>2, <3>1
  <2>4. CASE m.ok
    <3>1. o = FromPageEnd(m.s, bytes, id)
      BY <2>1, <2>4
    <3>2. /\ o.s \in SlabState
          /\ o.ret \in Chunk
          /\ EndPageOK(o.s)
          /\ ArraysOK(o.s)
          /\ SamePages(m.s, o.s)
          /\ o.ret \notin given \cup dropped
          /\ Partitioned(o.s, given \cup {o.ret}, dropped)
      BY <1>4, <2>2, <2>4, <3>1, PageEndLemma
    <3>3. SamePages(s, o.s) \/ OnePageMore(s, o.s, id)
      BY <1>4, <2>2, <3>2 DEF SamePages, OnePageMore
    <3> QED
      BY <1>4, <3>2, <3>3
  <2> QED
    BY <2>3, <2>4
<1> QED
  BY <1>1, <1>2, <1>3, <1>4

\* What pushing a new element on a sequence without repetition makes.
LEMMA PushRange ==
  ASSUME NEW S, NEW a \in Seq(S), NEW c \in S,
         IsInjective(a), c \notin Range(a)
  PROVE  /\ Range(Append(a, c)) = Range(a) \cup {c}
         /\ IsInjective(Append(a, c))
<1> DEFINE n == Len(a) + 1
           b == Append(a, c)
<1>1. /\ n \in Nat \ {0}
      /\ DOMAIN a = 1 .. (n - 1)
      /\ DOMAIN b = 1 .. n
      /\ b[n] = c
      /\ \A i \in 1 .. (n - 1) : b[i] = a[i]
  OBVIOUS
<1> HIDE DEF n, b
<1>2. 1 .. n = (1 .. (n - 1)) \cup {n} /\ n \notin 1 .. (n - 1)
  BY <1>1, LastIndex
<1>3. Range(b) \subseteq Range(a) \cup {c}
  BY <1>1, <1>2 DEF Range
<1>4. Range(a) \cup {c} \subseteq Range(b)
  BY <1>1, <1>2 DEF Range
<1>5. IsInjective(b)
  BY <1>1, <1>2 DEF IsInjective, Range
<1> QED
  BY <1>3, <1>4, <1>5 DEF b

\* do_slabs_free: the chunk is on the free list, or dropped with no change.
LEMMA FreeLemma ==
  ASSUME NEW s \in SlabState, NEW given, NEW dropped,
         NEW c \in given, c \in Chunk, NEW bytes \in Nat,
         EndPageOK(s), ArraysOK(s), Partitioned(s, given, dropped),
         NEW t \in do_slabs_free(s, c, bytes, c[1])
  PROVE  /\ t \in SlabState
         /\ EndPageOK(t)
         /\ ArraysOK(t)
         /\ SamePages(s, t)
         /\ t = s => Partitioned(t, given \ {c}, dropped \cup {c})
         /\ t # s => Partitioned(t, given \ {c}, dropped)
<1> DEFINE id == c[1]
           p == s.slabclass[id]
           Pushed(total) ==
             [p EXCEPT !.slots = Append(p.slots, c), !.sl_total = total,
                       !.requested = p.requested - bytes]
<1>1. id \in Classes
  BY DEF Chunk
<1>2. p \in SlabClass
  BY <1>1 DEF SlabState
<1>3. /\ p.slots \in Seq(Chunk) /\ Len(p.slots) \in Nat
      /\ p.sl_total \in Nat /\ Len(p.slots) <= p.sl_total
  BY <1>1, <1>2 DEF SlabClass, ArraysOK
<1>4. /\ c \notin Range(p.slots)
      /\ c \notin dropped
      /\ IsInjective(p.slots)
      /\ given \cap dropped = {}
  BY <1>1 DEF Partitioned
<1>5. /\ Range(Append(p.slots, c)) = Range(p.slots) \cup {c}
      /\ IsInjective(Append(p.slots, c))
  BY <1>3, <1>4, PushRange
<1>6. Partitioned(s, given \ {c}, dropped \cup {c})
  <2>1. (given \ {c}) \cup (dropped \cup {c}) = given \cup dropped
    OBVIOUS
  <2> QED
    BY <1>4, <2>1 DEF Partitioned
<1>7. ASSUME NEW total \in Nat, total > Len(p.slots),
             t = SetClass(s, id, Pushed(total))
      PROVE  /\ t \in SlabState
             /\ EndPageOK(t)
             /\ ArraysOK(t)
             /\ SamePages(s, t)
             /\ t # s
             /\ Partitioned(t, given \ {c}, dropped)
  <2> DEFINE q == Pushed(total)
  <2>1. /\ q \in SlabClass
        /\ q.slots = Append(p.slots, c)
        /\ q.end_page_ptr = p.end_page_ptr
        /\ q.end_page_free = p.end_page_free
        /\ q.slabs = p.slabs
        /\ q.sl_total = total
        /\ q.list_size = p.list_size
    <3>1. Append(p.slots, c) \in Seq(Chunk)
      BY <1>3
    <3>2. p.requested - bytes \in Int
      BY <1>2 DEF SlabClass
    <3> QED
      BY <1>2, <3>1, <3>2 DEF SlabClass
  <2>0. t = SetClass(s, id, q)
    BY <1>7
  <2> HIDE DEF q
  <2>2. /\ t \in SlabState
        /\ t.slabclass[id] = q
        /\ \A j \in Classes : j # id => t.slabclass[j] = s.slabclass[j]
        /\ t.mem_malloced = s.mem_malloced
    <3> HIDE DEF id
    <3> QED
      BY <1>1, <2>0, <2>1, SetClassLemma
  <2>3. EndPageOK(t)
    BY <2>1, <2>2 DEF EndPageOK
  <2>4. ArraysOK(t)
    <3>1. Len(q.slots) <= q.sl_total /\ q.slabs <= q.list_size
      BY <1>1, <1>3, <1>7, <2>1 DEF ArraysOK
    <3> QED
      BY <2>2, <3>1 DEF ArraysOK
  <2>5. SamePages(s, t)
    BY <2>1, <2>2 DEF SamePages
  <2>6. t # s
    BY <1>4, <1>5, <2>1, <2>2
  <2>7. Carved(t, id) = Carved(s, id)
    BY <2>1, <2>2 DEF Carved
  <2>8. Partitioned(t, given \ {c}, dropped)
    <3>1. ASSUME NEW j \in Classes, j # id
          PROVE  /\ Carved(t, j) = Carved(s, j)
                 /\ t.slabclass[j].slots = s.slabclass[j].slots
                 /\ {x \in (given \ {c}) \cup dropped : x[1] = j}
                      = {x \in given \cup dropped : x[1] = j}
      BY <2>2, <3>1 DEF Carved
    <3>2. {x \in (given \ {c}) \cup dropped : x[1] = id}
            = {x \in given \cup dropped : x[1] = id} \ {c}
      BY <1>4
    <3>3. c \in {x \in given \cup dropped : x[1] = id}
      OBVIOUS
    <3>4. (given \ {c}) \cap dropped = {}
      BY <1>4
    <3>5. /\ Carved(t, id) = Range(t.slabclass[id].slots)
                               \cup {x \in (given \ {c}) \cup dropped : x[1] = id}
          /\ Range(t.slabclass[id].slots)
               \cap {x \in (given \ {c}) \cup dropped : x[1] = id} = {}
          /\ IsInjective(t.slabclass[id].slots)
      <4> DEFINE away == {x \in given \cup dropped : x[1] = id}
      <4>1. /\ Carved(s, id) = Range(p.slots) \cup away
            /\ Range(p.slots) \cap away = {}
        BY <1>1 DEF Partitioned
      <4>2. t.slabclass[id].slots = Append(p.slots, c)
        BY <2>1, <2>2
      <4> HIDE DEF away, id, p
      <4> QED
        BY <1>5, <2>7, <3>2, <3>3, <4>1, <4>2 DEF away
    <3> QED
      BY <3>1, <3>4, <3>5 DEF Partitioned
  <2> QED
    BY <2>2, <2>3, <2>4, <2>5, <2>6, <2>8
<1>8. \/ t = s
      \/ \E total \in Nat : total > Len(p.slots) /\ t = SetClass(s, id, Pushed(total))
  <2>1. CASE Len(p.slots) = p.sl_total
    <3>1. Grown(p.sl_total) \in Nat /\ Grown(p.sl_total) > Len(p.slots)
      BY <1>3, <2>1, GrownType
    <3>2. t = s \/ t = SetClass(s, id, Pushed(Grown(p.sl_total)))
      BY <1>1, <2>1 DEF do_slabs_free
    <3> HIDE DEF Pushed
    <3> QED
      BY <3>1, <3>2
  <2>2. CASE Len(p.slots) # p.sl_total
    <3>1. t = SetClass(s, id, Pushed(p.sl_total))
      BY <1>1, <2>2 DEF do_slabs_free
    <3>2. p.sl_total > Len(p.slots)
      BY <1>3, <2>2
    <3> HIDE DEF Pushed
    <3> QED
      BY <1>3, <3>1, <3>2
  <2> QED
    BY <2>1, <2>2
<1>9. t = s => SamePages(s, t)
  BY DEF SamePages
<1> HIDE DEF Pushed
<1> QED
  BY <1>6, <1>7, <1>8, <1>9

\* The class has no chunk left, and a new page is beyond the limit.
Exhausted(s, id) ==
  LET p == s.slabclass[id] IN
  /\ p.slots = <<>> /\ p.end_page_ptr = NULL
  /\ \/ mem_limit # 0 /\ p.slabs > 0 /\ s.mem_malloced + PageLen(id) > mem_limit
     \/ preallocate /\ PageLen(id) > s.mem_avail

\* While no malloc fails, do_slabs_alloc fails for that reason only.
LEMMA AllocFails ==
  ASSUME HeapFails = {FALSE}, NEW s \in SlabState, NEW id \in Classes, NEW given, NEW dropped,
         EndPageOK(s), ArraysOK(s), Partitioned(s, given, dropped),
         NEW bytes \in Nat, NEW o \in do_slabs_alloc(s, bytes, id), o.ret = NULL
  PROVE  Exhausted(s, id)
<1> PICK p : p = s.slabclass[id]
  OBVIOUS
<1>1. p \in SlabClass /\ p.slots \in Seq(Chunk) /\ NULL \notin Chunk
  BY SlabsAssumption DEF SlabState, SlabClass
<1>2. ASSUME p.slots # <<>> PROVE FALSE
  <2>1. o = FromFreeList(s, bytes, id)
    BY <1>2 DEF do_slabs_alloc
  <2>2. o.ret = p.slots[Len(p.slots)]
    BY <2>1 DEF FromFreeList
  <2> QED BY <1>1, <1>2, <2>2
<1>3. ASSUME p.slots = <<>>, p.end_page_ptr # NULL PROVE FALSE
  <2>1. o = FromPageEnd(s, bytes, id)
    BY <1>3 DEF do_slabs_alloc
  <2> QED BY <1>3, <2>1 DEF FromPageEnd
<1>4. PICK m \in do_slabs_newslab(s, id) :
        o = IF m.ok THEN FromPageEnd(m.s, bytes, id) ELSE [ret |-> NULL, s |-> m.s]
  BY <1>2, <1>3 DEF do_slabs_alloc
<1>5. m.ok => m.s.slabclass[id].end_page_ptr # NULL
  BY <1>2, <1>3, NewSlabLemma
<1>6. ~m.ok
  BY <1>4, <1>5 DEF FromPageEnd
<1> DEFINE len == PageLen(id)
<1>7. \/ mem_limit # 0 /\ s.mem_malloced + len > mem_limit /\ p.slabs > 0
      \/ \E g \in grow_slab_list(p) :
           IF ~g.ok THEN m = [ok |-> FALSE, s |-> s]
           ELSE \E a \in memory_allocate(SetClass(s, id, g.p), len) :
                  m = [ok |-> a.ok, s |-> IF a.ok THEN AddPage(a.s, id) ELSE a.s]
  BY DEF do_slabs_newslab
<1>8. ASSUME NEW g \in grow_slab_list(p) PROVE g.ok
  BY <1>8 DEF grow_slab_list
<1>9. ASSUME NEW g, NEW a \in memory_allocate(SetClass(s, id, g.p), len), ~a.ok
      PROVE  preallocate /\ len > s.mem_avail
  <2> PICK u : u = SetClass(s, id, g.p)
    OBVIOUS
  <2>1. u.mem_avail = s.mem_avail
    BY DEF SetClass, SlabState
  <2>2. CASE ~preallocate
    <3>1. PICK fails \in HeapFails : a = [ok |-> ~fails, s |-> u]
      BY <1>9, <2>2 DEF memory_allocate
    <3>2. a.ok = ~fails
      BY <3>1
    <3>3. fails = FALSE
      OBVIOUS
    <3> QED BY <1>9, <3>2, <3>3, Zenon
  <2>3. CASE preallocate /\ ~(len > u.mem_avail)
    <3>1. \E v : a = [ok |-> TRUE, s |-> v]
      BY <1>9, <2>3 DEF memory_allocate
    <3> QED BY <1>9, <3>1
  <2>4. preallocate \in BOOLEAN
    BY SlabsAssumption
  <2> HIDE DEF len
  <2> QED BY <2>1, <2>2, <2>3, <2>4
<1> QED
  BY <1>2, <1>3, <1>6, <1>7, <1>8, <1>9 DEF Exhausted

\* The chunks on the free lists.
FreeChunks(s) == UNION {Range(s.slabclass[id].slots) : id \in Classes}

\* A new page changes no free list.
LEMMA NewSlabSlots ==
  ASSUME NEW s \in SlabState, NEW id \in Classes, ArraysOK(s),
         NEW o \in do_slabs_newslab(s, id), NEW j \in Classes
  PROVE  o.s.slabclass[j].slots = s.slabclass[j].slots
<1> DEFINE p == s.slabclass[id]
           len == PageLen(id)
<1>1. p \in SlabClass /\ p.slabs <= p.list_size /\ len \in Nat
  BY PageLenType DEF SlabState, ArraysOK
<1>2. ASSUME NEW g \in grow_slab_list(p),
             NEW a \in memory_allocate(SetClass(s, id, g.p), len)
      PROVE  /\ a.s.slabclass[j].slots = s.slabclass[j].slots
             /\ AddPage(a.s, id).slabclass[j].slots = s.slabclass[j].slots
  <2> DEFINE u == SetClass(s, id, g.p)
             v == a.s
  <2>1. g.p \in SlabClass /\ g.p.slots = p.slots
    BY <1>1, <1>2, GrowLemma
  <2>2. /\ u \in SlabState
        /\ u.slabclass[j].slots = s.slabclass[j].slots
    BY <2>1, SetClassLemma
  <2> HIDE DEF u
  <2>3. v \in SlabState /\ v.slabclass = u.slabclass
    BY <1>1, <1>2, <2>2, MemoryLemma DEF u
  <2> HIDE DEF v
  <2>4. AddPage(v, id).slabclass[j].slots = v.slabclass[j].slots
    BY <2>3 DEF AddPage, SetClass, SlabState, SlabClass
  <2> QED
    BY <2>2, <2>3, <2>4 DEF v
<1>3. \/ o = [ok |-> FALSE, s |-> s]
      \/ \E g \in grow_slab_list(p) :
           \E a \in memory_allocate(SetClass(s, id, g.p), len) :
             o = [ok |-> a.ok, s |-> IF a.ok THEN AddPage(a.s, id) ELSE a.s]
  BY DEF do_slabs_newslab
<1> QED
  BY <1>2, <1>3

(***************************************************************************)
(* do_slabs_alloc gives out a chunk of the class, and at most takes it off *)
(* the free list.                                                          *)
(***************************************************************************)
LEMMA AllocSlots ==
  ASSUME NEW s \in SlabState, NEW id, NEW bytes \in Nat,
         NEW given, NEW dropped,
         EndPageOK(s), ArraysOK(s), Partitioned(s, given, dropped),
         NEW o \in do_slabs_alloc(s, bytes, id)
  PROVE  /\ o.ret # NULL => id \in Classes /\ o.ret[1] = id
         /\ FreeChunks(o.s) \cup {o.ret} = FreeChunks(s) \cup {o.ret}
<1> SUFFICES ASSUME NEW j \in Classes
             PROVE  /\ o.ret # NULL => id \in Classes /\ o.ret[1] = id
                    /\ Range(o.s.slabclass[j].slots) \cup {o.ret} =
                         Range(s.slabclass[j].slots) \cup {o.ret}
  <2>1. 1 \in Classes
    BY SlabsAssumption DEF Classes, POWER_SMALLEST
  <2> QED
    BY <2>1 DEF FreeChunks
<1>0. ASSUME NEW m, NEW i \in Classes, m \in SlabState, EndPageOK(m),
             m.slabclass[i].end_page_ptr # NULL
      PROVE  LET n == FromPageEnd(m, bytes, i) IN
             n.ret[1] = i /\ n.s.slabclass[j].slots = m.slabclass[j].slots
  <2>1. FromPageEnd(m, bytes, i).ret[1] = i
    <3>1. m.slabclass[i].end_page_ptr =
            <<i, m.slabclass[i].slabs, perslab[i] - m.slabclass[i].end_page_free + 1>>
      BY <1>0 DEF EndPageOK
    <3>2. FromPageEnd(m, bytes, i).ret = m.slabclass[i].end_page_ptr
      BY DEF FromPageEnd
    <3> QED
      BY <3>1, <3>2
  <2>2. FromPageEnd(m, bytes, i).s.slabclass[j].slots = m.slabclass[j].slots
    <3>1. m.slabclass[i] \in SlabClass
      BY <1>0 DEF SlabState
    <3>2. \E q : q.slots = m.slabclass[i].slots /\ FromPageEnd(m, bytes, i).s = SetClass(m, i, q)
      BY <3>1 DEF FromPageEnd, SlabClass
    <3> QED
      BY <1>0, <3>2, SetClassView
  <2> QED
    BY <2>1, <2>2
<1>1. CASE id \notin Classes
  BY <1>1 DEF do_slabs_alloc
<1>2. CASE id \in Classes /\ s.slabclass[id].slots # <<>>
  <2> DEFINE p == s.slabclass[id]
             q == SubSeq(p.slots, 1, Len(p.slots) - 1)
             n == Len(p.slots)
  <2>1. o = FromFreeList(s, bytes, id)
    BY <1>2 DEF do_slabs_alloc
  <2>2. p \in SlabClass /\ p.slots \in Seq(Chunk) /\ n \in Nat \ {0} /\ IsInjective(p.slots)
    <3>1. p \in SlabClass
      BY <1>2 DEF SlabState
    <3>2. p.slots \in Seq(Chunk)
      BY <3>1 DEF SlabClass
    <3>3. n \in Nat \ {0}
      <4> PICK l : l = p.slots
        OBVIOUS
      <4>1. l \in Seq(Chunk) /\ l # <<>>
        BY <1>2, <3>2
      <4>2. Len(l) \in Nat /\ Len(l) # 0
        BY <4>1
      <4> QED BY <4>2
    <3>4. IsInjective(p.slots)
      BY <1>2 DEF Partitioned
    <3> QED
      BY <3>1, <3>2, <3>3, <3>4
  <2>3. /\ DOMAIN p.slots = 1 .. n
        /\ DOMAIN q = 1 .. (n - 1) /\ \A i \in 1 .. (n - 1) : q[i] = p.slots[i]
    BY <2>2
  <2>4. Range(p.slots) = Range(q) \cup {p.slots[n]}
    <3> HIDE DEF n, p, q
    <3> QED BY <2>2, <2>3, PopRange
  <2>5. /\ o.ret = p.slots[n]
        /\ o.s.slabclass[j].slots = IF j = id THEN q ELSE s.slabclass[j].slots
    BY <1>2, <2>1, <2>2 DEF FromFreeList, SetClass, SlabState, SlabClass
  <2>6. o.ret[1] = id
    BY <1>2, <2>1, FreeListLemma
  <2> QED
    BY <1>2, <2>4, <2>5, <2>6
<1>3. CASE id \in Classes /\ s.slabclass[id].slots = <<>>
           /\ s.slabclass[id].end_page_ptr # NULL
  <2>1. o = FromPageEnd(s, bytes, id)
    BY <1>3 DEF do_slabs_alloc
  <2> QED
    BY <1>0, <1>3, <2>1
<1>4. CASE id \in Classes /\ s.slabclass[id].slots = <<>>
           /\ s.slabclass[id].end_page_ptr = NULL
  <2>1. PICK m \in do_slabs_newslab(s, id) :
          o = IF m.ok THEN FromPageEnd(m.s, bytes, id)
                      ELSE [ret |-> NULL, s |-> m.s]
    BY <1>4 DEF do_slabs_alloc
  <2>2. /\ m.s \in SlabState
        /\ EndPageOK(m.s)
        /\ m.ok => m.s.slabclass[id].end_page_ptr # NULL
    BY <1>4, NewSlabLemma
  <2>3. m.s.slabclass[j].slots = s.slabclass[j].slots
    BY <1>4, NewSlabSlots
  <2>4. CASE ~m.ok
    <3>1. o.ret = NULL /\ o.s = m.s
      BY <2>1, <2>4
    <3> QED
      BY <2>3, <3>1
  <2>5. CASE m.ok
    <3>1. o = FromPageEnd(m.s, bytes, id)
      BY <2>1, <2>5
    <3>2. o.ret[1] = id /\ o.s.slabclass[j].slots = m.s.slabclass[j].slots
      BY <1>0, <1>4, <2>2, <2>5, <3>1
    <3> QED
      BY <1>4, <2>3, <3>2
  <2> QED
    BY <2>4, <2>5
<1> QED
  BY <1>1, <1>2, <1>3, <1>4

LEMMA AppendRange ==
  ASSUME NEW S, NEW a \in Seq(S), NEW c \in S
  PROVE  Range(Append(a, c)) = Range(a) \cup {c}
<1> DEFINE n == Len(a) + 1
           b == Append(a, c)
<1>1. /\ n \in Nat \ {0}
      /\ DOMAIN a = 1 .. (n - 1)
      /\ DOMAIN b = 1 .. n
      /\ b[n] = c
      /\ \A i \in 1 .. (n - 1) : b[i] = a[i]
  OBVIOUS
<1> HIDE DEF n, b
<1>2. 1 .. n = (1 .. (n - 1)) \cup {n} /\ n \notin 1 .. (n - 1)
  BY <1>1, LastIndex
<1> QED
  BY <1>1, <1>2 DEF Range, b

\* do_slabs_free puts the chunk on the free list of its class, or fails to.
LEMMA FreeSlots ==
  ASSUME NEW s \in SlabState, ArraysOK(s), NEW c \in Chunk, NEW bytes \in Nat,
         NEW t \in do_slabs_free(s, c, bytes, c[1])
  PROVE  \/ t = s /\ HeapFails # {FALSE}
         \/ \A x : x \in FreeChunks(t) <=> x \in FreeChunks(s) \/ x = c
<1> DEFINE id == c[1]
           p == s.slabclass[id]
<1>1. id \in Classes /\ p \in SlabClass /\ p.slots \in Seq(Chunk)
  BY DEF Chunk, SlabState, SlabClass
<1>2. \/ t = s /\ HeapFails # {FALSE}
      \/ \E total : t = SetClass(s, id, [p EXCEPT !.slots = Append(p.slots, c),
                               !.sl_total = total, !.requested = p.requested - bytes])
  <2>1. HeapFails \subseteq BOOLEAN
    BY SlabsAssumption
  <2> QED BY <1>1, <2>1 DEF do_slabs_free
<1>3. Range(Append(p.slots, c)) = Range(p.slots) \cup {c}
  BY <1>1, AppendRange
<1>4. ASSUME NEW total, t = SetClass(s, id, [p EXCEPT !.slots = Append(p.slots, c),
                               !.sl_total = total, !.requested = p.requested - bytes])
      PROVE  \A j \in Classes : t.slabclass[j].slots =
               IF j = id THEN Append(p.slots, c) ELSE s.slabclass[j].slots
  BY <1>1, <1>4 DEF SetClass, SlabState, SlabClass
<1> QED
  <2>1. CASE t = s /\ HeapFails # {FALSE}
    BY <2>1
  <2>2. ASSUME NEW total, t = SetClass(s, id, [p EXCEPT !.slots = Append(p.slots, c),
                               !.sl_total = total, !.requested = p.requested - bytes])
        PROVE  \A x : x \in FreeChunks(t) <=> x \in FreeChunks(s) \/ x = c
    <3>1. \A i \in Classes : Range(t.slabclass[i].slots) =
            IF i = id THEN Range(s.slabclass[i].slots) \cup {c} ELSE Range(s.slabclass[i].slots)
      BY <1>3, <1>4, <2>2
    <3> HIDE DEF id, p
    <3> QED
      BY <1>1, <3>1 DEF FreeChunks
  <2> QED BY <1>2, <2>1, <2>2

-----------------------------------------------------------------------------

\* The chunk bookkeeping is inductive as a whole and not part by part.
Bookkeeping == TypeOK /\ EndPageExact /\ ArraysInBounds /\ ChunksPartitioned

\* The allocator of the constructor has no page, and so no chunk.
LEMMA InitBookkeeping == Init => Bookkeeping
<1> SUFFICES ASSUME Init PROVE Bookkeeping
  OBVIOUS
<1> DEFINE z == [slots |-> <<>>, sl_total |-> 0, end_page_ptr |-> NULL,
                 end_page_free |-> 0, slabs |-> 0, list_size |-> 0,
                 requested |-> 0]
<1>1. slabs = InitSlabs(initial_malloc) /\ out = <<>> /\ lost = <<>>
  BY DEF Init
<1>2. DOMAIN out = {} /\ DOMAIN lost = {}
  BY <1>1
<1>3. z \in SlabClass
  BY DEF SlabClass
<1>4. /\ slabs.slabclass = [id \in Classes |-> z]
      /\ slabs.mem_malloced = initial_malloc
      /\ slabs.mem_current = 0
      /\ slabs.mem_avail = IF preallocate THEN mem_limit ELSE 0
  BY <1>1 DEF InitSlabs
<1>5. /\ z.slots = <<>>
      /\ z.sl_total = 0
      /\ z.end_page_ptr = NULL
      /\ z.end_page_free = 0
      /\ z.slabs = 0
      /\ z.list_size = 0
  OBVIOUS
<1> HIDE DEF z
<1>6. TypeOK
  <2>1. slabs \in SlabState
    BY <1>1, <1>3, SlabsAssumption, SlabAllocatorAssumption
       DEF InitSlabs, SlabState, z
  <2> QED
    BY <1>2, <2>1 DEF TypeOK
<1>7. EndPageExact
  <2>1. \A id \in Classes : 0 <= perslab[id]
    BY SlabsAssumption
  <2> QED
    BY <1>4, <1>5, <2>1 DEF EndPageExact, EndPageOK
<1>8. ArraysInBounds
  BY <1>4, <1>5 DEF ArraysInBounds, ArraysOK
<1>9. ChunksPartitioned
  <2>1. \A id \in Classes : Carved(slabs, id) = {}
    BY <1>4, <1>5 DEF Carved
  <2>2. Range(z.slots) = {} /\ IsInjective(z.slots)
    BY <1>5 DEF Range, IsInjective
  <2> QED
    BY <1>2, <1>4, <2>1, <2>2 DEF ChunksPartitioned, Partitioned
<1> QED
  BY <1>6, <1>7, <1>8, <1>9 DEF Bookkeeping

\* slabs_alloc keeps the bookkeeping, and adds at most one page.
LEMMA AllocStep ==
  ASSUME Bookkeeping, NEW bytes \in Requests, slabs_alloc(bytes)
  PROVE  /\ Bookkeeping'
         /\ \/ SamePages(slabs, slabs')
            \/ \E c \in Classes : OnePageMore(slabs, slabs', c)
<1> DEFINE id == slabs_clsid(bytes)
<1>1. bytes \in Nat
  BY SlabAllocatorAssumption
<1>2. /\ slabs \in SlabState
      /\ EndPageOK(slabs)
      /\ ArraysOK(slabs)
      /\ Partitioned(slabs, DOMAIN out, DOMAIN lost)
  BY DEF Bookkeeping, TypeOK, EndPageExact, ArraysInBounds, ChunksPartitioned
<1>3. PICK o \in do_slabs_alloc(slabs, bytes, id) :
        /\ slabs' = o.s
        /\ out' = IF o.ret = NULL THEN out ELSE With(out, o.ret, bytes)
  BY DEF slabs_alloc
<1>4. lost' = lost
  BY DEF slabs_alloc
<1> HIDE DEF id
<1>5. /\ o.s \in SlabState
      /\ EndPageOK(o.s)
      /\ ArraysOK(o.s)
      /\ \/ SamePages(slabs, o.s)
         \/ \E c \in Classes : OnePageMore(slabs, o.s, c)
      /\ \/ o.ret = NULL /\ Partitioned(o.s, DOMAIN out, DOMAIN lost)
         \/ /\ o.ret \in Chunk
            /\ o.ret \notin DOMAIN out \cup DOMAIN lost
            /\ Partitioned(o.s, DOMAIN out \cup {o.ret}, DOMAIN lost)
  BY <1>1, <1>2, AllocLemma
<1>6. CASE o.ret = NULL
  <2>1. out' = out /\ Partitioned(o.s, DOMAIN out, DOMAIN lost)
    BY <1>3, <1>5, <1>6, SlabsAssumption
  <2> QED
    BY <1>3, <1>4, <1>5, <2>1
       DEF Bookkeeping, TypeOK, EndPageExact, ArraysInBounds, ChunksPartitioned
<1>7. CASE o.ret # NULL
  <2>1. /\ out' = With(out, o.ret, bytes)
        /\ o.ret \in Chunk
        /\ Partitioned(o.s, DOMAIN out \cup {o.ret}, DOMAIN lost)
    BY <1>3, <1>5, <1>7
  <2>2. /\ DOMAIN out' = DOMAIN out \cup {o.ret}
        /\ \A c \in DOMAIN out' : out'[c] = IF c = o.ret THEN bytes ELSE out[c]
    BY <2>1 DEF With
  <2>3. TypeOK'
    BY <1>3, <1>4, <1>5, <2>1, <2>2 DEF Bookkeeping, TypeOK
  <2>4. ChunksPartitioned'
    BY <1>3, <1>4, <2>1, <2>2 DEF ChunksPartitioned
  <2> QED
    BY <1>3, <1>5, <2>3, <2>4 DEF Bookkeeping, EndPageExact, ArraysInBounds
<1> QED
  BY <1>3, <1>5, <1>6, <1>7

\* slabs_free keeps the bookkeeping, and adds no page.
LEMMA FreeStep ==
  ASSUME Bookkeeping, NEW c \in DOMAIN out, slabs_free(c)
  PROVE  Bookkeeping' /\ SamePages(slabs, slabs')
<1>1. /\ slabs \in SlabState
      /\ EndPageOK(slabs)
      /\ ArraysOK(slabs)
      /\ Partitioned(slabs, DOMAIN out, DOMAIN lost)
      /\ c \in Chunk
      /\ out[c] \in Nat
  BY SlabAllocatorAssumption
     DEF Bookkeeping, TypeOK, EndPageExact, ArraysInBounds, ChunksPartitioned
<1>2. PICK t \in do_slabs_free(slabs, c, out[c], c[1]) :
        /\ slabs' = t
        /\ lost' = IF t = slabs THEN With(lost, c, out[c]) ELSE lost
  BY DEF slabs_free
<1>3. /\ t \in SlabState
      /\ EndPageOK(t)
      /\ ArraysOK(t)
      /\ SamePages(slabs, t)
      /\ t = slabs => Partitioned(t, DOMAIN out \ {c}, DOMAIN lost \cup {c})
      /\ t # slabs => Partitioned(t, DOMAIN out \ {c}, DOMAIN lost)
  BY <1>1, FreeLemma
<1>4. /\ DOMAIN out' = DOMAIN out \ {c}
      /\ \A x \in DOMAIN out' : out'[x] = out[x]
  BY DEF slabs_free, Restrict
<1>5. DOMAIN lost' = IF t = slabs THEN DOMAIN lost \cup {c} ELSE DOMAIN lost
  BY <1>2 DEF With
<1>6. TypeOK'
  BY <1>1, <1>2, <1>3, <1>4, <1>5 DEF Bookkeeping, TypeOK
<1>7. ChunksPartitioned'
  BY <1>2, <1>3, <1>4, <1>5 DEF ChunksPartitioned
<1> QED
  BY <1>2, <1>3, <1>6, <1>7 DEF Bookkeeping, EndPageExact, ArraysInBounds

\* Every step keeps the bookkeeping, and adds at most one page.
LEMMA NextBookkeeping ==
  ASSUME Bookkeeping, [Next]_vars
  PROVE  /\ Bookkeeping'
         /\ \/ SamePages(slabs, slabs')
            \/ \E c \in Classes : OnePageMore(slabs, slabs', c)
<1>1. CASE Next
  BY <1>1, AllocStep, FreeStep DEF Next
<1>2. CASE UNCHANGED vars
  BY <1>2 DEF vars, Bookkeeping, TypeOK, EndPageExact, ArraysInBounds,
              ChunksPartitioned, SamePages
<1> QED
  BY <1>1, <1>2

\* Of every behaviour.
LEMMA AlwaysBookkeeping == Spec => []Bookkeeping
<1>1. Bookkeeping /\ [Next]_vars => Bookkeeping'
  BY NextBookkeeping
<1> QED
  BY InitBookkeeping, <1>1, PTL DEF Spec

(***************************************************************************)
(* The fields of the allocator keep their types, whatever the sizes of the *)
(* slab classes, the memory limit, the requests and the heap's failures.   *)
(***************************************************************************)
THEOREM TypeCorrect == Spec => []TypeOK
<1>1. Bookkeeping => TypeOK
  BY DEF Bookkeeping
<1> QED
  BY AlwaysBookkeeping, <1>1, PTL

(***************************************************************************)
(* The end-of-page pointer is never a chunk of an exhausted or of another  *)
(* page, and never null while the newest page has chunks left.             *)
(***************************************************************************)
THEOREM EndPageCorrect == Spec => []EndPageExact
<1>1. Bookkeeping => EndPageExact
  BY DEF Bookkeeping
<1> QED
  BY AlwaysBookkeeping, <1>1, PTL

(***************************************************************************)
(* No chunk is ever handed to two clients, or both free and in use, and    *)
(* none is mislaid: do_slabs_alloc and do_slabs_free in any legal order.   *)
(***************************************************************************)
THEOREM NoChunkTwice == Spec => []ChunksPartitioned
<1>1. Bookkeeping => ChunksPartitioned
  BY DEF Bookkeeping
<1> QED
  BY AlwaysBookkeeping, <1>1, PTL

(***************************************************************************)
(* slots[sl_curr++] and slab_list[slabs++] never write past the arrays.    *)
(***************************************************************************)
THEOREM ArraysCorrect == Spec => []ArraysInBounds
<1>1. Bookkeeping => ArraysInBounds
  BY DEF Bookkeeping
<1> QED
  BY AlwaysBookkeeping, <1>1, PTL

\* One more page keeps the bound: it fits, or it starts a class.
LEMMA BoundStep ==
  ASSUME TypeOK, TypeOK', MemoryBounded,
         NEW c \in Classes, OnePageMore(slabs, slabs', c)
  PROVE  MemoryBounded'
<1> DEFINE n == Cardinality(Started)
           m == Cardinality(Started')
<1>1. IsFiniteSet(Classes)
  BY FS_Interval, SlabsAssumption DEF Classes, POWER_SMALLEST
<1>2. Started \subseteq Classes /\ Started' \subseteq Classes
  BY DEF Started
<1>3. IsFiniteSet(Started) /\ IsFiniteSet(Started')
  BY <1>1, <1>2, FS_Subset
<1>4. n \in Nat /\ m \in Nat
  BY <1>3, FS_CardinalityType
<1>5. /\ slabs.mem_malloced \in Nat
      /\ \A j \in Classes : slabs.slabclass[j].slabs \in Nat
  BY DEF TypeOK, SlabState, SlabClass
<1>6. Started' = Started \cup {c}
  BY <1>5 DEF Started, OnePageMore
<1>7. slabs.slabclass[c].slabs = 0 => m = n + 1
  <2>1. slabs.slabclass[c].slabs = 0 => c \notin Started
    BY DEF Started
  <2> QED
    BY <1>3, <1>6, <2>1, FS_AddElement
<1>8. Started \subseteq Started' => n <= m
  BY <1>3, FS_Subset
<1>9. PageLen(c) \in Nat /\ PageLen(c) <= item_size_max
  BY PageLenType
<1>10. /\ item_size_max \in Nat
       /\ mem_limit \in Nat
       /\ Ceiling \in Nat
       /\ mem_limit <= Ceiling
  BY SlabsAssumption, SlabAllocatorAssumption DEF Ceiling
<1>11. slabs'.mem_malloced = slabs.mem_malloced + PageLen(c)
  BY DEF OnePageMore
<1>12. item_size_max * n \in Nat /\ item_size_max * m \in Nat
  BY <1>4, <1>10
<1> SUFFICES ASSUME mem_limit # 0
             PROVE  slabs'.mem_malloced <= Ceiling + item_size_max * m
  BY DEF MemoryBounded, Ceiling
<1>13. slabs.mem_malloced <= Ceiling + item_size_max * n
  BY DEF MemoryBounded
<1> HIDE DEF n, m
<1>14. CASE slabs.mem_malloced + PageLen(c) <= mem_limit
  <2> DEFINE y == item_size_max * m
  <2>1. y \in Nat
    BY <1>12
  <2> HIDE DEF y
  <2>2. slabs'.mem_malloced <= Ceiling + y
    BY <1>5, <1>9, <1>10, <1>11, <1>14, <2>1
  <2> QED
    BY <2>2 DEF y
<1>15. CASE slabs.slabclass[c].slabs = 0
  <2> DEFINE x == item_size_max * n
             y == item_size_max * m
  <2>1. y = x + item_size_max
    BY <1>4, <1>7, <1>10, <1>15
  <2>2. x \in Nat
    BY <1>12
  <2>3. slabs.mem_malloced <= Ceiling + x
    BY <1>13
  <2> HIDE DEF x, y
  <2>4. slabs'.mem_malloced <= Ceiling + y
    BY <1>5, <1>9, <1>10, <1>11, <2>1, <2>2, <2>3
  <2> QED
    BY <2>4 DEF y
<1> QED
  BY <1>14, <1>15 DEF OnePageMore

(***************************************************************************)
(* The memory limit holds up to one page for each class in use, which      *)
(* do_slabs_newslab grants regardless of the limit.                        *)
(***************************************************************************)
THEOREM MemoryLimit == Spec => []MemoryBounded
<1>1. Init => MemoryBounded
  <2> SUFFICES ASSUME Init PROVE MemoryBounded
    OBVIOUS
  <2>1. slabs.mem_malloced = initial_malloc
    BY DEF Init, InitSlabs
  <2>2. Started = {}
    BY DEF Init, InitSlabs, Started
  <2>3. Cardinality(Started) = 0
    BY <2>2, FS_EmptySet
  <2>4. item_size_max * 0 = 0
    BY SlabsAssumption
  <2>5. initial_malloc <= Ceiling /\ Ceiling \in Nat
    BY SlabsAssumption, SlabAllocatorAssumption DEF Ceiling
  <2> QED
    BY <2>1, <2>3, <2>4, <2>5, SlabAllocatorAssumption DEF MemoryBounded
<1>2. Bookkeeping /\ MemoryBounded /\ [Next]_vars => MemoryBounded'
  <2> SUFFICES ASSUME Bookkeeping, MemoryBounded, [Next]_vars
               PROVE  MemoryBounded'
    OBVIOUS
  <2>1. TypeOK /\ TypeOK'
    BY NextBookkeeping DEF Bookkeeping
  <2>2. CASE SamePages(slabs, slabs')
    <3>1. Started' = Started /\ slabs'.mem_malloced = slabs.mem_malloced
      BY <2>2 DEF SamePages, Started
    <3> QED
      BY <3>1 DEF MemoryBounded, Ceiling
  <2>3. CASE \E c \in Classes : OnePageMore(slabs, slabs', c)
    BY <2>1, <2>3, BoundStep
  <2> QED
    BY <2>2, <2>3, NextBookkeeping
<1> QED
  BY AlwaysBookkeeping, <1>1, <1>2, PTL DEF Spec

-----------------------------------------------------------------------------

(***************************************************************************)
(* slabs_clsid: if it finds a class, that is the first with room enough.   *)
(***************************************************************************)
LEMMA ClsidLemma ==
  ASSUME NEW bytes \in Nat, slabs_clsid(bytes) # 0
  PROVE  LET id == slabs_clsid(bytes) IN
         /\ id \in Classes /\ bytes <= size[id]
         /\ \A smaller \in Classes : smaller < id => bytes > size[smaller]
<1> DEFINE First(id) == bytes <= size[id] /\ \A smaller \in Classes :
                                              smaller < id => bytes > size[smaller]
           Fit == {id \in Classes : bytes <= size[id]}
           R == OpToRel(<, Nat)
<1>1. power_largest \in Nat \ {0} /\ size \in [Classes -> Nat \ {0}] /\ Classes = 1 .. power_largest
  BY SlabsAssumption DEF Classes, POWER_SMALLEST
<1>2. bytes <= size[power_largest] /\ slabs_clsid(bytes) = CHOOSE id \in Classes : First(id)
  BY <1>1 DEF slabs_clsid
<1>3. power_largest \in Fit /\ Fit \subseteq Nat
  BY <1>1, <1>2
<1>4. IsWellFoundedOn(R, Nat)
  BY NatLessThanWellFounded
<1>5. \A x, y \in Nat : <<x, y>> \in R <=> x < y
  BY DEF OpToRel
<1> HIDE DEF R
<1>6. PICK m \in Fit : \A n \in Fit : ~ (<<n, m>> \in R)
  <2> HIDE DEF Fit
  <2> QED BY <1>3, <1>4, WFMin
<1>7. First(m)
  <2> SUFFICES ASSUME NEW smaller \in Classes, smaller < m PROVE bytes > size[smaller]
    BY <1>6
  <2>1. smaller \notin Fit
    BY <1>1, <1>3, <1>5, <1>6
  <2> QED
    BY <1>1, <2>1
<1>8. slabs_clsid(bytes) \in Classes /\ First(slabs_clsid(bytes))
  <2> HIDE DEF First
  <2> QED BY <1>2, <1>6, <1>7
<1> QED
  BY <1>8

(***************************************************************************)
(* For any table of classes, a client never gets a chunk too short for its *)
(* request, nor one from a class when a smaller one would do.              *)
(***************************************************************************)
THEOREM ChunksAreTightest == Spec => []TightestClass
<1>1. Init => TightestClass
  BY DEF Init, TightestClass
<1>2. Bookkeeping /\ TightestClass /\ [Next]_vars => TightestClass'
  <2> SUFFICES ASSUME Bookkeeping, TightestClass, [Next]_vars
               PROVE  TightestClass'
    OBVIOUS
  <2>1. ASSUME NEW bytes \in Requests, slabs_alloc(bytes) PROVE TightestClass'
    <3> DEFINE id == slabs_clsid(bytes)
    <3>1. bytes \in Nat /\ id # 0
      BY <2>1, SlabAllocatorAssumption DEF slabs_alloc
    <3>2. /\ id \in Classes /\ bytes <= size[id]
          /\ \A smaller \in Classes : smaller < id => bytes > size[smaller]
      BY <3>1, ClsidLemma
    <3>3. PICK o \in do_slabs_alloc(slabs, bytes, id) :
            out' = IF o.ret = NULL THEN out ELSE With(out, o.ret, bytes)
      BY <2>1 DEF slabs_alloc
    <3> HIDE DEF id
    <3>4. o.ret # NULL => o.ret[1] = id
      BY <3>1, <3>3, AllocSlots
         DEF Bookkeeping, TypeOK, EndPageExact, ArraysInBounds, ChunksPartitioned
    <3>5. \A c \in DOMAIN out' : (c \in DOMAIN out /\ out'[c] = out[c])
                                 \/ (c[1] = id /\ out'[c] = bytes)
      BY <3>3, <3>4 DEF With
    <3> QED
      BY <3>2, <3>5 DEF TightestClass
  <2>2. ASSUME NEW c \in DOMAIN out, slabs_free(c) PROVE TightestClass'
    <3>1. /\ DOMAIN out' = DOMAIN out \ {c}
          /\ \A x \in DOMAIN out' : out'[x] = out[x]
      BY <2>2 DEF slabs_free, Restrict
    <3> QED
      BY <3>1 DEF TightestClass
  <2>3. CASE UNCHANGED vars
    BY <2>3 DEF vars, TightestClass
  <2> QED
    BY <2>1, <2>2, <2>3 DEF Next
<1> QED
  BY AlwaysBookkeeping, <1>1, <1>2, PTL DEF Spec

-----------------------------------------------------------------------------

(***************************************************************************)
(* Sums over finite sets, by the least counterexample: of the finite sets  *)
(* that are wrong in some way one is smallest.                             *)
(***************************************************************************)
LEMMA SmallestSet ==
  ASSUME NEW B, B # {}, \A s \in B : IsFiniteSet(s)
  PROVE  \E s \in B : \A t \in B : Cardinality(t) >= Cardinality(s)
<1> DEFINE N == {Cardinality(s) : s \in B}
           R == OpToRel(<, Nat)
<1>1. N # {} /\ N \subseteq Nat
  BY FS_CardinalityType
<1>2. IsWellFoundedOn(R, Nat)
  BY NatLessThanWellFounded
<1>3. \A x, y \in Nat : <<x, y>> \in R <=> x < y
  BY DEF OpToRel
<1> HIDE DEF R
<1>4. PICK m \in N : \A n \in N : ~ (<<n, m>> \in R)
  <2> HIDE DEF N
  <2> QED BY <1>1, <1>2, WFMin
<1>5. PICK s \in B : m = Cardinality(s)
  BY <1>4
<1>6. \A t \in B : Cardinality(t) \in N
  OBVIOUS
<1> HIDE DEF N
<1>7. ASSUME NEW t \in B PROVE Cardinality(t) >= Cardinality(s)
  <2>1. Cardinality(t) \in Nat /\ m \in Nat
    BY <1>1, <1>4, <1>6
  <2>2. ~ (Cardinality(t) < m)
    BY <1>3, <1>4, <1>6, <2>1
  <2> QED BY <1>5, <2>1, <2>2
<1> QED
  BY <1>7

\* The element that a sum takes first.
FirstOf(s) == CHOOSE x \in s : TRUE

LEMMA FirstIsTaken ==
  ASSUME NEW s, s # {}, IsFiniteSet(s)
  PROVE  /\ FirstOf(s) \in s /\ IsFiniteSet(s \ {FirstOf(s)})
         /\ Cardinality(s \ {FirstOf(s)}) < Cardinality(s)
<1>1. FirstOf(s) \in s
  BY DEF FirstOf
<1> QED
  BY <1>1, FS_RemoveElement, FS_CardinalityType

\* g adds up the values of f over the subsets of S in the set D.
Adds(f, D, g) ==
  g = [s \in D |-> IF s = {} THEN 0 ELSE f[FirstOf(s)] + g[s \ {FirstOf(s)}]]

AddsUp(f, S, g) == Adds(f, SUBSET S, g)

LEMMA SumIs ==
  ASSUME NEW f, NEW S
  PROVE  SumFunctionOnSet(f, S) = (CHOOSE g : AddsUp(f, S, g))[S]
BY DEF SumFunctionOnSet, FoldFunctionOnSet, MapThenFoldSet, AddsUp, Adds, FirstOf

\* Two such functions agree on the finite sets that both are defined for.
LEMMA AddsOnce ==
  ASSUME NEW f, NEW C, NEW D, NEW g, NEW h, AddsUp(f, C, g), AddsUp(f, D, h),
         C \subseteq D, IsFiniteSet(C)
  PROVE  g[C] = h[C]
<1> DEFINE B == {s \in SUBSET C : g[s] # h[s]}
<1>1. ASSUME B # {} PROVE FALSE
  <2>1. \A s \in B : IsFiniteSet(s)
    BY FS_Subset
  <2>2. PICK s \in B : \A t \in B : Cardinality(t) >= Cardinality(s)
    <3> HIDE DEF B
    <3> QED BY <1>1, <2>1, SmallestSet
  <2>3. s # {}
    BY <2>2 DEF AddsUp, Adds
  <2>4. /\ FirstOf(s) \in s /\ IsFiniteSet(s) /\ IsFiniteSet(s \ {FirstOf(s)})
        /\ Cardinality(s \ {FirstOf(s)}) < Cardinality(s)
    BY <2>1, <2>3, FirstIsTaken
  <2>5. s \ {FirstOf(s)} \notin B
    <3> HIDE DEF B
    <3> QED BY <2>2, <2>4, FS_CardinalityType
  <2>6. g[s \ {FirstOf(s)}] = h[s \ {FirstOf(s)}]
    BY <2>5
  <2>7. s \in SUBSET C /\ s \in SUBSET D
    OBVIOUS
  <2>8. g[s] = f[FirstOf(s)] + g[s \ {FirstOf(s)}] /\ h[s] = f[FirstOf(s)] + h[s \ {FirstOf(s)}]
    BY <2>3, <2>7 DEF AddsUp, Adds
  <2> QED BY <2>6, <2>8
<1> QED
  BY <1>1

\* And there is one.
SmallSets(S, n) == {s \in SUBSET S : Cardinality(s) <= n}

LEMMA AddsOneMore ==
  ASSUME NEW f, NEW S, IsFiniteSet(S), NEW n \in Nat, NEW g, Adds(f, SmallSets(S, n), g)
  PROVE  \E h : Adds(f, SmallSets(S, n + 1), h)
<1> DEFINE Step(k, s) == IF s = {} THEN 0 ELSE f[FirstOf(s)] + k[s \ {FirstOf(s)}]
           h == [s \in SmallSets(S, n + 1) |-> Step(g, s)]
<1>1. ASSUME NEW s \in SmallSets(S, n), Cardinality(s) \in Nat PROVE h[s] = g[s]
  <2>1. s \in SmallSets(S, n + 1)
    BY <1>1 DEF SmallSets
  <2> QED BY <2>1 DEF Adds
<1>2. ASSUME NEW s \in SmallSets(S, n + 1), s # {} PROVE h[s \ {FirstOf(s)}] = g[s \ {FirstOf(s)}]
  <2>1. IsFiniteSet(s)
    BY FS_Subset DEF SmallSets
  <2>2. /\ IsFiniteSet(s \ {FirstOf(s)})
        /\ Cardinality(s \ {FirstOf(s)}) < Cardinality(s)
    BY <1>2, <2>1, FirstIsTaken
  <2>3. s \ {FirstOf(s)} \in SmallSets(S, n) /\ Cardinality(s \ {FirstOf(s)}) \in Nat
    BY <2>1, <2>2, FS_CardinalityType DEF SmallSets
  <2> HIDE DEF h
  <2> QED BY <1>1, <2>3
<1>3. \A s \in SmallSets(S, n + 1) : Step(g, s) = Step(h, s)
  <2> HIDE DEF h
  <2> QED BY <1>2
<1>4. h = [s \in SmallSets(S, n + 1) |-> Step(h, s)]
  <2>1. [s \in SmallSets(S, n + 1) |-> Step(g, s)] = [s \in SmallSets(S, n + 1) |-> Step(h, s)]
    <3> HIDE DEF h, Step
    <3> QED BY <1>3
  <2> QED BY <2>1
<1> HIDE DEF h
<1> QED
  BY <1>4 DEF Adds

LEMMA AddsExist ==
  ASSUME NEW f, NEW S, IsFiniteSet(S)
  PROVE  \E g : AddsUp(f, S, g)
<1> DEFINE B == {n \in Nat : ~\E g : Adds(f, SmallSets(S, n), g)}
           R == OpToRel(<, Nat)
<1>1. ASSUME B # {} PROVE FALSE
  <2>1. IsWellFoundedOn(R, Nat)
    BY NatLessThanWellFounded
  <2>2. \A x, y \in Nat : <<x, y>> \in R <=> x < y
    BY DEF OpToRel
  <2>3. B \subseteq Nat
    OBVIOUS
  <2> HIDE DEF R
  <2>4. PICK m \in B : \A n \in B : ~ (<<n, m>> \in R)
    <3> HIDE DEF B
    <3> QED BY <1>1, <2>1, <2>3, WFMin
  <2>5. m # 0
    <3>1. SmallSets(S, 0) = {{}}
      <4>1. ASSUME NEW s \in SUBSET S, Cardinality(s) <= 0 PROVE s = {}
        BY <4>1, FS_Subset, FS_CardinalityType, FS_EmptySet
      <4>2. {} \in SmallSets(S, 0)
        BY FS_EmptySet DEF SmallSets
      <4>3. \A s \in SmallSets(S, 0) : s = {}
        BY <4>1 DEF SmallSets
      <4> QED BY <4>2, <4>3
    <3>2. Adds(f, SmallSets(S, 0), [s \in {{}} |-> 0])
      BY <3>1 DEF Adds
    <3> QED BY <3>2
  <2>6. m - 1 \in Nat /\ m - 1 < m
    BY <2>5
  <2>7. m - 1 \notin B
    <3> HIDE DEF B
    <3> QED BY <2>2, <2>3, <2>4, <2>6
  <2>8. PICK g : Adds(f, SmallSets(S, m - 1), g)
    BY <2>6, <2>7
  <2>9. \E h : Adds(f, SmallSets(S, (m - 1) + 1), h)
    BY <2>6, <2>8, AddsOneMore
  <2>10. (m - 1) + 1 = m
    BY <2>6
  <2> QED BY <2>9, <2>10
<1>2. SmallSets(S, Cardinality(S)) = SUBSET S
  <2>1. \A s \in SUBSET S : Cardinality(s) <= Cardinality(S)
    BY FS_Subset
  <2> QED BY <2>1 DEF SmallSets
<1>3. Cardinality(S) \in Nat
  BY FS_CardinalityType
<1>4. \E g : Adds(f, SmallSets(S, Cardinality(S)), g)
  BY <1>1, <1>3
<1> QED
  BY <1>2, <1>4 DEF AddsUp

LEMMA SumAdds ==
  ASSUME NEW f, NEW S, IsFiniteSet(S), NEW g, AddsUp(f, S, g)
  PROVE  SumFunctionOnSet(f, S) = g[S]
<1> DEFINE h == CHOOSE k : AddsUp(f, S, k)
<1>1. AddsUp(f, S, h)
  OBVIOUS
<1>2. SumFunctionOnSet(f, S) = h[S]
  BY SumIs
<1> HIDE DEF h
<1> QED
  BY <1>1, <1>2, AddsOnce

LEMMA SumEmpty == \A f : SumFunctionOnSet(f, {}) = 0
<1> TAKE f
<1>1. PICK g : AddsUp(f, {}, g)
  BY AddsExist, FS_EmptySet
<1>2. g[{}] = 0
  BY <1>1 DEF AddsUp, Adds
<1> QED
  BY <1>1, <1>2, SumAdds, FS_EmptySet

LEMMA SumFirst ==
  ASSUME NEW f, NEW S, IsFiniteSet(S), S # {}
  PROVE  SumFunctionOnSet(f, S) = f[FirstOf(S)] + SumFunctionOnSet(f, S \ {FirstOf(S)})
<1> DEFINE T == S \ {FirstOf(S)}
<1>1. IsFiniteSet(T) /\ T \subseteq S
  BY FirstIsTaken
<1>2. PICK g : AddsUp(f, S, g)
  BY AddsExist
<1>3. PICK h : AddsUp(f, T, h)
  BY <1>1, AddsExist
<1>4. SumFunctionOnSet(f, S) = g[S] /\ SumFunctionOnSet(f, T) = h[T]
  <2> HIDE DEF T
  <2> QED BY <1>1, <1>2, <1>3, SumAdds
<1>5. ASSUME NEW C, NEW D, C \subseteq D, IsFiniteSet(C), AddsUp(f, C, h), AddsUp(f, D, g)
      PROVE  h[C] = g[C]
  BY <1>5, AddsOnce
<1>7. h[T] = g[T]
  <2> HIDE DEF T
  <2> QED BY <1>1, <1>2, <1>3, <1>5
<1>6. g[S] = f[FirstOf(S)] + g[T]
  BY <1>2 DEF AddsUp, Adds
<1> QED
  BY <1>4, <1>6, <1>7

\* A sum of integers is one; sums depend on the values summed and no more.
LEMMA SumType ==
  ASSUME NEW f, NEW S, IsFiniteSet(S), \A x \in S : f[x] \in Int
  PROVE  SumFunctionOnSet(f, S) \in Int
<1> DEFINE B == {s \in SUBSET S : SumFunctionOnSet(f, s) \notin Int}
<1>1. ASSUME B # {} PROVE FALSE
  <2>1. \A s \in B : IsFiniteSet(s)
    BY FS_Subset
  <2>2. PICK s \in B : \A t \in B : Cardinality(t) >= Cardinality(s)
    <3> HIDE DEF B
    <3> QED BY <1>1, <2>1, SmallestSet
  <2>3. s # {}
    BY <2>2, SumEmpty
  <2>4. /\ FirstOf(s) \in s /\ IsFiniteSet(s) /\ IsFiniteSet(s \ {FirstOf(s)})
        /\ Cardinality(s \ {FirstOf(s)}) < Cardinality(s)
    BY <2>1, <2>3, FirstIsTaken
  <2>5. s \ {FirstOf(s)} \notin B
    <3> HIDE DEF B
    <3> QED BY <2>2, <2>4, FS_CardinalityType
  <2>6. SumFunctionOnSet(f, s) = f[FirstOf(s)] + SumFunctionOnSet(f, s \ {FirstOf(s)})
    BY <2>3, <2>4, SumFirst
  <2> QED BY <2>4, <2>5, <2>6
<1> QED
  BY <1>1

LEMMA SumSame ==
  ASSUME NEW f, NEW g, NEW S, IsFiniteSet(S), \A x \in S : f[x] = g[x]
  PROVE  SumFunctionOnSet(f, S) = SumFunctionOnSet(g, S)
<1> DEFINE B == {s \in SUBSET S : SumFunctionOnSet(f, s) # SumFunctionOnSet(g, s)}
<1>1. ASSUME B # {} PROVE FALSE
  <2>1. \A s \in B : IsFiniteSet(s)
    BY FS_Subset
  <2>2. PICK s \in B : \A t \in B : Cardinality(t) >= Cardinality(s)
    <3> HIDE DEF B
    <3> QED BY <1>1, <2>1, SmallestSet
  <2>3. s # {}
    BY <2>2, SumEmpty
  <2>4. /\ FirstOf(s) \in s /\ IsFiniteSet(s) /\ IsFiniteSet(s \ {FirstOf(s)})
        /\ Cardinality(s \ {FirstOf(s)}) < Cardinality(s)
    BY <2>1, <2>3, FirstIsTaken
  <2>5. s \ {FirstOf(s)} \notin B
    <3> HIDE DEF B
    <3> QED BY <2>2, <2>4, FS_CardinalityType
  <2>6. /\ SumFunctionOnSet(f, s) = f[FirstOf(s)] + SumFunctionOnSet(f, s \ {FirstOf(s)})
        /\ SumFunctionOnSet(g, s) = g[FirstOf(s)] + SumFunctionOnSet(g, s \ {FirstOf(s)})
    BY <2>3, <2>4, SumFirst
  <2> QED BY <2>4, <2>5, <2>6
<1> QED
  BY <1>1

\* One element more, whichever is taken first.
LEMMA SumMore ==
  ASSUME NEW f, NEW S, IsFiniteSet(S), \A x \in S : f[x] \in Int, NEW c \in S
  PROVE  SumFunctionOnSet(f, S) = f[c] + SumFunctionOnSet(f, S \ {c})
<1> DEFINE Sum(s) == SumFunctionOnSet(f, s)
           B == {s \in SUBSET S : \E x \in s : Sum(s) # f[x] + Sum(s \ {x})}
<1>1. ASSUME B # {} PROVE FALSE
  <2>1. \A s \in B : IsFiniteSet(s)
    BY FS_Subset
  <2>2. PICK s \in B : \A t \in B : Cardinality(t) >= Cardinality(s)
    <3> HIDE DEF B
    <3> QED BY <1>1, <2>1, SmallestSet
  <2>3. PICK x \in s : Sum(s) # f[x] + Sum(s \ {x})
    BY <2>2
  <2> DEFINE y == FirstOf(s)
  <2>4. y \in s /\ IsFiniteSet(s) /\ Sum(s) = f[y] + Sum(s \ {y})
    BY <2>1, <2>3, FirstIsTaken, SumFirst
  <2> HIDE DEF y
  <2>5. x # y
    BY <2>3, <2>4
  <2>6. ASSUME NEW z \in s PROVE s \ {z} \notin B
    <3>1. Cardinality(s \ {z}) = Cardinality(s) - 1 /\ Cardinality(s) \in Nat
      BY <2>4, FS_RemoveElement, FS_CardinalityType
    <3> HIDE DEF B
    <3> QED BY <2>2, <3>1
  <2>7. s \ {x} \in SUBSET S /\ s \ {y} \in SUBSET S /\ y \in s \ {x} /\ x \in s \ {y}
    BY <2>2, <2>3, <2>4, <2>5
  <2>8. Sum(s \ {x}) = f[y] + Sum((s \ {x}) \ {y}) /\ Sum(s \ {y}) = f[x] + Sum((s \ {y}) \ {x})
    <3> HIDE DEF Sum
    <3> QED BY <2>4, <2>6, <2>7
  <2>9. (s \ {x}) \ {y} = (s \ {y}) \ {x}
    OBVIOUS
  <2>10. Sum((s \ {x}) \ {y}) \in Int
    <3>1. IsFiniteSet((s \ {x}) \ {y}) /\ (s \ {x}) \ {y} \subseteq S
      BY <2>2, <2>4, FS_Subset
    <3> QED BY <3>1, SumType
  <2>11. f[x] \in Int /\ f[y] \in Int
    BY <2>2, <2>3, <2>4
  <2>12. \A i, j, n \in Int : i + (j + n) = j + (i + n)
    OBVIOUS
  <2>13. f[x] + Sum(s \ {x}) = f[y] + Sum(s \ {y})
    <3> HIDE DEF Sum
    <3>1. PICK n : n = Sum((s \ {x}) \ {y})
      OBVIOUS
    <3>2. n \in Int /\ Sum(s \ {x}) = f[y] + n /\ Sum(s \ {y}) = f[x] + n
      BY <2>8, <2>9, <2>10, <3>1
    <3> QED BY <2>11, <2>12, <3>2
  <2> HIDE DEF Sum
  <2> QED BY <2>3, <2>4, <2>13
<1>2. S \notin B
  BY <1>1
<1> QED
  BY <1>2

-----------------------------------------------------------------------------
(***************************************************************************)
(* The bytes that f records for the chunks of one class.                   *)
(***************************************************************************)
InClass(f, id) == {c \in DOMAIN f : c[1] = id}
Bytes(f, id) == SumFunctionOnSet(f, InClass(f, id))

\* Records that can be added up.
Record(f) == IsFiniteSet(DOMAIN f) /\ \A c \in DOMAIN f : f[c] \in Nat

LEMMA BytesType ==
  ASSUME NEW f, Record(f), NEW id
  PROVE  IsFiniteSet(InClass(f, id)) /\ Bytes(f, id) \in Int
<1>1. IsFiniteSet(InClass(f, id)) /\ \A c \in InClass(f, id) : f[c] \in Int
  BY FS_Subset DEF InClass, Record
<1> QED
  BY <1>1, SumType DEF Bytes

\* A chunk more.
LEMMA BytesWith ==
  ASSUME NEW f, Record(f), NEW c, c \notin DOMAIN f, NEW v \in Nat, NEW id
  PROVE  /\ Record(With(f, c, v))
         /\ Bytes(With(f, c, v), id) = IF c[1] = id THEN Bytes(f, id) + v ELSE Bytes(f, id)
<1> DEFINE g == With(f, c, v)
<1>1. DOMAIN g = DOMAIN f \cup {c} /\ g[c] = v /\ \A x \in DOMAIN f : g[x] = f[x]
  BY DEF With
<1> HIDE DEF g
<1>2. Record(g)
  BY <1>1, FS_AddElement DEF Record
<1>3. IsFiniteSet(InClass(g, id)) /\ Bytes(f, id) \in Int /\ IsFiniteSet(InClass(f, id))
  BY <1>2, BytesType
<1>4. SumFunctionOnSet(g, InClass(f, id)) = Bytes(f, id)
  <2>1. \A x \in InClass(f, id) : g[x] = f[x]
    BY <1>1 DEF InClass
  <2> QED BY <1>3, <2>1, SumSame DEF Bytes
<1>5. CASE c[1] = id
  <2>1. c \in InClass(g, id) /\ InClass(g, id) \ {c} = InClass(f, id)
    BY <1>1, <1>5 DEF InClass
  <2>2. \A x \in InClass(g, id) : g[x] \in Int
    BY <1>2 DEF InClass, Record
  <2>3. Bytes(g, id) = g[c] + SumFunctionOnSet(g, InClass(g, id) \ {c})
    BY <1>3, <2>1, <2>2, SumMore DEF Bytes
  <2>4. Bytes(g, id) = v + Bytes(f, id)
    BY <1>1, <1>4, <2>1, <2>3
  <2> QED BY <1>2, <1>3, <1>5, <2>4 DEF g
<1>6. CASE c[1] # id
  <2>1. InClass(g, id) = InClass(f, id)
    BY <1>1, <1>6 DEF InClass
  <2> QED BY <1>2, <1>4, <1>6, <2>1 DEF g, Bytes
<1> QED
  BY <1>5, <1>6

\* A chunk less.
LEMMA BytesWithout ==
  ASSUME NEW f, Record(f), NEW c \in DOMAIN f, NEW g, DOMAIN g = DOMAIN f \ {c},
         \A x \in DOMAIN g : g[x] = f[x], NEW id
  PROVE  /\ Record(g)
         /\ Bytes(g, id) = IF c[1] = id THEN Bytes(f, id) - f[c] ELSE Bytes(f, id)
<1>1. Record(g)
  BY FS_Subset DEF Record
<1>2. IsFiniteSet(InClass(g, id)) /\ Bytes(g, id) \in Int /\ IsFiniteSet(InClass(f, id))
  BY <1>1, BytesType
<1>3. SumFunctionOnSet(f, InClass(g, id)) = Bytes(g, id)
  <2>1. \A x \in InClass(g, id) : f[x] = g[x]
    BY DEF InClass
  <2> QED BY <1>2, <2>1, SumSame DEF Bytes
<1>4. CASE c[1] = id
  <2>1. c \in InClass(f, id) /\ InClass(f, id) \ {c} = InClass(g, id)
    BY <1>4 DEF InClass
  <2>2. \A x \in InClass(f, id) : f[x] \in Int
    BY DEF InClass, Record
  <2>3. Bytes(f, id) = f[c] + SumFunctionOnSet(f, InClass(f, id) \ {c})
    BY <1>2, <2>1, <2>2, SumMore DEF Bytes
  <2>4. Bytes(f, id) = f[c] + Bytes(g, id) /\ f[c] \in Int
    BY <1>3, <2>1, <2>2, <2>3
  <2> QED BY <1>1, <1>2, <1>4, <2>4
<1>5. CASE c[1] # id
  <2>1. InClass(g, id) = InClass(f, id)
    BY <1>5 DEF InClass
  <2> QED BY <1>1, <1>3, <1>5, <2>1 DEF Bytes
<1> QED
  BY <1>4, <1>5

-----------------------------------------------------------------------------

\* A new page asks for nothing.
LEMMA NewSlabRequested ==
  ASSUME NEW s \in SlabState, NEW id \in Classes, ArraysOK(s),
         NEW o \in do_slabs_newslab(s, id), NEW j \in Classes
  PROVE  o.s.slabclass[j].requested = s.slabclass[j].requested
<1> DEFINE p == s.slabclass[id]
           len == PageLen(id)
<1>1. p \in SlabClass /\ p.slabs <= p.list_size /\ len \in Nat
  BY PageLenType DEF SlabState, ArraysOK
<1>2. ASSUME NEW g \in grow_slab_list(p),
             NEW a \in memory_allocate(SetClass(s, id, g.p), len)
      PROVE  /\ a.s.slabclass[j].requested = s.slabclass[j].requested
             /\ AddPage(a.s, id).slabclass[j].requested = s.slabclass[j].requested
  <2> DEFINE u == SetClass(s, id, g.p)
             v == a.s
  <2>0. g.p.requested = p.requested
    BY <1>1, <1>2 DEF grow_slab_list, SlabClass
  <2>1. g.p \in SlabClass
    BY <1>1, <1>2, GrowLemma
  <2>2. /\ u \in SlabState
        /\ u.slabclass[j].requested = s.slabclass[j].requested
    BY <2>0, <2>1, SetClassLemma
  <2> HIDE DEF u
  <2>3. v \in SlabState /\ v.slabclass = u.slabclass
    BY <1>1, <1>2, <2>2, MemoryLemma DEF u
  <2> HIDE DEF v
  <2>4. AddPage(v, id).slabclass[j].requested = v.slabclass[j].requested
    <3>1. v.slabclass[id] \in SlabClass
      BY <2>3 DEF SlabState
    <3>2. \E q : /\ q.requested = v.slabclass[id].requested
                /\ AddPage(v, id) =
                     [SetClass(v, id, q) EXCEPT !.mem_malloced = @ + PageLen(id)]
      BY <3>1 DEF AddPage, SlabClass
    <3>3. \A q : [SetClass(v, id, q) EXCEPT !.mem_malloced = @ + PageLen(id)].slabclass =
                  SetClass(v, id, q).slabclass
      BY <2>3 DEF SetClass, SlabState
    <3> QED
      BY <2>3, <3>2, <3>3, SetClassView
  <2> QED
    BY <2>2, <2>3, <2>4 DEF v
<1>3. \/ o = [ok |-> FALSE, s |-> s]
      \/ \E g \in grow_slab_list(p) :
           \E a \in memory_allocate(SetClass(s, id, g.p), len) :
             o = [ok |-> a.ok, s |-> IF a.ok THEN AddPage(a.s, id) ELSE a.s]
  BY DEF do_slabs_newslab
<1> QED
  BY <1>2, <1>3

\* An allocation asks for its bytes, in its class, if it gets a chunk.
LEMMA AllocRequested ==
  ASSUME NEW s \in SlabState, NEW id \in Classes, NEW bytes \in Nat,
         NEW given, NEW dropped,
         EndPageOK(s), ArraysOK(s), Partitioned(s, given, dropped),
         NEW o \in do_slabs_alloc(s, bytes, id), NEW j \in Classes
  PROVE  o.s.slabclass[j].requested =
           IF o.ret # NULL /\ j = id THEN s.slabclass[j].requested + bytes
                                     ELSE s.slabclass[j].requested
<1>0. ASSUME NEW m, m \in SlabState, EndPageOK(m), m.slabclass[id].end_page_ptr # NULL
      PROVE  LET n == FromPageEnd(m, bytes, id) IN
             /\ n.ret # NULL
             /\ n.s.slabclass[j].requested =
                  IF j = id THEN m.slabclass[j].requested + bytes ELSE m.slabclass[j].requested
  BY <1>0 DEF FromPageEnd, SetClass, SlabState, SlabClass
<1>1. CASE s.slabclass[id].slots # <<>>
  <2>1. o = FromFreeList(s, bytes, id)
    BY <1>1 DEF do_slabs_alloc
  <2>2. o.ret # NULL
    <3>1. o.ret \in Chunk
      BY <1>1, <2>1, FreeListLemma
    <3>2. NULL \notin Chunk
      BY SlabsAssumption
    <3> QED BY <3>1, <3>2
  <2>3. o.s.slabclass[j].requested =
          IF j = id THEN s.slabclass[j].requested + bytes ELSE s.slabclass[j].requested
    BY <2>1 DEF FromFreeList, SetClass, SlabState, SlabClass
  <2> QED BY <2>2, <2>3
<1>2. CASE s.slabclass[id].slots = <<>> /\ s.slabclass[id].end_page_ptr # NULL
  <2>1. o = FromPageEnd(s, bytes, id)
    BY <1>2 DEF do_slabs_alloc
  <2> QED
    BY <1>0, <1>2, <2>1
<1>3. CASE s.slabclass[id].slots = <<>> /\ s.slabclass[id].end_page_ptr = NULL
  <2>1. PICK m \in do_slabs_newslab(s, id) :
          o = IF m.ok THEN FromPageEnd(m.s, bytes, id)
                      ELSE [ret |-> NULL, s |-> m.s]
    BY <1>3 DEF do_slabs_alloc
  <2>2. /\ m.s \in SlabState
        /\ EndPageOK(m.s)
        /\ m.ok => m.s.slabclass[id].end_page_ptr # NULL
    BY <1>3, NewSlabLemma
  <2>3. m.s.slabclass[j].requested = s.slabclass[j].requested
    BY NewSlabRequested
  <2>4. CASE ~m.ok
    <3>1. o.ret = NULL /\ o.s = m.s
      BY <2>1, <2>4
    <3> QED
      BY <2>3, <3>1
  <2>5. CASE m.ok
    <3>1. o = FromPageEnd(m.s, bytes, id)
      BY <2>1, <2>5
    <3> QED
      BY <1>0, <2>2, <2>3, <2>5, <3>1
  <2> QED
    BY <2>4, <2>5
<1> QED
  BY <1>1, <1>2, <1>3

\* A free gives them back, or changes nothing.
LEMMA FreeRequested ==
  ASSUME NEW s \in SlabState, NEW c \in Chunk, NEW bytes \in Nat,
         NEW t \in do_slabs_free(s, c, bytes, c[1]), t # s, NEW j \in Classes
  PROVE  t.slabclass[j].requested =
           IF c[1] = j THEN s.slabclass[j].requested - bytes ELSE s.slabclass[j].requested
<1> DEFINE id == c[1]
           p == s.slabclass[id]
<1>1. id \in Classes /\ p \in SlabClass
  BY DEF Chunk, SlabState
<1>2. PICK total : t = SetClass(s, id, [p EXCEPT !.slots = Append(p.slots, c),
                               !.sl_total = total, !.requested = p.requested - bytes])
  BY <1>1 DEF do_slabs_free
<1> QED
  BY <1>1, <1>2 DEF SetClass, SlabState, SlabClass

-----------------------------------------------------------------------------

\* What clients hold, and what was dropped, can be added up.
RequestedInv == Record(out) /\ Record(lost) /\ RequestedExact

LEMMA RequestedIs ==
  RequestedExact <=> \A id \in Classes :
    slabs.slabclass[id].requested = Bytes(out, id) + Bytes(lost, id)
BY DEF RequestedExact, Bytes, InClass

LEMMA RequestedIsNext ==
  RequestedExact' <=> \A id \in Classes :
    slabs'.slabclass[id].requested = Bytes(out', id) + Bytes(lost', id)
BY DEF RequestedExact, Bytes, InClass

LEMMA InitRequested == Init => RequestedInv
<1> SUFFICES ASSUME Init PROVE RequestedInv
  OBVIOUS
<1>1. DOMAIN out = {} /\ DOMAIN lost = {}
  BY DEF Init
<1>2. Record(out) /\ Record(lost)
  BY <1>1, FS_EmptySet DEF Record
<1>3. \A id \in Classes : Bytes(out, id) = 0 /\ Bytes(lost, id) = 0
  <2>1. \A id \in Classes : InClass(out, id) = {} /\ InClass(lost, id) = {}
    BY <1>1 DEF InClass
  <2> QED BY <2>1, SumEmpty DEF Bytes
<1>4. \A id \in Classes : slabs.slabclass[id].requested = 0
  BY DEF Init, InitSlabs
<1> QED
  BY <1>2, <1>3, <1>4, RequestedIs DEF RequestedInv

LEMMA AllocKeepsRequested ==
  ASSUME Bookkeeping, RequestedInv, NEW bytes \in Requests, slabs_alloc(bytes)
  PROVE  RequestedInv'
<1> DEFINE id == slabs_clsid(bytes)
<1>1. bytes \in Nat /\ id # 0 /\ lost' = lost
  BY SlabAllocatorAssumption DEF slabs_alloc
<1>2. id \in Classes
  BY <1>1, ClsidLemma
<1>3. PICK o \in do_slabs_alloc(slabs, bytes, id) :
        /\ slabs' = o.s
        /\ out' = IF o.ret = NULL THEN out ELSE With(out, o.ret, bytes)
  BY DEF slabs_alloc
<1> HIDE DEF id
<1>4. /\ slabs \in SlabState
      /\ EndPageOK(slabs)
      /\ ArraysOK(slabs)
      /\ Partitioned(slabs, DOMAIN out, DOMAIN lost)
  BY DEF Bookkeeping, TypeOK, EndPageExact, ArraysInBounds, ChunksPartitioned
<1>5. /\ o.ret # NULL => o.ret[1] = id /\ o.ret \notin DOMAIN out
      /\ \A j \in Classes : o.s.slabclass[j].requested =
           IF o.ret # NULL /\ j = id THEN slabs.slabclass[j].requested + bytes
                                     ELSE slabs.slabclass[j].requested
  <2>1. o.ret # NULL => o.ret[1] = id
    BY <1>1, <1>4, AllocSlots
  <2>2. o.ret # NULL => o.ret \notin DOMAIN out
    BY <1>1, <1>4, AllocLemma
  <2>3. ASSUME NEW j \in Classes
        PROVE  o.s.slabclass[j].requested =
                 IF o.ret # NULL /\ j = id THEN slabs.slabclass[j].requested + bytes
                                           ELSE slabs.slabclass[j].requested
    BY <1>1, <1>2, <1>4, AllocRequested
  <2> QED BY <2>1, <2>2, <2>3
<1>6. /\ Record(out) /\ Record(lost)
      /\ \A j \in Classes :
           slabs.slabclass[j].requested = Bytes(out, j) + Bytes(lost, j)
  BY RequestedIs DEF RequestedInv
<1>7. \A j \in Classes : Bytes(out, j) \in Int /\ Bytes(lost, j) \in Int
  BY <1>6, BytesType
<1>8. CASE o.ret = NULL
  <2>1. out' = out
    BY <1>3, <1>8
  <2>2. Record(out') /\ Record(lost')
    BY <1>1, <1>6, <2>1
  <2> QED BY <1>1, <1>3, <1>5, <1>6, <1>8, <2>1, <2>2, RequestedIsNext DEF RequestedInv
<1>9. CASE o.ret # NULL
  <2>1. out' = With(out, o.ret, bytes)
    BY <1>3, <1>9
  <2>2. ASSUME NEW j \in Classes
        PROVE  /\ Record(out')
               /\ Bytes(out', j) = IF id = j THEN Bytes(out, j) + bytes ELSE Bytes(out, j)
    <3>1. /\ Record(With(out, o.ret, bytes))
          /\ Bytes(With(out, o.ret, bytes), j) =
               IF o.ret[1] = j THEN Bytes(out, j) + bytes ELSE Bytes(out, j)
      BY <1>1, <1>5, <1>6, <1>9, BytesWith
    <3> QED BY <1>5, <1>9, <2>1, <3>1
  <2>3. Record(out') /\ Record(lost')
    BY <1>1, <1>2, <1>6, <2>2
  <2>4. ASSUME NEW j \in Classes
        PROVE  slabs'.slabclass[j].requested = Bytes(out', j) + Bytes(lost', j)
    BY <1>1, <1>3, <1>5, <1>6, <1>7, <1>9, <2>2
  <2> QED BY <2>3, <2>4, RequestedIsNext DEF RequestedInv
<1> QED
  BY <1>8, <1>9

LEMMA FreeKeepsRequested ==
  ASSUME Bookkeeping, RequestedInv, NEW c \in DOMAIN out, slabs_free(c)
  PROVE  RequestedInv'
<1>1. /\ slabs \in SlabState /\ c \in Chunk /\ out[c] \in Nat
      /\ c \notin DOMAIN lost
  BY SlabAllocatorAssumption DEF Bookkeeping, TypeOK, ChunksPartitioned, Partitioned
<1>2. PICK t \in do_slabs_free(slabs, c, out[c], c[1]) :
        /\ slabs' = t
        /\ lost' = IF t = slabs THEN With(lost, c, out[c]) ELSE lost
  BY DEF slabs_free
<1>3. /\ DOMAIN out' = DOMAIN out \ {c}
      /\ \A x \in DOMAIN out' : out'[x] = out[x]
  BY DEF slabs_free, Restrict
<1>4. /\ Record(out) /\ Record(lost)
      /\ \A j \in Classes :
           slabs.slabclass[j].requested = Bytes(out, j) + Bytes(lost, j)
  BY RequestedIs DEF RequestedInv
<1>5. \A j \in Classes : Bytes(out, j) \in Int /\ Bytes(lost, j) \in Int
  BY <1>4, BytesType
<1>6. ASSUME NEW j \in Classes
      PROVE  /\ Record(out')
             /\ Bytes(out', j) = IF c[1] = j THEN Bytes(out, j) - out[c] ELSE Bytes(out, j)
  <2>1. PICK g : g = out'
    OBVIOUS
  <2>2. DOMAIN g = DOMAIN out \ {c} /\ \A x \in DOMAIN g : g[x] = out[x]
    BY <1>3, <2>1
  <2>3. /\ Record(g)
        /\ Bytes(g, j) = IF c[1] = j THEN Bytes(out, j) - out[c] ELSE Bytes(out, j)
    BY <1>4, <2>2, BytesWithout
  <2> QED BY <2>1, <2>3
<1>7. c[1] \in Classes
  BY <1>1 DEF Chunk
<1>8. CASE t = slabs
  <2>1. lost' = With(lost, c, out[c]) /\ slabs' = slabs
    BY <1>2, <1>8
  <2>2. ASSUME NEW j \in Classes
        PROVE  /\ Record(lost')
               /\ Bytes(lost', j) = IF c[1] = j THEN Bytes(lost, j) + out[c] ELSE Bytes(lost, j)
    <3>1. /\ Record(With(lost, c, out[c]))
          /\ Bytes(With(lost, c, out[c]), j) =
               IF c[1] = j THEN Bytes(lost, j) + out[c] ELSE Bytes(lost, j)
      BY <1>1, <1>4, BytesWith
    <3> QED BY <2>1, <3>1
  <2>3. Record(out') /\ Record(lost')
    BY <1>6, <1>7, <2>2
  <2>4. ASSUME NEW j \in Classes
        PROVE  slabs'.slabclass[j].requested = Bytes(out', j) + Bytes(lost', j)
    BY <1>1, <1>4, <1>5, <1>6, <2>1, <2>2
  <2> QED BY <2>3, <2>4, RequestedIsNext DEF RequestedInv
<1>9. CASE t # slabs
  <2>1. lost' = lost /\ slabs' = t
    BY <1>2, <1>9
  <2>2. ASSUME NEW j \in Classes
        PROVE  t.slabclass[j].requested =
                 IF c[1] = j THEN slabs.slabclass[j].requested - out[c]
                             ELSE slabs.slabclass[j].requested
    BY <1>1, <1>9, FreeRequested
  <2>3. Record(out') /\ Record(lost')
    BY <1>4, <1>6, <1>7, <2>1
  <2>4. ASSUME NEW j \in Classes
        PROVE  slabs'.slabclass[j].requested = Bytes(out', j) + Bytes(lost', j)
    BY <1>1, <1>4, <1>5, <1>6, <2>1, <2>2
  <2> QED BY <2>3, <2>4, RequestedIsNext DEF RequestedInv
<1> QED
  BY <1>8, <1>9

(***************************************************************************)
(* requested counts the bytes that the clients of a class hold and those   *)
(* that a failed free dropped: RequestedExact, though either the count or  *)
(* the chunk may be left alone when the heap fails.                        *)
(***************************************************************************)
THEOREM RequestedIsExact == Spec => []RequestedExact
<1>1. Bookkeeping /\ RequestedInv /\ [Next]_vars => RequestedInv'
  <2>1. CASE UNCHANGED vars
    BY <2>1 DEF vars, RequestedInv, Record, RequestedExact
  <2> QED
    BY <2>1, AllocKeepsRequested, FreeKeepsRequested DEF Next
<1>2. RequestedInv => RequestedExact
  BY DEF RequestedInv
<1> QED
  BY AlwaysBookkeeping, InitRequested, <1>1, <1>2, PTL DEF Spec

-----------------------------------------------------------------------------

(***************************************************************************)
(* A property of the numbers up to m that holds at the first and is handed *)
(* on holds everywhere: else one is the least at which it fails.  P is the *)
(* set of those that have it.                                              *)
(***************************************************************************)
LEMMA UpTo ==
  ASSUME NEW P, NEW l \in Nat, NEW m \in Nat, l \in P,
         \A i \in l .. m - 1 : i \in P => i + 1 \in P
  PROVE  \A i \in l .. m : i \in P
<1> DEFINE B == {i \in l .. m : i \notin P}
           R == OpToRel(<, Nat)
<1>1. ASSUME B # {} PROVE FALSE
  <2>1. IsWellFoundedOn(R, Nat)
    BY NatLessThanWellFounded
  <2>2. \A x, y \in Nat : <<x, y>> \in R <=> x < y
    BY DEF OpToRel
  <2>3. B \subseteq Nat
    OBVIOUS
  <2> HIDE DEF R
  <2>4. PICK b \in B : \A n \in B : ~ (<<n, b>> \in R)
    <3> HIDE DEF B
    <3> QED BY <1>1, <2>1, <2>3, WFMin
  <2>5. b - 1 \in l .. m - 1 /\ b - 1 < b /\ (b - 1) + 1 = b
    BY <2>3
  <2>6. b - 1 \notin B
    <3> HIDE DEF B
    <3> QED BY <2>2, <2>3, <2>4, <2>5
  <2> QED
    BY <2>5, <2>6
<1> QED
  BY <1>1

-----------------------------------------------------------------------------
(* The table of class sizes. *)

\* The first n sizes that the loop computes.
IsSizes(s, n, g) ==
  g = [i \in FirstClass .. n |-> IF i = FirstClass THEN s.item ELSE NextSize(s, g[i - 1])]

(***************************************************************************)
(* The recursion of SizeAt defines a function.                             *)
(***************************************************************************)
LEMMA SizesExist ==
  ASSUME NEW s
  PROVE  \E g : IsSizes(s, POWER_LARGEST, g)
<1> DEFINE P == {n \in Nat : \E g : IsSizes(s, n, g)}
<1>1. 1 \in P
  <2> DEFINE g == [i \in 1 .. 1 |-> s.item]
  <2>1. IsSizes(s, 1, g)
    BY DEF IsSizes, FirstClass
  <2> QED BY <2>1
<1>2. ASSUME NEW n \in 1 .. POWER_LARGEST - 1, n \in P PROVE n + 1 \in P
  <2>1. PICK g : IsSizes(s, n, g)
    BY <1>2
  <2>2. n \in Nat \ {0} /\ n + 1 \in Nat
    BY DEF POWER_LARGEST
  <2> DEFINE next == NextSize(s, g[n])
             h == [i \in 1 .. n + 1 |-> IF i = n + 1 THEN next ELSE g[i]]
  <2> HIDE DEF next
  <2>3. \A i \in 1 .. n : h[i] = g[i]
    BY <2>2
  <2>4. ASSUME NEW i \in 1 .. n + 1
        PROVE  h[i] = IF i = 1 THEN s.item ELSE NextSize(s, h[i - 1])
    <3>1. CASE i = n + 1
      <4>1. h[i - 1] = g[n] /\ i # 1 /\ h[i] = next
        BY <2>2, <2>3, <3>1
      <4> QED BY <4>1 DEF next
    <3>2. CASE i # n + 1
      <4>1. i \in 1 .. n /\ (i # 1 => i - 1 \in 1 .. n)
        BY <2>2, <3>2
      <4>2. g[i] = IF i = 1 THEN s.item ELSE NextSize(s, g[i - 1])
        BY <2>1, <4>1 DEF IsSizes, FirstClass
      <4> QED
        BY <2>3, <4>1, <4>2
    <3> QED BY <3>1, <3>2
  <2>5. h = [i \in 1 .. n + 1 |-> IF i = 1 THEN s.item ELSE NextSize(s, h[i - 1])]
    <3> PICK k : k = h
      OBVIOUS
    <3>1. k = [i \in 1 .. n + 1 |-> k[i]]
      OBVIOUS
    <3>2. \A i \in 1 .. n + 1 : k[i] = IF i = 1 THEN s.item ELSE NextSize(s, k[i - 1])
      BY <2>4
    <3> HIDE DEF h
    <3> QED BY <3>1, <3>2
  <2> HIDE DEF h
  <2>6. IsSizes(s, n + 1, h)
    BY <2>5 DEF IsSizes, FirstClass
  <2> QED
    BY <2>2, <2>6
<1> HIDE DEF P
<1>3. \A n \in 1 .. POWER_LARGEST : n \in P
  BY <1>1, <1>2, UpTo DEF POWER_LARGEST
<1> QED
  BY <1>3 DEF P, POWER_LARGEST

LEMMA SizeAtIs ==
  ASSUME NEW s
  PROVE  /\ SizeAt(s)[FirstClass] = s.item
         /\ \A i \in FirstClass .. POWER_LARGEST - 1 : SizeAt(s)[i + 1] = NextSize(s, SizeAt(s)[i])
<1>1. SizeAt(s) = CHOOSE g : IsSizes(s, POWER_LARGEST, g)
  BY DEF SizeAt, IsSizes
<1> PICK f : f = SizeAt(s)
  OBVIOUS
<1>2. IsSizes(s, POWER_LARGEST, f)
  BY <1>1, SizesExist
<1>3. \A i \in 1 .. POWER_LARGEST :
        f[i] = IF i = 1 THEN s.item ELSE NextSize(s, f[i - 1])
  BY <1>2 DEF IsSizes, FirstClass
<1>4. ASSUME NEW i \in 1 .. POWER_LARGEST - 1 PROVE f[i + 1] = NextSize(s, f[i])
  <2>1. i + 1 \in 1 .. POWER_LARGEST /\ i + 1 # 1 /\ (i + 1) - 1 = i
    BY DEF POWER_LARGEST
  <2> QED
    BY <1>3, <2>1
<1>5. f[1] = s.item
  BY <1>3 DEF POWER_LARGEST
<1> QED
  BY <1>4, <1>5 DEF FirstClass

LEMMA DivAtLeast ==
  ASSUME NEW a \in Nat, NEW b \in Nat, NEW d \in Nat \ {0}, a >= b * d
  PROVE  a \div d >= b
<1> PICK q : q = a \div d
  OBVIOUS
<1>1. q \in Nat /\ a < (q + 1) * d
  OBVIOUS
<1>2. ASSUME q < b PROVE FALSE
  <2>1. b - (q + 1) \in Nat
    BY <1>1, <1>2
  <2>2. b * d = (b - (q + 1)) * d + (q + 1) * d
    BY <1>1
  <2>3. (b - (q + 1)) * d \in Nat /\ (q + 1) * d \in Nat /\ b * d \in Nat
    BY <1>1, <2>1
  <2> QED BY <1>1, <2>2, <2>3
<1> QED
  BY <1>1, <1>2

LEMMA Times ==
  ASSUME NEW a \in Int, NEW b \in Int, NEW c \in Nat, a >= b
  PROVE  a * c >= b * c
<1>1. (a - b) * c >= 0 /\ a * c = (a - b) * c + b * c
  OBVIOUS
<1>2. (a - b) * c \in Int /\ a * c \in Int /\ b * c \in Int
  OBVIOUS
<1> QED
  BY <1>1, <1>2

LEMMA Products ==
  ASSUME NEW a \in Nat, NEW b \in Nat, NEW c \in Nat
  PROVE  a * b \in Nat /\ a * b = a * c + a * (b - c)
OBVIOUS

\* A size is rounded up to the next multiple of eight.
LEMMA AlignsUp ==
  ASSUME NEW n \in Nat
  PROVE  /\ AlignedTo8(n) \in n .. n + 7
         /\ AlignedTo8(n) = 8 * (AlignedTo8(n) \div 8)
BY DEF AlignedTo8, Align

\* A size to which the factor adds eight bytes or more.
IsSize(s, n) == n \in Nat /\ n * (s.num - s.den) >= 8 * s.den

(***************************************************************************)
(* One turn of the loop: the next size is at least 5/4 of this one, the    *)
(* next class is longer, and if the loop does not end then this class is   *)
(* shorter than the longest item.                                          *)
(***************************************************************************)
LEMMA Turn ==
  ASSUME NEW s, Grows(s), NEW n, IsSize(s, n)
  PROVE  /\ IsSize(s, NextSize(s, n)) /\ 4 * NextSize(s, n) >= 5 * n
         /\ AlignedTo8(n) < AlignedTo8(NextSize(s, n))
         /\ n * s.num <= s.item_size_max * s.den => AlignedTo8(n) < s.item_size_max
<1>a. PICK num : num = s.num
  OBVIOUS
<1>b. PICK den : den = s.den
  OBVIOUS
<1>c. PICK max : max = s.item_size_max
  OBVIOUS
<1>1. /\ num \in Nat \ {0} /\ den \in Nat \ {0} /\ max \in Nat \ {0}
      /\ 4 * num >= 5 * den /\ num - den \in Nat
  BY <1>a, <1>b, <1>c DEF Grows
<1>2. n \in Nat /\ n * (num - den) >= 8 * den
  BY <1>a, <1>b DEF IsSize
<1>d. PICK m : m = AlignedTo8(n)
  OBVIOUS
<1>e. PICK k : k = m \div 8
  OBVIOUS
<1>3. m \in Nat /\ n <= m /\ m <= n + 7 /\ k \in Nat /\ m = 8 * k
  BY <1>d, <1>e, <1>2, AlignsUp
<1>f. PICK q : q = NextSize(s, n)
  OBVIOUS
<1>4. q = (m * num) \div den
  BY <1>a, <1>b, <1>d, <1>f DEF NextSize
<1>5. m * num \in Nat /\ m * den \in Nat /\ n * den \in Nat /\ n * num \in Nat
      /\ k * den \in Nat /\ k * num \in Nat /\ max * den \in Nat
      /\ m * num = m * den + m * (num - den) /\ n * num = n * den + n * (num - den)
  <2>1. /\ \A a, b \in Nat : a * b \in Nat
        /\ \A a, b, c \in Nat : a * b = a * c + a * (b - c)
    BY Products
  <2>2. m * num = m * den + m * (num - den) /\ n * num = n * den + n * (num - den)
    BY <1>1, <1>2, <1>3, <2>1
  <2> QED BY <1>1, <1>2, <1>3, <2>1, <2>2
<1>6. q >= 10 * k /\ q \in Nat
  <2>1. k * (4 * num) >= k * (5 * den)
    BY <1>1, <1>3, Times
  <2>2. 8 * (k * num) >= 10 * (k * den)
    BY <1>1, <1>3, <1>5, <2>1
  <2>3. m * num = 8 * (k * num) /\ (10 * k) * den = 10 * (k * den)
    BY <1>1, <1>3
  <2> PICK a : a = m * num
    OBVIOUS
  <2> PICK b : b = 10 * k
    OBVIOUS
  <2>4. a \in Nat /\ b \in Nat /\ a >= b * den
    BY <1>3, <1>5, <2>2, <2>3
  <2>5. a \div den >= b
    BY <1>1, <2>4, DivAtLeast
  <2>6. a \div den \in Nat
    BY <1>1, <2>4
  <2> QED BY <1>4, <2>5, <2>6
<1>7. m * (num - den) >= 8 * den
  <2>1. m * (num - den) >= n * (num - den)
    BY <1>1, <1>2, <1>3, Times
  <2> QED BY <1>1, <1>2, <1>3, <2>1
<1>8. q >= m + 8
  <2>1. (m + 8) * den = m * den + 8 * den
    BY <1>1, <1>3
  <2> PICK a : a = m * num
    OBVIOUS
  <2> PICK b : b = m + 8
    OBVIOUS
  <2>2. a \in Nat /\ b \in Nat /\ a >= b * den
    BY <1>1, <1>3, <1>5, <1>7, <2>1
  <2>3. a \div den >= b
    BY <1>1, <2>2, DivAtLeast
  <2> QED BY <1>4, <2>3
<1>9. q * (num - den) >= 8 * den
  <2>1. q * (num - den) >= m * (num - den)
    BY <1>1, <1>3, <1>6, <1>8, Times
  <2>2. q * (num - den) \in Int /\ m * (num - den) \in Int
    BY <1>1, <1>3, <1>6
  <2> QED BY <1>1, <1>7, <2>1, <2>2
<1>10. ASSUME n * num <= max * den PROVE m < max
  <2>1. (n + 8) * den = n * den + 8 * den
    BY <1>1, <1>2
  <2>2. (n + 8) * den <= max * den
    BY <1>1, <1>2, <1>5, <1>10, <2>1
  <2>3. ASSUME max < n + 8 PROVE FALSE
    <3>1. (n + 8) * den = (n + 8 - max) * den + max * den /\ (n + 8 - max) * den > 0
      BY <1>1, <1>2, <2>3
    <3>2. (n + 8 - max) * den \in Int /\ (n + 8) * den \in Int
      BY <1>1, <1>2
    <3> QED BY <1>5, <2>2, <3>1, <3>2
  <2> QED BY <1>1, <1>2, <1>3, <2>3
<1>11. AlignedTo8(q) >= q /\ AlignedTo8(q) \in Nat
  BY <1>6, AlignsUp
<1> QED
  BY <1>a, <1>b, <1>c, <1>d, <1>f, <1>2, <1>3, <1>6, <1>8, <1>9, <1>10, <1>11 DEF IsSize

LEMMA EverySize ==
  ASSUME NEW s, Grows(s)
  PROVE  /\ \A i \in FirstClass .. POWER_LARGEST : IsSize(s, SizeAt(s)[i])
         /\ \A i \in FirstClass .. POWER_LARGEST - 1 : 4 * SizeAt(s)[i + 1] >= 5 * SizeAt(s)[i]
<1> DEFINE P == {i \in Nat : IsSize(s, SizeAt(s)[i])}
<1>1. 1 \in P
  <2>1. IsSize(s, s.item)
    BY DEF Grows, IsSize, Align
  <2> QED BY <2>1, SizeAtIs DEF FirstClass
<1>2. ASSUME NEW i \in 1 .. POWER_LARGEST - 1, i \in P PROVE i + 1 \in P
  <2>1. IsSize(s, NextSize(s, SizeAt(s)[i]))
    BY <1>2, Turn
  <2>2. SizeAt(s)[i + 1] = NextSize(s, SizeAt(s)[i])
    BY SizeAtIs DEF FirstClass
  <2> QED BY <2>1, <2>2 DEF POWER_LARGEST
<1> HIDE DEF P
<1>3. \A i \in 1 .. POWER_LARGEST : i \in P
  BY <1>1, <1>2, UpTo DEF POWER_LARGEST
<1>4. \A i \in FirstClass .. POWER_LARGEST : IsSize(s, SizeAt(s)[i])
  <2>1. \A i \in P : IsSize(s, SizeAt(s)[i])
    BY DEF P
  <2> QED BY <1>3, <2>1 DEF FirstClass
<1>5. ASSUME NEW i \in FirstClass .. POWER_LARGEST - 1
      PROVE  4 * SizeAt(s)[i + 1] >= 5 * SizeAt(s)[i]
  <2> i \in FirstClass .. POWER_LARGEST
    BY DEF FirstClass, POWER_LARGEST
  <2>1. IsSize(s, SizeAt(s)[i])
    BY <1>4
  <2>2. 4 * NextSize(s, SizeAt(s)[i]) >= 5 * SizeAt(s)[i]
    BY <2>1, Turn
  <2> QED BY <2>2, SizeAtIs
<1> QED
  BY <1>4, <1>5

\* Within d turns a size is multiplied by c.
Multiplies(s, d, c) ==
  \A i \in 1 .. POWER_LARGEST - d : SizeAt(s)[i + d] >= c * SizeAt(s)[i]

LEMMA MultipliesTwice ==
  ASSUME NEW s, Grows(s), NEW d \in 1 .. POWER_LARGEST, NEW c \in Nat, Multiplies(s, d, c)
  PROVE  Multiplies(s, 2 * d, c * c)
<1> SUFFICES ASSUME NEW i \in 1 .. POWER_LARGEST - 2 * d
             PROVE  SizeAt(s)[i + 2 * d] >= (c * c) * SizeAt(s)[i]
  BY DEF Multiplies
<1>1. /\ i \in 1 .. POWER_LARGEST - d /\ i + d \in 1 .. POWER_LARGEST - d
      /\ (i + d) + d = i + 2 * d
      /\ {i, i + d, i + 2 * d} \subseteq 1 .. POWER_LARGEST
  BY DEF POWER_LARGEST
<1> PICK x : x = SizeAt(s)[i]
  OBVIOUS
<1> PICK y : y = SizeAt(s)[i + d]
  OBVIOUS
<1> PICK z : z = SizeAt(s)[i + 2 * d]
  OBVIOUS
<1>2. x \in Nat /\ y \in Nat /\ z \in Nat
  BY <1>1, EverySize DEF IsSize, FirstClass
<1>3. y >= c * x /\ z >= c * y
  BY <1>1 DEF Multiplies
<1>4. c * x \in Nat
  BY <1>2
<1>5. y * c >= (c * x) * c
  BY <1>2, <1>3, <1>4, Times
<1>6. (c * x) * c = (c * c) * x /\ y * c = c * y
  BY <1>2
<1>7. (c * c) * x \in Nat /\ c * y \in Nat
  BY <1>2
<1>8. z >= (c * c) * x
  BY <1>2, <1>3, <1>5, <1>6, <1>7
<1> QED
  BY <1>8

LEMMA SizesPassMax ==
  ASSUME NEW s, Grows(s)
  PROVE  SizeAt(s)[129] * s.num > s.item_size_max * s.den
<1>1. Multiplies(s, 4, 2)
  <2> SUFFICES ASSUME NEW i \in 1 .. POWER_LARGEST - 4
               PROVE  SizeAt(s)[i + 4] >= 2 * SizeAt(s)[i]
    BY DEF Multiplies
  <2>1. {i, i + 1, i + 2, i + 3} \subseteq FirstClass .. POWER_LARGEST - 1
        /\ {i, i + 1, i + 2, i + 3, i + 4} \subseteq FirstClass .. POWER_LARGEST
        /\ (i + 1) + 1 = i + 2 /\ (i + 2) + 1 = i + 3 /\ (i + 3) + 1 = i + 4
    BY DEF POWER_LARGEST, FirstClass
  <2> PICK f : f = SizeAt(s)
    OBVIOUS
  <2>2. f[i] \in Nat /\ f[i + 1] \in Nat /\ f[i + 2] \in Nat /\ f[i + 3] \in Nat /\ f[i + 4] \in Nat
    BY <2>1, EverySize DEF IsSize
  <2>3. 4 * f[i + 1] >= 5 * f[i] /\ 4 * f[i + 2] >= 5 * f[i + 1]
        /\ 4 * f[i + 3] >= 5 * f[i + 2] /\ 4 * f[i + 4] >= 5 * f[i + 3]
    BY <2>1, EverySize
  <2>4. f[i + 4] >= 2 * f[i]
    BY <2>2, <2>3
  <2> QED BY <2>4
<1>2. Multiplies(s, 8, 4)
  BY <1>1, MultipliesTwice, 2 * 4 = 8, 2 * 2 = 4, 4 \in 1 .. POWER_LARGEST DEF POWER_LARGEST
<1>3. Multiplies(s, 16, 16)
  BY <1>2, MultipliesTwice, 2 * 8 = 16, 4 * 4 = 16, 8 \in 1 .. POWER_LARGEST DEF POWER_LARGEST
<1>4. Multiplies(s, 32, 256)
  BY <1>3, MultipliesTwice, 2 * 16 = 32, 16 * 16 = 256, 16 \in 1 .. POWER_LARGEST DEF POWER_LARGEST
<1>5. Multiplies(s, 64, 65536)
  BY <1>4, MultipliesTwice, 2 * 32 = 64, 256 * 256 = 65536, 32 \in 1 .. POWER_LARGEST
  DEF POWER_LARGEST
<1>6. Multiplies(s, 128, 65536 * 65536)
  BY <1>5, MultipliesTwice, 2 * 64 = 128, 64 \in 1 .. POWER_LARGEST DEF POWER_LARGEST
<1>a. PICK y : y = SizeAt(s)[129]
  OBVIOUS
<1>b. PICK max : max = s.item_size_max
  OBVIOUS
<1>c. PICK den : den = s.den
  OBVIOUS
<1>d. PICK num : num = s.num
  OBVIOUS
<1>7. /\ num \in Nat \ {0} /\ den \in Nat \ {0} /\ max \in Nat \ {0}
      /\ num >= den /\ max < 65536 * 65536
  BY <1>b, <1>c, <1>d DEF Grows
<1>8. SizeAt(s)[1] \in Nat /\ SizeAt(s)[1] > 0 /\ y \in Nat
  BY <1>a, EverySize, SizeAtIs DEF IsSize, FirstClass, POWER_LARGEST, Grows
<1>9. y >= (65536 * 65536) * SizeAt(s)[1]
  BY <1>a, <1>6 DEF Multiplies, POWER_LARGEST
<1>10. y > max
  BY <1>7, <1>8, <1>9
<1>11. num * y >= den * y
  BY <1>7, <1>8, Times
<1>12. y * den > max * den
  <2>1. (y - max) * den > 0 /\ y * den = (y - max) * den + max * den
    BY <1>7, <1>8, <1>10
  <2>2. (y - max) * den \in Int /\ y * den \in Int /\ max * den \in Int
    BY <1>7, <1>8
  <2> QED BY <2>1, <2>2
<1>13. y * num > max * den
  <2>1. num * y = y * num /\ den * y = y * den
    BY <1>7, <1>8
  <2>2. y * num \in Int /\ y * den \in Int /\ max * den \in Int
    BY <1>7, <1>8
  <2> QED BY <1>11, <1>12, <2>1, <2>2
<1> QED
  BY <1>a, <1>b, <1>c, <1>d, <1>13

LEMMA LargestIs ==
  ASSUME NEW s, Grows(s)
  PROVE  /\ Largest(s) \in FirstClass .. 129
         /\ \A j \in FirstClass .. Largest(s) - 1 : ~ LoopEnds(s, j)
<1> DEFINE B == {i \in 1 .. POWER_LARGEST : LoopEnds(s, i)}
           R == OpToRel(<, Nat)
<1>1. LoopEnds(s, 129)
  BY SizesPassMax DEF LoopEnds
<1>2. 129 \in B
  BY <1>1 DEF POWER_LARGEST
<1>3. IsWellFoundedOn(R, Nat)
  BY NatLessThanWellFounded
<1>4. \A x, y \in Nat : <<x, y>> \in R <=> x < y
  BY DEF OpToRel
<1>5. B \subseteq Nat
  OBVIOUS
<1> HIDE DEF R
<1>6. PICK b \in B : \A n \in B : ~ (<<n, b>> \in R)
  <2> HIDE DEF B
  <2> QED BY <1>2, <1>3, <1>5, WFMin
<1>7. \A j \in 1 .. b - 1 : ~ LoopEnds(s, j)
  <2> SUFFICES ASSUME NEW j \in 1 .. b - 1, LoopEnds(s, j) PROVE FALSE
    OBVIOUS
  <2>1. b \in 1 .. POWER_LARGEST
    BY <1>6
  <2>2. j \in 1 .. POWER_LARGEST /\ j < b
    BY <2>1 DEF POWER_LARGEST
  <2>3. j \in B
    BY <2>2
  <2> HIDE DEF B
  <2> QED BY <1>4, <1>5, <1>6, <2>2, <2>3
<1>8. \E i \in FirstClass .. POWER_LARGEST :
        LoopEnds(s, i) /\ \A j \in FirstClass .. i - 1 : ~ LoopEnds(s, j)
  BY <1>7 DEF FirstClass
<1> HIDE DEF B
<1>9. /\ Largest(s) \in FirstClass .. POWER_LARGEST
      /\ \A j \in FirstClass .. Largest(s) - 1 : ~ LoopEnds(s, j)
  BY <1>8 DEF Largest
<1>10. Largest(s) <= 129
  BY <1>1, <1>9 DEF FirstClass, POWER_LARGEST
<1> QED
  BY <1>9, <1>10 DEF FirstClass, POWER_LARGEST

(***************************************************************************)
(* The constructor makes a table that fits, from any settings that grow.   *)
(***************************************************************************)
LEMMA TablesOfGrowing ==
  ASSUME NEW s, Grows(s)
  PROVE  Fits(s)
<1>a. PICK n : n = Largest(s)
  OBVIOUS
<1>b. PICK at : at = SizeAt(s)
  OBVIOUS
<1>c. PICK t : t = ClassTable(s)
  OBVIOUS
<1>d. PICK max : max = s.item_size_max
  OBVIOUS
<1>1. n \in 1 .. 129 /\ max \in Nat \ {0}
  BY <1>a, <1>d, LargestIs DEF FirstClass, Grows
<1>2. t = [i \in 1 .. n |->
             IF i = n THEN [size |-> max, perslab |-> 1]
             ELSE [size |-> AlignedTo8(at[i]), perslab |-> max \div AlignedTo8(at[i])]]
  BY <1>a, <1>b, <1>c, <1>d DEF ClassTable, FirstClass
<1>3. /\ t[n].size = max /\ t[n].perslab = 1
      /\ \A i \in 1 .. n - 1 : /\ t[i].size = AlignedTo8(at[i])
                               /\ t[i].perslab = max \div AlignedTo8(at[i])
  BY <1>1, <1>2
<1>4. ASSUME NEW i \in 1 .. n - 1
      PROVE  /\ AlignedTo8(at[i]) \in Nat \ {0} /\ AlignedTo8(at[i]) % 8 = 0
             /\ AlignedTo8(at[i]) < max /\ AlignedTo8(at[i]) < AlignedTo8(at[i + 1])
  <2>1. i \in FirstClass .. POWER_LARGEST - 1 /\ i \in FirstClass .. POWER_LARGEST
    BY <1>1 DEF FirstClass, POWER_LARGEST
  <2>2. IsSize(s, at[i]) /\ at[i + 1] = NextSize(s, at[i])
    BY <1>b, <2>1, EverySize, SizeAtIs
  <2>3. at[i] * s.num <= max * s.den
    <3>1. ~ LoopEnds(s, i)
      BY <1>a, LargestIs DEF FirstClass
    <3>2. ~ (at[i] * s.num > max * s.den)
      BY <1>b, <1>d, <3>1 DEF LoopEnds
    <3>3. at[i] * s.num \in Int /\ max * s.den \in Int
      BY <1>1, <2>2 DEF IsSize, Grows
    <3> QED BY <3>2, <3>3
  <2>4. AlignedTo8(at[i]) < max /\ AlignedTo8(at[i]) < AlignedTo8(at[i + 1])
    BY <1>d, <2>2, <2>3, Turn
  <2>5. at[i] \in Nat /\ at[i] # 0
    <3>1. at[i] \in Nat /\ at[i] * (s.num - s.den) >= 8 * s.den
      BY <2>2 DEF IsSize
    <3>2. s.num - s.den \in Int /\ s.den \in Nat /\ s.den > 0
      BY DEF Grows
    <3>3. \A g \in Int, d \in Nat : 0 * g >= 8 * d => d = 0
      OBVIOUS
    <3> QED BY <3>1, <3>2, <3>3
  <2> QED BY <2>4, <2>5, AlignsUp
<1>5. ASSUME NEW i \in 1 .. n
      PROVE  /\ t[i].size % 8 = 0 \/ i = n
             /\ t[i].perslab > 0
             /\ t[i].size * t[i].perslab <= max
  <2>1. CASE i = n
    BY <1>1, <1>3, <2>1
  <2>2. CASE i # n
    <3>1. i \in 1 .. n - 1
      BY <1>1, <2>2
    <3> PICK a : a = AlignedTo8(at[i])
      OBVIOUS
    <3>2. a \in Nat \ {0} /\ a % 8 = 0 /\ a < max
      BY <1>4, <3>1
    <3>3. max \div a > 0 /\ a * (max \div a) <= max
      BY <1>1, <3>2
    <3> QED BY <1>3, <3>1, <3>2, <3>3
  <2> QED BY <2>1, <2>2
<1>6. ASSUME NEW i \in 1 .. n - 1 PROVE t[i].size < t[i + 1].size
  <2>1. CASE i + 1 = n
    BY <1>3, <1>4, <2>1
  <2>2. CASE i + 1 # n
    <3>1. i + 1 \in 1 .. n - 1
      BY <1>1, <2>2
    <3> QED BY <1>3, <1>4, <3>1
  <2> QED BY <2>1, <2>2
<1>7. n < POWER_LARGEST
  BY <1>1 DEF POWER_LARGEST
<1> QED
  BY <1>a, <1>c, <1>d, <1>5, <1>6, <1>7 DEF Fits, FirstClass, Align

(***************************************************************************)
(* A client is given a chunk of the tightest class, and the table in which *)
(* the class is looked for fits, for every setting the constructor may be  *)
(* called with (slabs.cpp:20-35, slabs.hpp:65).                            *)
(***************************************************************************)
THEOREM ClassesAlwaysFit == Spec => []ClassesFit
<1>1. TablesFit
  BY SlabAllocatorAssumption, TablesOfGrowing DEF TablesFit
<1>2. TightestClass => ClassesFit
  BY <1>1 DEF ClassesFit
<1> QED
  BY ChunksAreTightest, <1>2, PTL
=============================================================================
