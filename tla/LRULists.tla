------------------------------ MODULE LRULists ------------------------------
(***************************************************************************)
(* The cache engine of src/src/cache/lru.{hpp,cpp} as operators on the     *)
(* value of one LRU_Lists object, with the AssociativeArray and the        *)
(* SlabAllocator it owns and the memory of its items.  Each operator is a  *)
(* do_* function, which the code runs under cache_lock; it yields the set  *)
(* of its outcomes, several only where the heap or a thread may fail.      *)
(* Modules LRUCache and DataCache take these functions for their steps.    *)
(*                                                                         *)
(* The queue between heads[id] and tails[id] is a sequence of chunks, head *)
(* first; sizes[], which nothing reads, is left out.  `ok' is false from   *)
(* the first assert that fails.                                            *)
(***************************************************************************)
EXTENDS Integers, Sequences, SequencesExt, FiniteSets, Functions

CONSTANTS
  power_largest, size, perslab, item_size_max, mem_limit, preallocate,
  ArraySeed, HeapFails,                                    \* of Slabs
  Keys, Hash, SameBytes, InitHashpower, CounterMod,
  CallocFails, ThreadFails,                                \* of Assoc
  NULL,
  TAIL_REPAIR_TIME, ITEM_UPDATE_INTERVAL, SEARCH_ITEMS,
  RefMod             \* refcount is an unsigned short: 2^16

Slab == INSTANCE Slabs
Table == INSTANCE Assoc

ASSUME LRUListsAssumption ==
  /\ Slab!SlabsAssumption
  /\ Table!AssocAssumption
  /\ TAIL_REPAIR_TIME \in Nat
  /\ ITEM_UPDATE_INTERVAL \in Nat
  /\ SEARCH_ITEMS \in Nat \ {0}
  /\ RefMod \in Nat \ {0, 1}

LINKED == "linked"    \* ITEM_LINKED
SLABBED == "slabbed"  \* ITEM_SLABBED

(***************************************************************************)
(* hash_item with its key and data; bytes is ITEM_ntotal, and a fresh page *)
(* is all zeroes.                                                          *)
(***************************************************************************)
ZeroedItem ==
  [key |-> NULL, val |-> NULL, bytes |-> 0, time |-> 0,
   refcount |-> 0, iflag |-> {}, slabs_clsid |-> 0]

InitCache(malloced, hash_items) ==
  [slabs |-> Slab!InitSlabs(malloced),
   assoc |-> Table!InitAssoc(hash_items),
   lru |-> [id \in 0 .. power_largest |-> <<>>],
   mem |-> <<>>,
   ok |-> TRUE]

Item(c, x) == IF x \in DOMAIN c.mem THEN c.mem[x] ELSE ZeroedItem

WithItem(c, x, it) ==
  [c EXCEPT !.mem = [y \in DOMAIN @ \cup {x} |-> IF y = x THEN it ELSE @[y]]]

Check(c, cond) == [c EXCEPT !.ok = @ /\ cond]

IsLinked(c, x) == LINKED \in Item(c, x).iflag

\* F applied to every outcome of a call.
Then(outcomes, F(_)) == UNION {F(o) : o \in outcomes}

-----------------------------------------------------------------------------

item_link_q(c, x) ==
  LET it == Item(c, x)
      q == c.lru[it.slabs_clsid]
  IN  Check([c EXCEPT !.lru[it.slabs_clsid] = <<x>> \o q],
            SLABBED \notin it.iflag /\ (q # <<>> => x # Head(q)))

\* The asserts on prev and next hold when the item is in the queue.
item_unlink_q(c, x) ==
  LET id == Item(c, x).slabs_clsid
  IN  Check([c EXCEPT !.lru[id] = RemoveFirst(@, x)],
            x \in Range(c.lru[id]))

\* Mutant: slabs_clsid is not reset.
item_free_KeepClass(c, x) ==
  LET it == Item(c, x)
      d == WithItem(c, x, [it EXCEPT !.iflag = @ \cup {SLABBED}])
  IN  {[d EXCEPT !.slabs = s] :
         s \in Slab!do_slabs_free(c.slabs, x, it.bytes, it.slabs_clsid)}

item_free(c, x) ==
  LET it == Item(c, x)
      q == c.lru[it.slabs_clsid]
      freed == [it EXCEPT !.slabs_clsid = 0, !.iflag = @ \cup {SLABBED}]
      d == Check(WithItem(c, x, freed),
                 /\ LINKED \notin it.iflag
                 /\ q # <<>> => x \notin {q[1], q[Len(q)]}
                 /\ it.refcount = 0)
  IN  {[d EXCEPT !.slabs = s] :
         s \in Slab!do_slabs_free(c.slabs, x, it.bytes, it.slabs_clsid)}

\* Mutant: the item is freed although it is referred to.
do_item_unlink_FreeHeld(c, x) ==
  LET it == Item(c, x)
      d == WithItem(c, x, [it EXCEPT !.iflag = @ \ {LINKED}])
      e == [d EXCEPT !.assoc = Table!assoc_delete(@, it.key)]
  IN  IF LINKED \notin it.iflag THEN {c} ELSE item_free(item_unlink_q(e, x), x)

do_item_unlink(c, x) ==
  LET it == Item(c, x)
      d == WithItem(c, x, [it EXCEPT !.iflag = @ \ {LINKED}])
      e == Check([d EXCEPT !.assoc = Table!assoc_delete(@, it.key)],
                 Table!assoc_find(c.assoc, it.key) # NULL)
      f == item_unlink_q(e, x)
  IN  IF LINKED \notin it.iflag THEN {c}
      ELSE IF it.refcount = 0 THEN item_free(f, x) ELSE {f}

\* Mutant: the last release of an unlinked item does not free it.
do_item_release_NoFree(c, x) ==
  LET it == Item(c, x)
      n == IF it.refcount # 0 THEN it.refcount - 1 ELSE 0
  IN  {WithItem(c, x, [it EXCEPT !.refcount = n])}

do_item_release(c, x) ==
  LET it == Item(c, x)
      n == IF it.refcount # 0 THEN it.refcount - 1 ELSE 0
      d == WithItem(c, x, [it EXCEPT !.refcount = n])
  IN  IF n = 0 /\ LINKED \notin it.iflag THEN item_free(d, x) ELSE {d}

\* Mutant: an item keeps its time for a second more.
do_item_update_Late(c, x, now) ==
  LET it == Item(c, x)
      e == item_unlink_q(c, x)
  IN  IF it.time + ITEM_UPDATE_INTERVAL + 1 >= now \/ LINKED \notin it.iflag THEN c
      ELSE item_link_q(WithItem(e, x, [it EXCEPT !.time = now]), x)

\* Mutant: the item is put at the head of the queue, and not taken out of it.
do_item_update_Twice(c, x, now) ==
  LET it == Item(c, x) IN
  IF it.time >= now - ITEM_UPDATE_INTERVAL \/ LINKED \notin it.iflag THEN c
  ELSE item_link_q(WithItem(c, x, [it EXCEPT !.time = now]), x)

\* Mutant: the item gets its new time and keeps its old place.
do_item_update_KeepPlace(c, x, now) ==
  LET it == Item(c, x) IN
  IF it.time >= now - ITEM_UPDATE_INTERVAL \/ LINKED \notin it.iflag THEN c
  ELSE WithItem(c, x, [it EXCEPT !.time = now])

\* An item seen within ITEM_UPDATE_INTERVAL keeps its place and its time.
do_item_update(c, x, now) ==
  LET it == Item(c, x)
      d == Check(c, SLABBED \notin it.iflag)
      e == item_unlink_q(d, x)
  IN  IF it.time >= now - ITEM_UPDATE_INTERVAL THEN c
      ELSE IF LINKED \notin it.iflag THEN d
      ELSE item_link_q(WithItem(e, x, [it EXCEPT !.time = now]), x)

\* Mutant: no reference is counted.
do_item_get_NoCount(c, key, now) ==
  LET x == Table!assoc_find(c.assoc, key) IN
  IF x = NULL THEN [it |-> NULL, c |-> c]
  ELSE [it |-> x, c |-> do_item_update(c, x, now)]

do_item_get(c, key, now) ==
  LET x == Table!assoc_find(c.assoc, key)
      it == Item(c, x)
      d == WithItem(c, x, [it EXCEPT !.refcount = (@ + 1) % RefMod])
  IN  IF x = NULL THEN [it |-> NULL, c |-> c]
      ELSE [it |-> x, c |-> do_item_update(d, x, now)]

do_item_link(c, x, now) ==
  LET it == Item(c, x)
      d == Check(WithItem(c, x, [it EXCEPT !.iflag = @ \cup {LINKED}, !.time = now]),
                 /\ it.iflag \cap {LINKED, SLABBED} = {}
                 /\ Table!assoc_find(c.assoc, it.key) = NULL)
  IN  {item_link_q([d EXCEPT !.assoc = a], x) :
         a \in Table!assoc_insert(c.assoc, x, it.key)}

do_item_replace(c, x, new, now) ==
  Then(do_item_unlink(Check(c, SLABBED \notin Item(c, x).iflag), x),
       LAMBDA d : do_item_link(d, new, now))

\* Mutant: the reference to the replaced item is not given back.
do_store_item_NoRelease(c, x, now) ==
  LET old == do_item_get(c, Item(c, x).key, now)
  IN  IF old.it = NULL THEN do_item_link(c, x, now)
      ELSE do_item_replace(old.c, old.it, x, now)

\* Mutant: the item with the same key is not replaced.
do_store_item_NoReplace(c, x, now) == do_item_link(c, x, now)

do_store_item(c, x, now) ==
  LET old == do_item_get(c, Item(c, x).key, now)
  IN  IF old.it = NULL THEN do_item_link(c, x, now)
      ELSE Then(do_item_replace(old.c, old.it, x, now),
                LAMBDA d : do_item_release(d, old.it))

-----------------------------------------------------------------------------
(***************************************************************************)
(* do_item_alloc.                                                          *)
(***************************************************************************)

slabs_alloc(c, bytes, id) ==
  {[it |-> o.ret, c |-> [c EXCEPT !.slabs = o.s]] :
     o \in Slab!do_slabs_alloc(c.slabs, bytes, id)}

\* The places of the SEARCH_ITEMS items from the tail up that an item may be
\* found in, and of a set of such places the one the search meets first.
Searched(c, id) ==
  LET n == Len(c.lru[id]) IN
  {i \in 1 .. n : i > n - SEARCH_ITEMS}

\* Mutant: the search goes from the head end of the searched items.
FirstMet_FromHead(c, id, hits) ==
  c.lru[id][CHOOSE i \in hits : \A j \in hits : i <= j]

FirstMet(c, id, hits) ==
  c.lru[id][CHOOSE i \in hits : \A j \in hits : j <= i]

\* Mutant: only the tail is looked at.
EvictUnused_TailOnly(c, id) ==
  LET x == c.lru[id][Len(c.lru[id])]
  IN  IF Item(c, x).refcount # 0 THEN {c} ELSE do_item_unlink(c, x)

\* The first search: unlink, and so free, an item that nobody refers to.
EvictUnused(c, id) ==
  LET unused == {i \in Searched(c, id) : Item(c, c.lru[id][i]).refcount = 0}
  IN  IF unused = {} THEN {c}
      ELSE do_item_unlink(c, FirstMet(c, id, unused))

\* Mutant: TAIL_REPAIR_TIME is not waited for.
RepairTail_AtOnce(c, id, now) ==
  LET used == {i \in Searched(c, id) : Item(c, c.lru[id][i]).refcount # 0}
      x == FirstMet(c, id, used)
  IN  IF used = {} THEN {c}
      ELSE do_item_unlink(WithItem(c, x, [Item(c, x) EXCEPT !.refcount = 0]), x)

\* The second search: "free it anyway", after TAIL_REPAIR_TIME.
RepairTail(c, id, now) ==
  LET stuck == {i \in Searched(c, id) :
                  LET it == Item(c, c.lru[id][i]) IN
                  it.refcount # 0 /\ it.time + TAIL_REPAIR_TIME < now}
      x == FirstMet(c, id, stuck)
  IN  IF stuck = {} THEN {c}
      ELSE do_item_unlink(WithItem(c, x, [Item(c, x) EXCEPT !.refcount = 0]), x)

\* The header of the chunk that was found.
InitItem(c, x, key, bytes, id) ==
  LET d == Check(c, Item(c, x).slabs_clsid = 0
                    /\ (c.lru[id] # <<>> => x # Head(c.lru[id])))
  IN  WithItem(d, x, [Item(c, x) EXCEPT
                        !.key = key, !.bytes = bytes, !.refcount = 1,
                        !.iflag = {}, !.slabs_clsid = id])

do_item_alloc(c, key, bytes, now) ==
  LET id == Slab!slabs_clsid(bytes)
      first == slabs_alloc(c, bytes, id)
      second == Then(first,
                  LAMBDA o : IF o.it # NULL \/ o.c.lru[id] = <<>> THEN {o}
                             ELSE Then(EvictUnused(o.c, id),
                                       LAMBDA d : slabs_alloc(d, bytes, id)))
      third == Then(second,
                  LAMBDA o : IF o.it # NULL \/ c.lru[id] = <<>> THEN {o}
                             ELSE Then(RepairTail(o.c, id, now),
                                       LAMBDA d : slabs_alloc(d, bytes, id)))
  IN  IF id = 0 THEN {[it |-> NULL, c |-> c]}
      ELSE {IF o.it = NULL THEN o
            ELSE [o EXCEPT !.c = InitItem(@, o.it, key, bytes, id)] : o \in third}

-----------------------------------------------------------------------------
(***************************************************************************)
(* What the cache's data structures mean.                                  *)
(***************************************************************************)

LinkedItems(c) == {x \in DOMAIN c.mem : IsLinked(c, x)}

FreeItems(c) ==
  UNION {Range(c.slabs.slabclass[id].slots) : id \in DOMAIN c.slabs.slabclass}

\* No chunk of class id is to be had but by freeing one: none is free or left
\* of the newest page, and another page is beyond the limit, or the arena.
OutOfMemory(c, id) ==
  LET s == c.slabs
      p == s.slabclass[id]
  IN  /\ p.slots = <<>> /\ p.end_page_ptr = NULL
      /\ \/ /\ mem_limit # 0 /\ p.slabs > 0
            /\ s.mem_malloced + Slab!PageLen(id) > mem_limit
         \/ preallocate /\ Slab!PageLen(id) > s.mem_avail

\* Linked items, and no others, are in the table under their keys and in the
\* queue of their class, and each is there once.
TableAndQueuesAgree(c) ==
  /\ {<<Table!At(c.assoc, p).it, Table!At(c.assoc, p).key>> :
         p \in Table!Places(c.assoc)}
       = {<<x, Item(c, x).key>> : x \in LinkedItems(c)}
  /\ Cardinality(Table!Places(c.assoc)) = Cardinality(LinkedItems(c))
  /\ \A id \in DOMAIN c.lru :
       /\ Range(c.lru[id]) = {x \in LinkedItems(c) : Item(c, x).slabs_clsid = id}
       /\ IsInjective(c.lru[id])

\* From head to tail the items get older.
QueuesSorted(c) ==
  \A id \in DOMAIN c.lru :
    \A i, j \in DOMAIN c.lru[id] :
      i < j => Item(c, c.lru[id][i]).time >= Item(c, c.lru[id][j]).time
=============================================================================
