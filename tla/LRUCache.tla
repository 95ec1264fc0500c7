------------------------------ MODULE LRUCache ------------------------------
(***************************************************************************)
(* LRU_Lists as a component: its five public operations, each a critical   *)
(* section of cache_lock, called by clients that follow its protocol, and  *)
(* the maintenance thread of its hash table.  A client gets a reference    *)
(* with item_alloc or item_get, gives it back with item_release, stores an *)
(* item it allocated at most once, and holds no reference longer than      *)
(* MaxHold seconds.  (DataCache, the only client in the repository, is     *)
(* module DataCache: it does not give its references back.)                *)
(***************************************************************************)
EXTENDS LRULists

CONSTANTS
  Clients, Vals,
  ItemBytes,         \* the values of ntotal = header + key + data
  MaxHold,
  StartTime, MaxTime \* bounds of the clock; times are seconds since 1970

ASSUME LRUCacheAssumption ==
  /\ StartTime \in Nat /\ MaxTime \in Nat
  /\ ITEM_UPDATE_INTERVAL <= StartTime /\ StartTime <= MaxTime
  /\ ItemBytes \subseteq Nat
  /\ NULL \notin Keys \cup Vals

VARIABLES
  cache,
  now,
  held     \* the reference of every client: to what, since when, and whether
           \* the item is still to be stored

vars == <<cache, now, held>>

NoRef == [it |-> NULL, new |-> FALSE, key |-> NULL, val |-> NULL, since |-> 0]

Init ==
  /\ cache = InitCache(0, 0)
  /\ now = StartTime
  /\ held = [t \in Clients |-> NoRef]

\* The client fills in the data of the new item, outside the lock but before
\* anybody else can find it.
item_alloc(t, k, v, bytes) ==
  /\ held[t] = NoRef
  /\ \E o \in do_item_alloc(cache, k, bytes, now) :
       IF o.it = NULL
       THEN cache' = o.c /\ UNCHANGED held
       ELSE /\ cache' = WithItem(o.c, o.it, [Item(o.c, o.it) EXCEPT !.val = v])
            /\ held' = [held EXCEPT ![t] = [it |-> o.it, new |-> TRUE, key |-> k,
                                            val |-> v, since |-> now]]
  /\ UNCHANGED now

store_item(t) ==
  /\ held[t].new
  /\ cache' \in do_store_item(cache, held[t].it, now)
  /\ held' = [held EXCEPT ![t].new = FALSE]
  /\ UNCHANGED now

item_get(t, k) ==
  /\ held[t] = NoRef
  /\ LET o == do_item_get(cache, k, now) IN
     /\ cache' = o.c
     /\ held' = [held EXCEPT ![t] =
          IF o.it = NULL THEN NoRef
          ELSE [it |-> o.it, new |-> FALSE, key |-> k,
                val |-> Item(cache, o.it).val, since |-> now]]
  /\ UNCHANGED now

item_unlink(t) ==
  /\ held[t].it # NULL
  /\ ~held[t].new
  /\ cache' \in do_item_unlink(cache, held[t].it)
  /\ UNCHANGED <<held, now>>

item_release(t) ==
  /\ held[t].it # NULL
  /\ cache' \in do_item_release(cache, held[t].it)
  /\ held' = [held EXCEPT ![t] = NoRef]
  /\ UNCHANGED now

\* A turn of the maintenance thread; there is one while expanding (AssocArray).
Maintain ==
  /\ cache.assoc.expanding
  /\ cache' = [cache EXCEPT !.assoc = Table!MigrateBucket(@)]
  /\ UNCHANGED <<held, now>>

Tick ==
  /\ now < MaxTime
  /\ \A t \in Clients : held[t].it # NULL => now + 1 - held[t].since <= MaxHold
  /\ now' = now + 1
  /\ UNCHANGED <<cache, held>>

Next ==
  \/ \E t \in Clients :
       \/ \E k \in Keys, v \in Vals, bytes \in ItemBytes : item_alloc(t, k, v, bytes)
       \/ store_item(t)
       \/ \E k \in Keys : item_get(t, k)
       \/ item_unlink(t)
       \/ item_release(t)
  \/ Maintain
  \/ Tick

Spec == Init /\ [][Next]_vars

-----------------------------------------------------------------------------

HeldItems == {held[t].it : t \in Clients} \ {NULL}

\* The types of the headers and of the references.
TypeOK ==
  /\ \A x \in DOMAIN cache.mem :
       LET it == cache.mem[x] IN
       /\ it.key \in Keys
       /\ it.val \in Vals \cup {NULL}
       /\ it.time \in 0 .. MaxTime
       /\ it.refcount \in 0 .. RefMod - 1
       /\ it.iflag \subseteq {LINKED, SLABBED}
       /\ it.slabs_clsid \in 0 .. power_largest
  /\ HeldItems \subseteq DOMAIN cache.mem
  /\ now \in StartTime .. MaxTime

(***************************************************************************)
(* No assert of lru.cpp or assoc.cpp ever fails, and every value keeps its *)
(* type.                                                                   *)
(***************************************************************************)
AssertsHold == TypeOK /\ cache.ok

(***************************************************************************)
(* ITEM_LINKED, the hash table and the LRU queues say the same: an item is *)
(* in all three or in none, and in each once (lru.cpp:135-159).            *)
(***************************************************************************)
LinkedEverywhere == TableAndQueuesAgree(cache)

(***************************************************************************)
(* The references that clients hold are counted, no more and no less: the  *)
(* refcount of an item is 0 again when the last of them is given back.     *)
(***************************************************************************)
RefcountExact ==
  \A x \in LinkedItems(cache) \cup HeldItems :
    Item(cache, x).refcount = Cardinality({t \in Clients : held[t].it = x})

(***************************************************************************)
(* Every chunk of memory is free, linked or held by a client, and a free   *)
(* one is neither: nothing leaks, nothing is used after it is freed.       *)
(***************************************************************************)
NoChunkLeaked ==
  /\ Slab!Partitioned(cache.slabs, LinkedItems(cache) \cup HeldItems, {})
  /\ \A x \in DOMAIN cache.mem :
       SLABBED \in Item(cache, x).iflag <=> x \in FreeItems(cache)

(***************************************************************************)
(* An item that a client holds keeps its key and data, however often other *)
(* clients replace, delete or evict it (lru.cpp:74-76, 94-96).             *)
(***************************************************************************)
HeldIntact ==
  \A t \in Clients :
    LET r == held[t] IN
    r.it # NULL =>
      /\ Item(cache, r.it).key = r.key
      /\ Item(cache, r.it).val = r.val
      /\ SLABBED \notin Item(cache, r.it).iflag

(***************************************************************************)
(* The queues are ordered by time, so that the search from the tail meets  *)
(* the items that have not been used for longest first.                    *)
(***************************************************************************)
LeastRecentAtTail == QueuesSorted(cache)

(***************************************************************************)
(* An item that is linked and held has a time at most ITEM_UPDATE_INTERVAL *)
(* older than the reference: no more than this can the order of the queues *)
(* and the age that tail repair goes by lag behind the use of an item      *)
(* (lru.cpp:171).                                                          *)
(***************************************************************************)
TimeLagBounded ==
  \A t \in Clients :
    LET r == held[t] IN
    r.it # NULL /\ IsLinked(cache, r.it) =>
      Item(cache, r.it).time + ITEM_UPDATE_INTERVAL >= r.since

(***************************************************************************)
(* item_alloc fails in two cases only: the request is of no class, since   *)
(* it is longer than any chunk (lru.cpp:70); or no chunk of its class is   *)
(* free, a new page is beyond the limit, and every one of the SEARCH_ITEMS *)
(* items nearest the tail is referred to (lru.cpp:73-108).                 *)
(***************************************************************************)
AllocFailsOnlyIfHeld ==
  \A bytes \in ItemBytes, k \in Keys :
    \A o \in do_item_alloc(cache, k, bytes, now) :
      o.it = NULL =>
        LET id == Slab!slabs_clsid(bytes) IN
        \/ id = 0 /\ (bytes = 0 \/ bytes > size[power_largest])
        \/ /\ id # 0
           /\ OutOfMemory(cache, id)
           /\ \A i \in Searched(cache, id) : Item(cache, cache.lru[id][i]).refcount # 0

(***************************************************************************)
(* What item_alloc unlinks to make room no client holds, and of the items  *)
(* of its class that no client holds none has been unused for longer.      *)
(***************************************************************************)
Allocates == \E t \in Clients : held[t] = NoRef /\ held'[t].new

EvictsOldestUnused ==
  [][Allocates =>
       \A x \in LinkedItems(cache) \ LinkedItems(cache') :
         /\ x \notin HeldItems
         /\ \A y \in LinkedItems(cache') \ HeldItems :
              Item(cache, y).slabs_clsid = Item(cache, x).slabs_clsid =>
                Item(cache, x).time <= Item(cache, y).time]_vars
=============================================================================
