--------------------------- MODULE LRUCacheProofs ---------------------------
(***************************************************************************)
(* Theorems about the clients of LRU_Lists in module LRUCache, for every   *)
(* value of the constants under the premises of the protocol.              *)
(***************************************************************************)
EXTENDS LRUCache, LRUListsProofs

(***************************************************************************)
(* What the code takes for granted: no key is a prefix of another with the *)
(* same hash, a refcount has room for all clients, and a reference is not  *)
(* held so long that the tail of a queue would be repaired.                *)
(***************************************************************************)
Premises ==
  /\ NoPrefixes
  /\ IsFiniteSet(Clients) /\ Cardinality(Clients) < RefMod
  /\ MaxHold \in Nat /\ MaxHold + ITEM_UPDATE_INTERVAL <= TAIL_REPAIR_TIME

-----------------------------------------------------------------------------
(***************************************************************************)
(* The inductive invariant: with the data structures in order (CacheOK,    *)
(* QueuesSorted), what is known of the references h of the clients and of  *)
(* the items they refer to, at time n.                                     *)
(***************************************************************************)

IsRef(r) ==
  /\ r = [it |-> r.it, new |-> r.new, key |-> r.key, val |-> r.val, since |-> r.since]
  /\ r.new \in BOOLEAN /\ r.since \in Nat
  /\ r.it = NULL => r = NoRef

Holders(h, x) == Referrers(Clients, h, x)
Count(h, x) == RefsTo(Clients, h, x)

\* The item of the reference of t, and the reference.
RefOK(c, h, n, t) ==
  LET r == h[t]
      x == r.it
  IN  /\ IsRef(r)
      /\ x # NULL =>
           /\ x \in Occupied(c) /\ Item(c, x).key = r.key /\ Item(c, x).val = r.val
           /\ r.key \in Keys
           /\ r.since <= n /\ n - r.since <= MaxHold
           /\ r.new => ~IsLinked(c, x) /\ Holders(h, x) = {t}
           /\ IsLinked(c, x) => Item(c, x).time >= r.since - ITEM_UPDATE_INTERVAL

ItemOK(c, h, n, x) ==
  /\ Item(c, x).time <= n /\ Item(c, x).val \in Vals \cup {NULL}
  /\ ~IsSlabbed(c, x) => /\ Item(c, x).refcount = Count(h, x)
                         /\ IsLinked(c, x) \/ Item(c, x).refcount # 0

RefsOK(c, h, n) ==
  /\ IsTable(Clients, h) /\ n \in StartTime .. MaxTime
  /\ \A t \in Clients : RefOK(c, h, n, t)
  /\ \A x \in DOMAIN c.mem : ItemOK(c, h, n, x)

AllOK(c, h, n) == CacheOK(c, {}) /\ QueuesSorted(c) /\ RefsOK(c, h, n)

Inv == AllOK(cache, held, now)

-----------------------------------------------------------------------------

\* What a held item is like.
LEMMA HeldItem ==
  ASSUME IsFiniteSet(Clients), NEW c, NEW h, NEW n, AllOK(c, h, n), NEW t \in Clients, h[t].it # NULL
  PROVE  LET x == h[t].it IN
         /\ x \in Occupied(c) /\ x \in DOMAIN c.mem /\ IsItem(Item(c, x)) /\ Item(c, x).key \in Keys
         /\ t \in Holders(h, x) /\ Count(h, x) # 0
         /\ Item(c, x).refcount = Count(h, x) /\ Item(c, x).refcount # 0
<1> DEFINE x == h[t].it
<1>1. x \in Occupied(c) /\ x \in DOMAIN c.mem /\ ~IsSlabbed(c, x)
  BY DEF AllOK, RefsOK, RefOK, Occupied
<1>2. IsItem(Item(c, x)) /\ Item(c, x).key \in Keys
  BY <1>1, ItemType DEF AllOK, CacheOK
<1>3. t \in Holders(h, x)
  BY DEF Holders, Referrers
<1>4. Count(h, x) # 0
  BY <1>3, RefsType DEF Holders, Count
<1>5. Item(c, x).refcount = Count(h, x)
  BY <1>1 DEF AllOK, RefsOK, ItemOK
<1> QED
  BY <1>1, <1>2, <1>3, <1>4, <1>5

\* No reference is old enough for the tail to be repaired.
NoneStuck(c, n) ==
  \A y \in LinkedItems(c) : Item(c, y).refcount # 0 => Item(c, y).time + TAIL_REPAIR_TIME >= n

LEMMA NothingStuck ==
  ASSUME Premises, NEW c, NEW h, NEW n, AllOK(c, h, n)
  PROVE  n \in Nat /\ NoneStuck(c, n) /\ NotAfter(c, n)
<1>1. n \in Nat /\ TAIL_REPAIR_TIME \in Nat /\ ITEM_UPDATE_INTERVAL \in Nat /\ MaxHold \in Nat
  BY LRUCacheAssumption, LRUListsAssumption DEF AllOK, RefsOK, Premises
<1>2. ASSUME NEW y \in LinkedItems(c), Item(c, y).refcount # 0
      PROVE  Item(c, y).time + TAIL_REPAIR_TIME >= n
  <2>1. y \in DOMAIN c.mem /\ ~IsSlabbed(c, y) /\ IsLinked(c, y) /\ Item(c, y).time \in Nat
    BY DEF LinkedItems, AllOK, CacheOK, HeadersOK, IsItem
  <2>2. Count(h, y) # 0
    BY <1>2, <2>1 DEF AllOK, RefsOK, ItemOK
  <2>3. PICK t \in Holders(h, y) : TRUE
    BY <2>2, RefsType DEF Premises, Holders, Count
  <2>4. t \in Clients /\ h[t].it = y /\ y # NULL
    BY <2>1, <2>3, NullIsNoChunk DEF Holders, AllOK, CacheOK, HeadersOK, Referrers
  <2>5. /\ h[t].since \in Nat /\ n - h[t].since <= MaxHold
        /\ Item(c, y).time >= h[t].since - ITEM_UPDATE_INTERVAL
    BY <2>1, <2>4 DEF AllOK, RefsOK, RefOK, IsRef
  <2>6. MaxHold + ITEM_UPDATE_INTERVAL <= TAIL_REPAIR_TIME
    BY DEF Premises
  <2> QED BY <1>1, <2>1, <2>5, <2>6
<1>3. NotAfter(c, n)
  BY DEF NotAfter, LinkedItems, AllOK, RefsOK, ItemOK
<1> QED
  BY <1>1, <1>2, <1>3 DEF NoneStuck

-----------------------------------------------------------------------------
(***************************************************************************)
(* One lemma for each action: it keeps the invariant.                      *)
(***************************************************************************)

\* A reference that the step leaves alone, as it leaves its item, or nearly.
LEMMA RefKept ==
  ASSUME NEW c, NEW h, NEW n, NEW d, NEW g, NEW u, RefOK(c, h, n, u), g[u] = h[u],
         h[u].it # NULL =>
           /\ h[u].it \in Occupied(d)
           /\ Item(d, h[u].it).key = Item(c, h[u].it).key
           /\ Item(d, h[u].it).val = Item(c, h[u].it).val
           /\ h[u].new => ~IsLinked(d, h[u].it) /\ Holders(g, h[u].it) = Holders(h, h[u].it)
           /\ IsLinked(d, h[u].it) =>
                \/ IsLinked(c, h[u].it) /\ Item(d, h[u].it).time = Item(c, h[u].it).time
                \/ Item(d, h[u].it).time >= h[u].since - ITEM_UPDATE_INTERVAL
  PROVE  RefOK(d, g, n, u)
BY DEF RefOK

\* What is as it was, in another state of the cache or of the references.
LEMMA ItemKept ==
  ASSUME NEW c, NEW h, NEW n, NEW d, NEW g, NEW x, ItemOK(c, h, n, x),
         Item(d, x) = Item(c, x), Count(g, x) = Count(h, x)
  PROVE  ItemOK(d, g, n, x)
BY DEF ItemOK, IsSlabbed, IsLinked

LEMMA NoRefIsRef == IsRef(NoRef) /\ NoRef.it = NULL /\ NoRef.new = FALSE
BY DEF IsRef, NoRef

LEMMA GetStep ==
  ASSUME Premises, NEW c, NEW h, NEW n, AllOK(c, h, n), NEW t \in Clients, h[t] = NoRef,
         NEW k \in Keys, NEW o, o = do_item_get(c, k, n), o.it # NULL,
         NEW r, r = [it |-> o.it, new |-> FALSE, key |-> k, val |-> Item(c, o.it).val, since |-> n],
         NEW g, g = WithEntry(h, t, r)
  PROVE  AllOK(o.c, g, n)
<1> DEFINE x == Found(c.assoc)[k]
           d == o.c
<1>1. n \in Nat /\ NotAfter(c, n) /\ CacheOK(c, {}) /\ QueuesSorted(c) /\ IsTable(Clients, h)
      /\ IsFiniteSet(Clients) /\ Cardinality(Clients) < RefMod
      /\ ITEM_UPDATE_INTERVAL \in Nat /\ MaxHold \in Nat
  BY NothingStuck, LRUListsAssumption DEF AllOK, RefsOK, Premises
<1>2. x # NULL /\ x \in LinkedItems(c)
  <2>1. x # NULL
    BY DEF do_item_get, Found
  <2> QED BY <1>1, <2>1 DEF CacheOK, TableAgrees
<1>3. x \in Occupied(c) /\ x \in DOMAIN c.mem /\ ~IsSlabbed(c, x) /\ IsLinked(c, x)
  BY <1>1, <1>2 DEF CacheOK, HeadersOK, Occupied, LinkedItems
<1>4. Item(c, x).refcount = Count(h, x) /\ Count(h, x) + 1 <= Cardinality(Clients)
      /\ Count(h, x) \in Nat /\ Cardinality(Clients) \in Nat
  <2>1. h[t].it # x
    BY <1>2, NoRefIsRef
  <2>2. ItemOK(c, h, n, x)
    BY <1>3 DEF AllOK, RefsOK
  <2>3. Count(h, x) + 1 <= Cardinality(Clients) /\ Count(h, x) \in Nat /\ Cardinality(Clients) \in Nat
    BY <1>1, <2>1, RefsBound, RefsType, FS_CardinalityType DEF Holders, Count
  <2> QED BY <1>3, <2>2, <2>3 DEF ItemOK
<1>5. Item(c, x).refcount + 1 < RefMod
  BY <1>1, <1>4, RefType
<1>6. /\ o.it = x /\ IsLinked(c, x) /\ Item(c, x).key = k
      /\ CacheOK(d, {}) /\ DOMAIN d.mem = DOMAIN c.mem
      /\ \A y : y # x => Item(d, y) = Item(c, y)
      /\ Item(d, x).key = k /\ Item(d, x).val = Item(c, x).val
      /\ Item(d, x).refcount = Item(c, x).refcount + 1
      /\ IsLinked(d, x) /\ ~IsSlabbed(d, x)
      /\ Item(d, x).time = Item(c, x).time \/ Item(d, x).time = n
      /\ Item(d, x).time >= n - ITEM_UPDATE_INTERVAL
      /\ QueuesSorted(c) /\ NotAfter(c, n) => QueuesSorted(d)
  <2>1. CacheOK(c, {}) /\ n \in Nat /\ x # NULL
    BY <1>1, <1>2
  <2> DEFINE y == x
  <2>2. y = Found(c.assoc)[k] /\ y # NULL /\ Item(c, y).refcount + 1 < RefMod
    BY <1>2, <1>5
  <2> HIDE DEF y
  <2>3. /\ o.it = y /\ IsLinked(c, y) /\ Item(c, y).key = k
        /\ CacheOK(o.c, {}) /\ DOMAIN o.c.mem = DOMAIN c.mem
        /\ \A z : z # y => Item(o.c, z) = Item(c, z)
        /\ Item(o.c, y).key = k /\ Item(o.c, y).val = Item(c, y).val
        /\ Item(o.c, y).refcount = Item(c, y).refcount + 1
        /\ IsLinked(o.c, y) /\ ~IsSlabbed(o.c, y)
        /\ Item(o.c, y).time = Item(c, y).time \/ Item(o.c, y).time = n
        /\ Item(o.c, y).time >= n - ITEM_UPDATE_INTERVAL
        /\ QueuesSorted(c) /\ NotAfter(c, n) => QueuesSorted(o.c)
    BY <2>1, <2>2, GetItem
  <2> QED BY <2>3 DEF y
<1> HIDE DEF x, d
<1>7. IsRef(r) /\ r.it = x /\ r.new = FALSE /\ r.key = k /\ r.val = Item(c, x).val /\ r.since = n
  BY <1>1, <1>2, <1>6 DEF IsRef
<1>8. /\ g[t] = r /\ IsTable(Clients, g) /\ \A u \in Clients : u # t => g[u] = h[u]
  BY <1>1, WithEntryView
<1>9. /\ Holders(g, x) = Holders(h, x) \cup {t} /\ Count(g, x) = Count(h, x) + 1
      /\ \A y \in DOMAIN c.mem : y # x => Holders(g, y) = Holders(h, y) /\ Count(g, y) = Count(h, y)
  <2>1. h[t].it = NULL /\ r.it # h[t].it
    BY <1>2, <1>7, NoRefIsRef
  <2>2. NULL \notin DOMAIN c.mem
    BY <1>1, NullIsNoChunk DEF CacheOK, HeadersOK
  <2> QED BY <1>1, <1>7, <2>1, <2>2, RefsChange DEF Holders, Count
<1>10. ASSUME NEW u \in Clients PROVE RefOK(d, g, n, u)
  <2>1. CASE u = t
    <3>1. x \in Occupied(d)
      BY <1>3, <1>6 DEF Occupied
    <3>2. n <= n /\ n - n <= MaxHold
      BY <1>1
    <3>3. /\ IsRef(g[t]) /\ g[t].it = x /\ ~g[t].new /\ g[t].key = k
          /\ g[t].val = Item(c, x).val /\ g[t].since = n
      BY <1>7, <1>8
    <3> QED BY <1>6, <2>1, <3>1, <3>2, <3>3 DEF RefOK
  <2>2. CASE u # t
    <3> DEFINE y == h[u].it
    <3>1. RefOK(c, h, n, u) /\ g[u] = h[u]
      BY <1>8, <2>2 DEF AllOK, RefsOK
    <3>2. ASSUME y # NULL
          PROVE  /\ y \in Occupied(d)
                 /\ Item(d, y).key = Item(c, y).key /\ Item(d, y).val = Item(c, y).val
                 /\ h[u].new => ~IsLinked(d, y) /\ Holders(g, y) = Holders(h, y)
                 /\ IsLinked(d, y) => \/ IsLinked(c, y) /\ Item(d, y).time = Item(c, y).time
                                      \/ Item(d, y).time >= h[u].since - ITEM_UPDATE_INTERVAL
      <4>1. /\ y \in Occupied(c) /\ y \in DOMAIN c.mem
            /\ h[u].new => ~IsLinked(c, y)
            /\ h[u].since <= n /\ h[u].since \in Nat
        BY <3>1, <3>2 DEF RefOK, IsRef, Occupied
      <4>2. CASE y = x
        <5>1. Item(d, x).time >= h[u].since - ITEM_UPDATE_INTERVAL \/ Item(d, x).time = Item(c, x).time
          BY <1>1, <1>6, <4>1
        <5>2. x \in Occupied(d) /\ IsLinked(c, x)
          BY <1>3, <1>6 DEF Occupied
        <5>3. ~h[u].new
          BY <4>1, <4>2, <5>2
        <5> QED BY <1>6, <4>2, <5>1, <5>2, <5>3
      <4>3. CASE y # x
        BY <1>6, <1>9, <4>1, <4>3 DEF Occupied, IsLinked, IsSlabbed
      <4> QED BY <4>2, <4>3
    <3> QED BY <3>1, <3>2, RefKept
  <2> QED BY <2>1, <2>2
<1>11. ASSUME NEW y \in DOMAIN d.mem PROVE ItemOK(d, g, n, y)
  <2>1. ItemOK(c, h, n, y)
    BY <1>6, <1>11 DEF AllOK, RefsOK
  <2>2. CASE y = x
    BY <1>1, <1>4, <1>6, <1>9, <2>1, <2>2 DEF ItemOK
  <2>3. CASE y # x
    BY <1>6, <1>9, <1>11, <2>1, <2>3, ItemKept
  <2> QED BY <2>2, <2>3
<1> QED
  BY <1>1, <1>6, <1>8, <1>10, <1>11 DEF AllOK, RefsOK, d

\* The same items and references, and data structures in order.
LEMMA SameItems ==
  ASSUME NEW c, NEW h, NEW n, AllOK(c, h, n), NEW d, CacheOK(d, {}), QueuesSorted(d),
         DOMAIN d.mem = DOMAIN c.mem, \A y : Item(d, y) = Item(c, y)
  PROVE  AllOK(d, h, n)
<1>1. ASSUME NEW u \in Clients PROVE RefOK(d, h, n, u)
  <2>1. RefOK(c, h, n, u)
    BY DEF AllOK, RefsOK
  <2>2. \A y : (y \in Occupied(d) <=> y \in Occupied(c)) /\ (IsLinked(d, y) <=> IsLinked(c, y))
    BY DEF Occupied, IsSlabbed, IsLinked
  <2> QED BY <2>1, <2>2 DEF RefOK
<1>2. ASSUME NEW y \in DOMAIN d.mem PROVE ItemOK(d, h, n, y)
  BY <1>2, ItemKept DEF AllOK, RefsOK
<1> QED
  BY <1>1, <1>2 DEF AllOK, RefsOK

\* So an item that goes is one that nobody refers to.
LEMMA NothingGoes ==
  ASSUME Premises, NEW c, NEW h, NEW n, AllOK(c, h, n), NEW y, MayGo(c, y, n)
  PROVE  Item(c, y).refcount = 0
<1>1. n \in Nat /\ NoneStuck(c, n) /\ TAIL_REPAIR_TIME \in Nat
  BY NothingStuck, LRUListsAssumption
<1>2. CASE y \in LinkedItems(c)
  <2>1. Item(c, y).time \in Nat
    BY <1>2 DEF LinkedItems, AllOK, CacheOK, HeadersOK, IsItem
  <2> QED BY <1>1, <1>2, <2>1 DEF NoneStuck, MayGo
<1>3. CASE y \notin LinkedItems(c)
  BY <1>3 DEF MayGo, LinkedItems, IsLinked, Item, ZeroedItem
<1> QED
  BY <1>2, <1>3

\* Making room frees items that nobody refers to.
LEMMA MadeStep ==
  ASSUME Premises, NEW c, NEW h, NEW n, AllOK(c, h, n), NEW e, Made(c, e, n)
  PROVE  AllOK(e, h, n)
<1>1. CacheOK(e, {}) /\ QueuesSorted(e) /\ DOMAIN e.mem = DOMAIN c.mem
  BY DEF Made, AllOK
<1>2. ASSUME NEW u \in Clients PROVE RefOK(e, h, n, u)
  <2> DEFINE y == h[u].it
  <2>1. RefOK(c, h, n, u)
    BY DEF AllOK, RefsOK
  <2>2. ASSUME y # NULL PROVE Item(e, y) = Item(c, y) /\ y \in Occupied(e)
    <3>1. Item(c, y).refcount # 0 /\ y \in Occupied(c)
      BY <2>2, HeldItem DEF Premises
    <3>2. Item(e, y) = Item(c, y)
      BY <3>1, NothingGoes DEF Made
    <3> QED BY <1>1, <3>1, <3>2 DEF Occupied, IsSlabbed
  <2> QED BY <2>1, <2>2 DEF RefOK, IsLinked
<1>3. ASSUME NEW y \in DOMAIN e.mem PROVE ItemOK(e, h, n, y)
  <2>1. ItemOK(c, h, n, y)
    BY <1>1, <1>3 DEF AllOK, RefsOK
  <2>2. CASE Item(e, y) = Item(c, y)
    BY <2>1, <2>2, ItemKept
  <2>3. CASE Item(e, y) # Item(c, y)
    <3>1. IsSlabbed(e, y) /\ Item(e, y).time = Item(c, y).time /\ Item(e, y).val = Item(c, y).val
      BY <2>3 DEF Made
    <3> QED BY <2>1, <3>1 DEF ItemOK
  <2> QED BY <2>2, <2>3
<1> QED
  BY <1>1, <1>2, <1>3 DEF AllOK, RefsOK

\* The data that the client fills in.
\* A new item, with the data and the reference of its client.
LEMMA NewStep ==
  ASSUME Premises, NEW c, NEW h, NEW n, AllOK(c, h, n), NEW t \in Clients, h[t] = NoRef,
         NEW k \in Keys, NEW v \in Vals, NEW e, CacheOK(e, {}), QueuesSorted(e), NEW x, x # NULL,
         NewItem(c, e, x, k), x \notin Occupied(c),
         NEW d, d = WithItem(e, x, Valued(Item(e, x), v)),
         NEW r, r = [it |-> x, new |-> TRUE, key |-> k, val |-> v, since |-> n],
         NEW g, g = WithEntry(h, t, r)
  PROVE  AllOK(d, g, n)
<1>1. n \in Nat /\ CacheOK(c, {}) /\ IsTable(Clients, h) /\ IsFiniteSet(Clients)
      /\ ITEM_UPDATE_INTERVAL \in Nat /\ MaxHold \in Nat
  BY NothingStuck, LRUListsAssumption DEF AllOK, RefsOK, Premises
<1>2. /\ DOMAIN e.mem = DOMAIN c.mem \cup {x}
      /\ \A y : y # x => Item(e, y) = Item(c, y)
      /\ x \in Occupied(e) /\ ~IsLinked(e, x)
      /\ Item(e, x).key = k /\ Item(e, x).refcount = 1 /\ Item(e, x).time = Item(c, x).time
  BY DEF NewItem
<1> DEFINE valued == Valued(Item(e, x), v)
<1>3. /\ IsItem(valued) /\ valued.iflag = Item(e, x).iflag
      /\ valued.slabs_clsid = Item(e, x).slabs_clsid /\ valued.key = k /\ valued.val = v
      /\ valued.time = Item(c, x).time /\ valued.refcount = 1
  <2> DEFINE it == Item(e, x)
  <2>1. IsItem(it)
    BY <1>2, ItemType DEF CacheOK, Occupied
  <2> HIDE DEF it
  <2>2. /\ IsItem(Valued(it, v)) /\ Valued(it, v).iflag = it.iflag
        /\ Valued(it, v).slabs_clsid = it.slabs_clsid
        /\ Valued(it, v).key = it.key /\ Valued(it, v).val = v /\ Valued(it, v).time = it.time
        /\ Valued(it, v).refcount = it.refcount
    BY <2>1, ItemValued
  <2> QED BY <1>2, <2>2 DEF it
<1>4. d = WithItem(e, x, valued)
  OBVIOUS
<1> HIDE DEF valued
<1>5. /\ CacheOK(d, {}) /\ DOMAIN d.mem = DOMAIN e.mem /\ Occupied(d) = Occupied(e)
      /\ d.assoc = e.assoc /\ d.lru = e.lru
      /\ Item(d, x) = valued /\ \A y : y # x => Item(d, y) = Item(e, y)
  <2>1. /\ valued.key = Item(e, x).key /\ valued.iflag = Item(e, x).iflag
        /\ valued.slabs_clsid = Item(e, x).slabs_clsid /\ IsItem(valued)
    BY <1>2, <1>3
  <2> QED BY <1>2, <1>4, <2>1, ChangeHeader
<1>6. QueuesSorted(d)
  <2>1. \A y : Item(d, y).time = Item(e, y).time
    BY <1>2, <1>3, <1>5
  <2> QED BY <1>5, <2>1 DEF QueuesSorted
<1>7. IsRef(r) /\ r.it = x /\ r.new = TRUE /\ r.key = k /\ r.val = v /\ r.since = n
  BY <1>1 DEF IsRef
<1>8. /\ g[t] = r /\ IsTable(Clients, g) /\ \A u \in Clients : u # t => g[u] = h[u]
  BY <1>1, WithEntryView
<1>9. \A u \in Clients : h[u].it # x
  BY HeldItem DEF Premises
<1>10. Holders(h, x) = {} /\ Count(h, x) = 0
  <2>1. Holders(h, x) = {}
    BY <1>9 DEF Holders, Referrers
  <2> QED BY <1>1, <2>1, RefsType DEF Holders, Count
<1>11. /\ Holders(g, x) = {t} /\ Count(g, x) = 1
       /\ \A y : y # x /\ y # NULL => Holders(g, y) = Holders(h, y) /\ Count(g, y) = Count(h, y)
  <2>1. h[t].it = NULL /\ r.it # h[t].it
    BY <1>7, NoRefIsRef
  <2>2. /\ Holders(g, r.it) = Holders(h, r.it) \cup {t}
        /\ Count(g, r.it) = Count(h, r.it) + 1
        /\ \A y : y # r.it /\ y # h[t].it => Holders(g, y) = Holders(h, y) /\ Count(g, y) = Count(h, y)
    BY <1>1, <2>1, RefsChange DEF Holders, Count
  <2>3. Holders(g, x) = Holders(h, x) \cup {t}
    BY <1>7, <2>2
  <2>4. Count(g, x) = Count(h, x) + 1
    BY <1>7, <2>2
  <2>5. Holders(g, x) = {t}
    BY <1>10, <2>3
  <2>6. Count(g, x) = 1
    BY <1>10, <2>4
  <2>7. ASSUME NEW y, y # x, y # NULL
        PROVE  Holders(g, y) = Holders(h, y) /\ Count(g, y) = Count(h, y)
    BY <1>7, <2>1, <2>2, <2>7
  <2> QED BY <2>5, <2>6, <2>7
<1>12. ~IsLinked(d, x)
  BY <1>2, <1>3, <1>5 DEF IsLinked
<1>13. ASSUME NEW u \in Clients PROVE RefOK(d, g, n, u)
  <2>1. CASE u = t
    <3>1. x \in Occupied(d)
      BY <1>2, <1>5
    <3>2. n <= n /\ n - n <= MaxHold
      BY <1>1
    <3>3. /\ IsRef(g[t]) /\ g[t].it = x /\ g[t].key = k /\ g[t].val = v /\ g[t].since = n
      BY <1>7, <1>8
    <3>4. Item(d, x).key = k /\ Item(d, x).val = v
      BY <1>3, <1>5
    <3> QED BY <1>11, <1>12, <2>1, <3>1, <3>2, <3>3, <3>4 DEF RefOK
  <2>2. CASE u # t
    <3> DEFINE y == h[u].it
    <3>1. RefOK(c, h, n, u) /\ g[u] = h[u] /\ y # x
      BY <1>8, <1>9, <2>2 DEF AllOK, RefsOK
    <3>2. ASSUME y # NULL
          PROVE  /\ y \in Occupied(d)
                 /\ Item(d, y).key = Item(c, y).key /\ Item(d, y).val = Item(c, y).val
                 /\ h[u].new => ~IsLinked(d, y) /\ Holders(g, y) = Holders(h, y)
                 /\ IsLinked(d, y) => \/ IsLinked(c, y) /\ Item(d, y).time = Item(c, y).time
                                      \/ Item(d, y).time >= h[u].since - ITEM_UPDATE_INTERVAL
      <4>1. /\ y \in Occupied(c)
            /\ h[u].new => ~IsLinked(c, y)
        BY <3>1, <3>2 DEF RefOK
      <4>2. Item(d, y) = Item(c, y)
        BY <1>2, <1>5, <3>1
      <4>3. y \in Occupied(d) /\ (IsLinked(d, y) <=> IsLinked(c, y))
        BY <1>2, <1>5, <4>1, <4>2 DEF Occupied, IsSlabbed, IsLinked
      <4>4. Holders(g, y) = Holders(h, y)
        BY <1>11, <3>1, <3>2
      <4> QED BY <4>1, <4>2, <4>3, <4>4
    <3> QED BY <3>1, <3>2, RefKept
  <2> QED BY <2>1, <2>2
<1>14. ASSUME NEW y \in DOMAIN d.mem PROVE ItemOK(d, g, n, y)
  <2>1. CASE y = x
    <3>1. Item(d, x).time = Item(c, x).time /\ Item(d, x).val = v /\ Item(d, x).refcount = 1
      BY <1>3, <1>5
    <3>2. Item(c, x).time <= n
      <4>1. CASE x \in DOMAIN c.mem
        BY <4>1 DEF AllOK, RefsOK, ItemOK
      <4>2. CASE x \notin DOMAIN c.mem
        BY <1>1, <4>2 DEF Item, ZeroedItem
      <4> QED BY <4>1, <4>2
    <3> QED BY <1>11, <2>1, <3>1, <3>2 DEF ItemOK
  <2>2. CASE y # x
    <3>1. y \in DOMAIN c.mem /\ Item(d, y) = Item(c, y)
      BY <1>2, <1>5, <1>14, <2>2
    <3>2. y # NULL
      BY <1>1, <3>1, NullIsNoChunk DEF CacheOK, HeadersOK
    <3>3. ItemOK(c, h, n, y)
      BY <3>1 DEF AllOK, RefsOK
    <3>4. Count(g, y) = Count(h, y)
      BY <1>11, <2>2, <3>2
    <3>5. Item(d, y) = Item(c, y)
      BY <3>1
    <3> QED BY <3>3, <3>4, <3>5, ItemKept
  <2> QED BY <2>1, <2>2
<1> QED
  BY <1>5, <1>6, <1>8, <1>13, <1>14 DEF AllOK, RefsOK

\* item_alloc: nothing is changed but what was done to make room, or there is
\* a new item.
LEMMA AllocStep ==
  ASSUME Premises, NEW c, NEW h, NEW n, AllOK(c, h, n), NEW t \in Clients, h[t] = NoRef,
         NEW k \in Keys, NEW v \in Vals, NEW bytes \in Nat, NEW o \in do_item_alloc(c, k, bytes, n)
  PROVE  /\ o.it = NULL => AllOK(o.c, h, n)
         /\ o.it # NULL =>
              AllOK(WithItem(o.c, o.it, Valued(Item(o.c, o.it), v)),
                    WithEntry(h, t, [it |-> o.it, new |-> TRUE, key |-> k, val |-> v, since |-> n]), n)
<1>1. n \in Nat /\ CacheOK(c, {}) /\ NoPrefixes
  BY NothingStuck DEF AllOK, Premises
<1>2. PICK e : Allocated(c, o, e, k, n)
  BY <1>1, AllocItem
<1>3. Made(c, e, n)
  BY <1>2 DEF Allocated
<1>4. AllOK(e, h, n) /\ QueuesSorted(e)
  <2>1. AllOK(e, h, n)
    BY <1>3, MadeStep
  <2> QED BY <2>1 DEF AllOK
<1>5. CacheOK(o.c, {}) /\ o.c.lru = e.lru
  BY <1>2 DEF Allocated
<1>6. ASSUME o.it = NULL PROVE AllOK(o.c, h, n)
  <2>1. o.c.mem = e.mem
    BY <1>2, <1>6 DEF Allocated
  <2>2. \A y : Item(o.c, y) = Item(e, y)
    BY <2>1 DEF Item
  <2>3. QueuesSorted(o.c)
    BY <1>4, <1>5, <2>2 DEF QueuesSorted
  <2> QED BY <1>4, <1>5, <2>1, <2>2, <2>3, SameItems
<1>7. ASSUME o.it # NULL
      PROVE  AllOK(WithItem(o.c, o.it, Valued(Item(o.c, o.it), v)),
                   WithEntry(h, t, [it |-> o.it, new |-> TRUE, key |-> k, val |-> v, since |-> n]), n)
  <2>1. NewItem(e, o.c, o.it, k) /\ o.it \notin Occupied(e)
    BY <1>2, <1>7 DEF Allocated
  <2>2. \A y : Item(o.c, y).time = Item(e, y).time
    BY <2>1 DEF NewItem
  <2>3. QueuesSorted(o.c)
    BY <1>4, <1>5, <2>2 DEF QueuesSorted
  <2> QED BY <1>4, <1>5, <1>7, <2>1, <2>3, NewStep
<1> QED
  BY <1>6, <1>7

NotNew(r) == [r EXCEPT !.new = FALSE]

\* store_item: the new item is linked, the one it replaces is not, and freed if
\* nobody refers to it.
LEMMA StoreStep ==
  ASSUME Premises, NEW c, NEW h, NEW n, AllOK(c, h, n), NEW t \in Clients, h[t].new,
         NEW d \in do_store_item(c, h[t].it, n),
         NEW r, r = NotNew(h[t]),
         NEW g, g = WithEntry(h, t, r)
  PROVE  AllOK(d, g, n)
<1> DEFINE x == h[t].it
           y == Found(c.assoc)[Item(c, x).key]
<1>1. n \in Nat /\ NotAfter(c, n) /\ CacheOK(c, {}) /\ QueuesSorted(c) /\ IsTable(Clients, h)
      /\ IsFiniteSet(Clients) /\ Cardinality(Clients) < RefMod /\ NoPrefixes
      /\ ITEM_UPDATE_INTERVAL \in Nat
  BY NothingStuck, LRUListsAssumption DEF AllOK, RefsOK, Premises
<1>2. RefOK(c, h, n, t) /\ x # NULL
  BY NoRefIsRef DEF AllOK, RefsOK, RefOK, IsRef
<1>3. /\ x \in Occupied(c) /\ ~IsLinked(c, x) /\ Holders(h, x) = {t}
      /\ Item(c, x).key = h[t].key /\ Item(c, x).val = h[t].val /\ h[t].key \in Keys
      /\ h[t].since <= n /\ n - h[t].since <= MaxHold /\ h[t].since \in Nat
  BY <1>2 DEF RefOK, IsRef
<1>4. y # NULL => y \in LinkedItems(c) /\ y # x /\ y \in Occupied(c)
  <2>1. ASSUME y # NULL PROVE y \in LinkedItems(c)
    BY <1>1, <1>3, <2>1 DEF CacheOK, TableAgrees
  <2> QED BY <1>1, <1>3, <2>1 DEF CacheOK, HeadersOK, Occupied, LinkedItems
<1>5. y # NULL => Item(c, y).refcount = Count(h, y) /\ Item(c, y).refcount + 1 < RefMod
  <2> SUFFICES ASSUME y # NULL PROVE Item(c, y).refcount = Count(h, y) /\ Item(c, y).refcount + 1 < RefMod
    OBVIOUS
  <2>1. y \in Occupied(c) /\ h[t].it # y
    BY <1>4
  <2>2. Item(c, y).refcount = Count(h, y)
    BY <2>1 DEF AllOK, RefsOK, ItemOK, Occupied
  <2>3. Count(h, y) + 1 <= Cardinality(Clients) /\ Count(h, y) \in Nat /\ Cardinality(Clients) \in Nat
    BY <1>1, <2>1, RefsBound, RefsType, FS_CardinalityType DEF Holders, Count
  <2> QED BY <1>1, <2>2, <2>3, RefType
<1>6. CacheOK(d, {}) /\ Stored(c, d, x, y, n) /\ QueuesSorted(d)
  BY <1>1, <1>3, <1>5, StoreItem
<1> HIDE DEF x, y
<1>7. /\ r.it = x /\ r.new = FALSE /\ r.key = h[t].key /\ r.val = h[t].val
      /\ r.since = h[t].since /\ IsRef(r)
  <2> DEFINE q == h[t]
  <2>1. IsRef(q) /\ q.it # NULL
    BY <1>2 DEF RefOK, x
  <2>2. r = [q EXCEPT !.new = FALSE]
    BY DEF NotNew
  <2> HIDE DEF q
  <2>3. r = [it |-> q.it, new |-> FALSE, key |-> q.key, val |-> q.val, since |-> q.since]
    BY <2>1, <2>2 DEF IsRef
  <2>4. r.it = q.it /\ r.new = FALSE /\ r.key = q.key /\ r.val = q.val /\ r.since = q.since
    BY <2>3
  <2>5. q.since \in Nat /\ r.it # NULL
    BY <2>1, <2>4 DEF IsRef
  <2>6. r = [it |-> r.it, new |-> r.new, key |-> r.key, val |-> r.val, since |-> r.since]
    BY <2>3, <2>4
  <2>7. IsRef(r)
    BY <2>4, <2>5, <2>6 DEF IsRef
  <2> QED BY <2>4, <2>7 DEF q, x
<1>8. /\ g[t] = r /\ IsTable(Clients, g) /\ \A u \in Clients : u # t => g[u] = h[u]
  BY <1>1, WithEntryView
<1>9. \A z : Holders(g, z) = Holders(h, z) /\ Count(g, z) = Count(h, z)
  <2>1. r.it = h[t].it
    BY <1>7 DEF x
  <2>2. IsTable(Clients, h) /\ g = WithEntry(h, t, r)
    BY <1>1
  <2> HIDE DEF y
  <2> QED BY <2>1, <2>2, RefsKept DEF Holders, Count
<1>10. /\ DOMAIN d.mem = DOMAIN c.mem
       /\ \A z : z \notin {x, y} => Item(d, z) = Item(c, z)
       /\ Item(d, x).key = Item(c, x).key /\ Item(d, x).val = Item(c, x).val
       /\ Item(d, x).refcount = Item(c, x).refcount
       /\ Item(d, x).time = n /\ IsLinked(d, x) /\ ~IsSlabbed(d, x)
  BY <1>6 DEF Stored
<1>11. ASSUME y # NULL
       PROVE  /\ y # x /\ IsLinked(c, y) /\ ~IsLinked(d, y)
              /\ Item(d, y).key = Item(c, y).key /\ Item(d, y).val = Item(c, y).val
              /\ Item(d, y).refcount = Item(c, y).refcount
              /\ Item(d, y).time = Item(c, y).time \/ Item(d, y).time = n
              /\ IsSlabbed(d, y) <=> Item(c, y).refcount = 0
  BY <1>6, <1>11 DEF Stored
<1>12. \A u \in Clients : u # t => h[u].it # x
  BY <1>3 DEF Holders, Referrers
<1>13. ASSUME NEW u \in Clients PROVE RefOK(d, g, n, u)
  <2>1. CASE u = t
    <3>1. x \in Occupied(d)
      BY <1>3, <1>10 DEF Occupied
    <3>2. IsRef(g[t]) /\ g[t].it = x /\ ~g[t].new /\ g[t].key = h[t].key
          /\ g[t].val = h[t].val /\ g[t].since = h[t].since
      BY <1>7, <1>8
    <3>3. Item(d, x).time >= h[t].since - ITEM_UPDATE_INTERVAL
      BY <1>1, <1>3, <1>10
    <3> QED BY <1>3, <1>10, <2>1, <3>1, <3>2, <3>3 DEF RefOK
  <2>2. CASE u # t
    <3> DEFINE z == h[u].it
    <3>1. RefOK(c, h, n, u) /\ g[u] = h[u] /\ z # x
      BY <1>8, <1>12, <2>2 DEF AllOK, RefsOK
    <3>2. ASSUME z # NULL
          PROVE  /\ z \in Occupied(d)
                 /\ Item(d, z).key = Item(c, z).key /\ Item(d, z).val = Item(c, z).val
                 /\ h[u].new => ~IsLinked(d, z) /\ Holders(g, z) = Holders(h, z)
                 /\ IsLinked(d, z) => \/ IsLinked(c, z) /\ Item(d, z).time = Item(c, z).time
                                      \/ Item(d, z).time >= h[u].since - ITEM_UPDATE_INTERVAL
      <4>1. /\ z \in Occupied(c) /\ z \in DOMAIN c.mem
            /\ h[u].new => ~IsLinked(c, z)
        BY <3>1, <3>2 DEF RefOK, Occupied
      <4>2. Item(c, z).refcount # 0
        BY <1>1, <3>2, HeldItem
      <4>3. CASE z = y
        <5>1. /\ ~IsLinked(d, z) /\ ~IsSlabbed(d, z)
              /\ Item(d, z).key = Item(c, z).key /\ Item(d, z).val = Item(c, z).val
          BY <1>11, <3>2, <4>2, <4>3
        <5> QED BY <1>9, <1>10, <4>1, <5>1 DEF Occupied
      <4>4. CASE z # y
        <5>1. Item(d, z) = Item(c, z)
          BY <1>10, <3>1, <4>4
        <5>2. z \in Occupied(d) /\ (IsLinked(d, z) <=> IsLinked(c, z))
          BY <1>10, <4>1, <5>1 DEF Occupied, IsSlabbed, IsLinked
        <5> QED BY <1>9, <4>1, <5>1, <5>2
      <4> QED BY <4>3, <4>4
    <3> QED BY <3>1, <3>2, RefKept
  <2> QED BY <2>1, <2>2
<1>14. ASSUME NEW z \in DOMAIN d.mem PROVE ItemOK(d, g, n, z)
  <2>1. z \in DOMAIN c.mem /\ ItemOK(c, h, n, z) /\ z # NULL
    BY <1>1, <1>10, <1>14, NullIsNoChunk DEF AllOK, RefsOK, CacheOK, HeadersOK
  <2>2. Count(g, z) = Count(h, z)
    BY <1>9
  <2>3. CASE z = x
    <3>1. ~IsSlabbed(c, x)
      BY <1>3 DEF Occupied
    <3> QED BY <1>1, <1>10, <2>1, <2>2, <2>3, <3>1 DEF ItemOK
  <2>4. CASE z = y
    <3>1. y # NULL /\ ~IsSlabbed(c, y)
      BY <1>4, <2>1, <2>4 DEF Occupied
    <3> QED BY <1>1, <1>11, <2>1, <2>2, <2>4, <3>1 DEF ItemOK
  <2>5. CASE z \notin {x, y}
    <3>1. Item(d, z) = Item(c, z)
      BY <1>10, <2>5
    <3> QED BY <2>1, <2>2, <3>1, ItemKept
  <2> QED BY <2>3, <2>4, <2>5
<1> QED
  BY <1>6, <1>8, <1>13, <1>14 DEF AllOK, RefsOK

\* item_unlink of an item that its client goes on holding.
LEMMA UnlinkStep ==
  ASSUME Premises, NEW c, NEW h, NEW n, AllOK(c, h, n), NEW t \in Clients, h[t].it # NULL,
         NEW d \in do_item_unlink(c, h[t].it)
  PROVE  AllOK(d, h, n)
<1> DEFINE x == h[t].it
<1>1. x \in Occupied(c) /\ x \in DOMAIN c.mem /\ Item(c, x).refcount # 0
  BY HeldItem DEF Premises
<1>2. NoPrefixes /\ CacheOK(c, {}) /\ QueuesSorted(c)
  BY DEF Premises, AllOK
<1>3. CacheOK(d, {}) /\ OnlyFlags(c, d, x) /\ ~IsLinked(d, x) /\ QueuesSorted(d) /\ ~IsSlabbed(d, x)
  BY <1>1, <1>2, DoUnlink
<1> HIDE DEF x
<1>4. /\ DOMAIN d.mem = DOMAIN c.mem
      /\ \A y : y # x => Item(d, y) = Item(c, y)
      /\ Item(d, x).key = Item(c, x).key /\ Item(d, x).val = Item(c, x).val
      /\ Item(d, x).time = Item(c, x).time /\ Item(d, x).refcount = Item(c, x).refcount
  BY <1>3 DEF OnlyFlags
<1>5. ASSUME NEW u \in Clients PROVE RefOK(d, h, n, u)
  <2> DEFINE y == h[u].it
  <2>1. RefOK(c, h, n, u)
    BY DEF AllOK, RefsOK
  <2>2. CASE y = x
    <3>1. x \in Occupied(d)
      BY <1>1, <1>3, <1>4 DEF Occupied
    <3> QED BY <1>3, <1>4, <2>1, <2>2, <3>1 DEF RefOK
  <2>3. CASE y # x
    <3>1. Item(d, y) = Item(c, y)
      BY <1>4, <2>3
    <3>2. y \in Occupied(d) <=> y \in Occupied(c)
      BY <1>4, <3>1 DEF Occupied, IsSlabbed
    <3> QED BY <2>1, <3>1, <3>2 DEF RefOK, IsLinked
  <2> QED BY <2>2, <2>3
<1>6. ASSUME NEW y \in DOMAIN d.mem PROVE ItemOK(d, h, n, y)
  <2>1. ItemOK(c, h, n, y)
    BY <1>4, <1>6 DEF AllOK, RefsOK
  <2>2. CASE y = x
    <3>1. ~IsSlabbed(c, x)
      BY <1>1 DEF Occupied
    <3> QED BY <1>1, <1>4, <2>1, <2>2, <3>1 DEF ItemOK
  <2>3. CASE y # x
    <3>1. Item(d, y) = Item(c, y)
      BY <1>4, <2>3
    <3> QED BY <2>1, <3>1, ItemKept
  <2> QED BY <2>2, <2>3
<1> QED
  BY <1>3, <1>5, <1>6 DEF AllOK, RefsOK

\* item_release: one reference less, and the item is freed with the last one
\* when it is not linked.
LEMMA ReleaseStep ==
  ASSUME Premises, NEW c, NEW h, NEW n, AllOK(c, h, n), NEW t \in Clients, h[t].it # NULL,
         NEW d \in do_item_release(c, h[t].it),
         NEW g, g = WithEntry(h, t, NoRef)
  PROVE  AllOK(d, g, n)
<1> DEFINE x == h[t].it
<1>1. /\ x \in Occupied(c) /\ x \in DOMAIN c.mem /\ t \in Holders(h, x)
      /\ Item(c, x).refcount = Count(h, x) /\ Item(c, x).refcount # 0
  BY HeldItem DEF Premises
<1>2. CacheOK(c, {}) /\ QueuesSorted(c) /\ IsTable(Clients, h) /\ IsFiniteSet(Clients)
  BY DEF Premises, AllOK, RefsOK
<1>3. /\ CacheOK(d, {}) /\ DOMAIN d.mem = DOMAIN c.mem
      /\ \A y : y # x => Item(d, y) = Item(c, y)
      /\ Item(d, x).key = Item(c, x).key /\ Item(d, x).val = Item(c, x).val
      /\ Item(d, x).refcount = Item(c, x).refcount - 1 /\ Item(d, x).time = Item(c, x).time
      /\ IsLinked(d, x) <=> IsLinked(c, x)
      /\ IsSlabbed(d, x) <=> ~IsLinked(c, x) /\ Item(c, x).refcount = 1
      /\ QueuesSorted(c) => QueuesSorted(d)
  BY <1>1, <1>2, ReleaseItem
<1>4. QueuesSorted(d)
  BY <1>2, <1>3
<1>5. Count(h, x) \in Nat /\ (Count(h, x) = 0 <=> Holders(h, x) = {})
  BY <1>2, RefsType DEF Holders, Count
<1> HIDE DEF x
<1>6. /\ g[t] = NoRef /\ IsTable(Clients, g) /\ \A u \in Clients : u # t => g[u] = h[u]
  BY <1>2, WithEntryView
<1>7. /\ Holders(g, x) = Holders(h, x) \ {t}
      /\ Count(g, x) = Count(h, x) - 1
      /\ \A y \in DOMAIN c.mem : y # x => Holders(g, y) = Holders(h, y) /\ Count(g, y) = Count(h, y)
  <2>1. h[t].it = x /\ NoRef.it = NULL /\ x # NULL
    BY NoRefIsRef DEF x
  <2>2. PICK r : r = NoRef
    OBVIOUS
  <2>3. r.it # h[t].it /\ g = WithEntry(h, t, r)
    BY <2>1, <2>2
  <2>4. /\ Holders(g, h[t].it) = Holders(h, h[t].it) \ {t}
        /\ Count(g, h[t].it) = Count(h, h[t].it) - 1
        /\ \A y : y # r.it /\ y # h[t].it => Holders(g, y) = Holders(h, y) /\ Count(g, y) = Count(h, y)
    BY <1>2, <2>3, RefsChange DEF Holders, Count
  <2>5. NULL \notin DOMAIN c.mem
    BY <1>2, NullIsNoChunk DEF CacheOK, HeadersOK
  <2>6. ASSUME NEW y \in DOMAIN c.mem, y # x
        PROVE  Holders(g, y) = Holders(h, y) /\ Count(g, y) = Count(h, y)
    BY <2>1, <2>2, <2>4, <2>5, <2>6
  <2> QED BY <2>1, <2>4, <2>6
<1>8. ASSUME NEW u \in Clients PROVE RefOK(d, g, n, u)
  <2>1. CASE u = t
    BY <1>6, <2>1, NoRefIsRef DEF RefOK
  <2>2. CASE u # t
    <3> DEFINE y == h[u].it
    <3>1. RefOK(c, h, n, u) /\ g[u] = h[u]
      BY <1>6, <2>2 DEF AllOK, RefsOK
    <3>2. ASSUME y # NULL
          PROVE  /\ y \in Occupied(d)
                 /\ Item(d, y).key = Item(c, y).key /\ Item(d, y).val = Item(c, y).val
                 /\ h[u].new => ~IsLinked(d, y) /\ Holders(g, y) = Holders(h, y)
                 /\ IsLinked(d, y) => \/ IsLinked(c, y) /\ Item(d, y).time = Item(c, y).time
                                      \/ Item(d, y).time >= h[u].since - ITEM_UPDATE_INTERVAL
      <4>1. /\ y \in Occupied(c) /\ y \in DOMAIN c.mem
            /\ h[u].new => ~IsLinked(c, y) /\ Holders(h, y) = {u}
        BY <3>1, <3>2 DEF RefOK, Occupied
      <4>2. CASE y = x
        <5>1. u \in Holders(h, x) \ {t}
          BY <2>2, <4>2 DEF Holders, Referrers
        <5>2. Count(g, x) # 0
          <6>1. u \in Holders(g, x)
            BY <1>7, <5>1
          <6> QED BY <1>2, <6>1, RefsType DEF Holders, Count
        <5>3. Item(c, x).refcount # 1
          BY <1>1, <1>5, <1>7, <5>2 DEF x
        <5>4. ~IsSlabbed(d, x)
          BY <1>3, <5>3
        <5>5. ~h[u].new
          BY <1>1, <2>2, <4>1, <4>2 DEF x
        <5>6. y \in Occupied(d)
          BY <1>3, <4>1, <4>2, <5>4 DEF Occupied
        <5> QED BY <1>3, <4>2, <5>5, <5>6
      <4>3. CASE y # x
        <5>1. Item(d, y) = Item(c, y)
          BY <1>3, <4>3
        <5>2. y \in Occupied(d) /\ (IsLinked(d, y) <=> IsLinked(c, y))
          BY <1>3, <4>1, <5>1 DEF Occupied, IsSlabbed, IsLinked
        <5> QED BY <1>7, <4>1, <4>3, <5>1, <5>2
      <4> QED BY <4>2, <4>3
    <3> QED BY <3>1, <3>2, RefKept
  <2> QED BY <2>1, <2>2
<1>9. ASSUME NEW y \in DOMAIN d.mem PROVE ItemOK(d, g, n, y)
  <2>1. y \in DOMAIN c.mem /\ ItemOK(c, h, n, y)
    BY <1>3, <1>9 DEF AllOK, RefsOK
  <2>2. CASE y = x
    <3>1. Item(d, x).refcount = Count(g, x)
      BY <1>1, <1>3, <1>7 DEF x
    <3>2. ~IsSlabbed(d, x) => IsLinked(d, x) \/ Item(d, x).refcount # 0
      BY <1>1, <1>3, <1>5 DEF x
    <3> QED BY <1>3, <2>1, <2>2, <3>1, <3>2 DEF ItemOK
  <2>3. CASE y # x
    <3>1. Count(g, y) = Count(h, y)
      BY <1>7, <2>1, <2>3
    <3>2. Item(d, y) = Item(c, y)
      BY <1>3, <2>3
    <3> QED BY <2>1, <3>1, <3>2, ItemKept
  <2> QED BY <2>2, <2>3
<1> QED
  BY <1>3, <1>4, <1>6, <1>8, <1>9 DEF AllOK, RefsOK

\* A turn of the maintenance thread.
LEMMA MaintainStep ==
  ASSUME Premises, NEW c, NEW h, NEW n, AllOK(c, h, n), c.assoc.expanding,
         NEW d, d = WithAssoc(c, Table!MigrateBucket(c.assoc))
  PROVE  AllOK(d, h, n)
<1>1. NoPrefixes /\ CacheOK(c, {}) /\ QueuesSorted(c)
  BY DEF Premises, AllOK
<1>2. CacheOK(d, {}) /\ d.mem = c.mem /\ d.lru = c.lru /\ \A y : Item(d, y) = Item(c, y)
  BY <1>1, MigrationStep
<1>3. QueuesSorted(d)
  BY <1>1, <1>2 DEF QueuesSorted
<1> QED
  BY <1>2, <1>3, SameItems

\* A reference, a little later.
LEMMA RefLater ==
  ASSUME NEW c, NEW h, NEW n, NEW t, RefOK(c, h, n, t),
         NEW m, h[t].it # NULL => h[t].since <= m /\ m - h[t].since <= MaxHold
  PROVE  RefOK(c, h, m, t)
BY DEF RefOK

\* A second goes by.
LEMMA TickStep ==
  ASSUME Premises, NEW c, NEW h, NEW n, AllOK(c, h, n), n < MaxTime, NEW m, m = n + 1,
         \A t \in Clients : h[t].it # NULL => m - h[t].since <= MaxHold
  PROVE  AllOK(c, h, m)
<1>1. m \in StartTime .. MaxTime /\ n \in Nat /\ m \in Nat /\ n <= m
  BY LRUCacheAssumption DEF AllOK, RefsOK
<1>2. ASSUME NEW t \in Clients PROVE RefOK(c, h, m, t)
  <2>1. RefOK(c, h, n, t)
    BY DEF AllOK, RefsOK
  <2>2. ASSUME h[t].it # NULL PROVE h[t].since <= m /\ m - h[t].since <= MaxHold
    <3>1. h[t].since <= n /\ h[t].since \in Nat
      BY <2>1, <2>2 DEF RefOK, IsRef
    <3>2. h[t].since <= m
      BY <1>1, <3>1
    <3>3. m - h[t].since <= MaxHold
      BY <2>2
    <3> QED BY <3>2, <3>3
  <2> QED BY <2>1, <2>2, RefLater
<1>3. ASSUME NEW x \in DOMAIN c.mem PROVE ItemOK(c, h, m, x)
  <2>1. ItemOK(c, h, n, x) /\ Item(c, x).time \in Nat
    BY DEF AllOK, RefsOK, CacheOK, HeadersOK, IsItem
  <2> QED BY <1>1, <2>1 DEF ItemOK
<1> QED
  BY <1>1, <1>2, <1>3 DEF AllOK, RefsOK

\* At the start nothing is cached and nothing is held.
LEMMA AtInit == ASSUME Premises, Init PROVE Inv
<1> PICK c : c = InitCache(0, 0)
  OBVIOUS
<1>1. CacheOK(c, {}) /\ QueuesSorted(c) /\ DOMAIN c.mem = {}
  BY CacheAtInit DEF Premises
<1>2. cache = c /\ now = StartTime /\ held = [t \in Clients |-> NoRef]
  BY DEF Init
<1>3. IsTable(Clients, held) /\ \A t \in Clients : held[t] = NoRef
  BY <1>2 DEF IsTable
<1>4. \A t \in Clients : RefOK(c, held, now, t)
  BY <1>3, NoRefIsRef DEF RefOK
<1>5. now \in StartTime .. MaxTime
  BY <1>2, LRUCacheAssumption
<1> QED
  BY <1>1, <1>2, <1>3, <1>4, <1>5 DEF Inv, AllOK, RefsOK

\* Every step keeps the invariant.
LEMMA AtNext == ASSUME Premises, Inv, [Next]_vars PROVE Inv'
<1> PICK c : c = cache
  OBVIOUS
<1> PICK h : h = held
  OBVIOUS
<1> PICK n : n = now
  OBVIOUS
<1>1. AllOK(c, h, n) /\ IsTable(Clients, h)
  BY DEF Inv, AllOK, RefsOK
<1>2. ASSUME NEW t \in Clients, NEW k \in Keys, NEW v \in Vals, NEW bytes \in ItemBytes,
             item_alloc(t, k, v, bytes)
      PROVE  Inv'
  <2>1. PICK o \in do_item_alloc(c, k, bytes, n) :
          IF o.it = NULL THEN cache' = o.c /\ held' = h
          ELSE /\ cache' = WithItem(o.c, o.it, Valued(Item(o.c, o.it), v))
               /\ held' = WithEntry(h, t, [it |-> o.it, new |-> TRUE, key |-> k,
                                         val |-> v, since |-> n])
    BY <1>2 DEF item_alloc, WithEntry, Valued
  <2>2. h[t] = NoRef /\ now' = n /\ bytes \in Nat
    BY <1>2, LRUCacheAssumption DEF item_alloc
  <2>3. /\ o.it = NULL => AllOK(o.c, h, n)
        /\ o.it # NULL =>
             AllOK(WithItem(o.c, o.it, Valued(Item(o.c, o.it), v)),
                   WithEntry(h, t, [it |-> o.it, new |-> TRUE, key |-> k, val |-> v, since |-> n]), n)
    BY <1>1, <2>2, AllocStep
  <2>4. CASE o.it = NULL
    BY <2>1, <2>2, <2>3, <2>4 DEF Inv
  <2>5. CASE o.it # NULL
    BY <2>1, <2>2, <2>3, <2>5 DEF Inv
  <2> QED BY <2>4, <2>5
<1>3. ASSUME NEW t \in Clients, store_item(t) PROVE Inv'
  <2>1. h[t].new /\ cache' \in do_store_item(c, h[t].it, n) /\ now' = n
    BY <1>3 DEF store_item
  <2>2. held' = WithEntry(h, t, NotNew(h[t]))
    BY <1>3 DEF store_item, WithEntry, NotNew
  <2> PICK d : d = cache'
    OBVIOUS
  <2> PICK g : g = held'
    OBVIOUS
  <2>3. AllOK(d, g, n)
    BY <1>1, <2>1, <2>2, StoreStep
  <2> QED BY <2>1, <2>3 DEF Inv
<1>4. ASSUME NEW t \in Clients, NEW k \in Keys, item_get(t, k) PROVE Inv'
  <2> PICK o : o = do_item_get(c, k, n)
    OBVIOUS
  <2>1. h[t] = NoRef /\ cache' = o.c /\ now' = n
    BY <1>4 DEF item_get
  <2>2. CASE o.it = NULL
    <3>1. held' = [h EXCEPT ![t] = NoRef]
      BY <1>4, <2>2 DEF item_get
    <3>2. held' = h
      BY <1>1, <2>1, <3>1 DEF IsTable
    <3>3. o.c = c
      BY <2>2 DEF do_item_get
    <3> QED BY <1>1, <2>1, <3>2, <3>3 DEF Inv
  <2>3. CASE o.it # NULL
    <3> PICK r : r = [it |-> o.it, new |-> FALSE, key |-> k, val |-> Item(c, o.it).val, since |-> n]
      OBVIOUS
    <3>1. held' = WithEntry(h, t, r)
      BY <1>4, <2>3 DEF item_get, WithEntry
    <3> PICK g : g = held'
      OBVIOUS
    <3>2. AllOK(o.c, g, n)
      BY <1>1, <2>1, <2>3, <3>1, GetStep
    <3> QED BY <2>1, <3>2 DEF Inv
  <2> QED BY <2>2, <2>3
<1>5. ASSUME NEW t \in Clients, item_unlink(t) PROVE Inv'
  <2>1. h[t].it # NULL /\ cache' \in do_item_unlink(c, h[t].it) /\ held' = h /\ now' = n
    BY <1>5 DEF item_unlink
  <2> PICK d : d = cache'
    OBVIOUS
  <2>2. AllOK(d, h, n)
    BY <1>1, <2>1, UnlinkStep
  <2> QED BY <2>1, <2>2 DEF Inv
<1>6. ASSUME NEW t \in Clients, item_release(t) PROVE Inv'
  <2>1. h[t].it # NULL /\ cache' \in do_item_release(c, h[t].it) /\ now' = n
    BY <1>6 DEF item_release
  <2>2. held' = WithEntry(h, t, NoRef)
    BY <1>6 DEF item_release, WithEntry
  <2> PICK d : d = cache'
    OBVIOUS
  <2> PICK g : g = held'
    OBVIOUS
  <2>3. AllOK(d, g, n)
    BY <1>1, <2>1, <2>2, ReleaseStep
  <2> QED BY <2>1, <2>3 DEF Inv
<1>7. CASE Maintain
  <2>1. c.assoc.expanding /\ held' = h /\ now' = n
    BY <1>7 DEF Maintain
  <2>2. cache' = WithAssoc(c, Table!MigrateBucket(c.assoc))
    BY <1>7 DEF Maintain, WithAssoc
  <2> PICK d : d = cache'
    OBVIOUS
  <2>3. AllOK(d, h, n)
    BY <1>1, <2>1, <2>2, MaintainStep
  <2> QED BY <2>1, <2>3 DEF Inv
<1>8. CASE Tick
  <2> PICK m : m = n + 1
    OBVIOUS
  <2>1. n < MaxTime /\ now' = m /\ cache' = c /\ held' = h
    BY <1>8 DEF Tick
  <2>2. ASSUME NEW t \in Clients, h[t].it # NULL PROVE m - h[t].since <= MaxHold
    <3>1. now + 1 - held[t].since <= MaxHold
      BY <1>8, <2>2 DEF Tick
    <3>2. now + 1 = m /\ held[t] = h[t]
      OBVIOUS
    <3>3. now \in Nat /\ h[t].since \in Nat /\ MaxHold \in Nat
      <4>1. n \in Nat
        BY <1>1, NothingStuck
      <4>2. RefOK(c, h, n, t)
        BY <1>1 DEF AllOK, RefsOK
      <4>3. IsRef(h[t])
        BY <4>2 DEF RefOK
      <4> QED BY <4>1, <4>3 DEF IsRef, Premises
    <3> QED BY <3>1, <3>2, <3>3
  <2>3. AllOK(c, h, m)
    BY <1>1, <2>1, <2>2, TickStep
  <2> QED BY <2>1, <2>3 DEF Inv
<1>9. CASE UNCHANGED vars
  BY <1>1, <1>9 DEF vars, Inv
<1> QED
  BY <1>2, <1>3, <1>4, <1>5, <1>6, <1>7, <1>8, <1>9 DEF Next

-----------------------------------------------------------------------------

LEMMA InvHolds == ASSUME Premises PROVE Spec => []Inv
<1>1. Init => Inv
  BY AtInit
<1>2. Inv /\ [Next]_vars => Inv'
  BY AtNext
<1> QED
  BY <1>1, <1>2, PTL DEF Spec

\* What the invariant says of a chunk that holds an item.
LEMMA InvAtTime ==
  ASSUME Premises, Inv
  PROVE  /\ CacheOK(cache, {}) /\ QueuesSorted(cache) /\ now \in StartTime .. MaxTime
         /\ \A t \in Clients : RefOK(cache, held, now, t)
         /\ \A x \in DOMAIN cache.mem : ItemOK(cache, held, now, x)
BY DEF Inv, AllOK, RefsOK

LEMMA HeldAreInUse ==
  ASSUME Premises, Inv
  PROVE  \A x \in HeldItems : x \in Occupied(cache)
BY InvAtTime DEF HeldItems, RefOK

\* What is in use is linked or held.
LEMMA InUseIs ==
  ASSUME Premises, Inv
  PROVE  Occupied(cache) = LinkedItems(cache) \cup HeldItems
<1>1. ASSUME NEW x \in Occupied(cache) PROVE x \in LinkedItems(cache) \cup HeldItems
  <2>1. x \in DOMAIN cache.mem /\ ItemOK(cache, held, now, x) /\ ~IsSlabbed(cache, x)
    BY InvAtTime DEF Occupied
  <2>2. CASE IsLinked(cache, x)
    BY <2>1, <2>2 DEF LinkedItems
  <2>3. CASE ~IsLinked(cache, x)
    <3>1. Count(held, x) # 0
      BY <2>1, <2>3 DEF ItemOK
    <3>2. PICK t \in Holders(held, x) : TRUE
      BY <3>1, RefsType DEF Premises, Holders, Count
    <3>3. x # NULL
      BY <2>1, InvAtTime, NullIsNoChunk DEF CacheOK, HeadersOK
    <3> QED BY <3>2, <3>3 DEF Holders, HeldItems, Referrers
  <2> QED BY <2>2, <2>3
<1>2. LinkedItems(cache) \in SUBSET Occupied(cache)
  BY InvAtTime DEF CacheOK, HeadersOK, Occupied, LinkedItems
<1> QED
  BY <1>1, <1>2, HeldAreInUse

(***************************************************************************)
(* No assert of lru.cpp or assoc.cpp fails, and every value keeps its      *)
(* type: AssertsHold, for any keys, clients, sizes and times.              *)
(***************************************************************************)
THEOREM LRUAssertsHold == ASSUME Premises PROVE Spec => []AssertsHold
<1>1. ASSUME Inv PROVE AssertsHold
  <2>1. /\ CacheOK(cache, {}) /\ now \in StartTime .. MaxTime
        /\ \A x \in DOMAIN cache.mem : ItemOK(cache, held, now, x)
    BY <1>1, InvAtTime
  <2>2. ASSUME NEW x \in DOMAIN cache.mem, NEW it, it = cache.mem[x]
        PROVE  /\ it.key \in Keys /\ it.val \in Vals \cup {NULL} /\ it.time \in 0 .. MaxTime
               /\ it.refcount \in 0 .. RefMod - 1 /\ it.iflag \subseteq {LINKED, SLABBED}
               /\ it.slabs_clsid \in 0 .. power_largest
    <3>1. it = Item(cache, x)
      BY <2>2 DEF Item
    <3>2. IsItem(it) /\ it.key \in Keys
      BY <2>1, <3>1 DEF CacheOK, HeadersOK
    <3>3. it.time <= now /\ it.val \in Vals \cup {NULL}
      BY <2>1, <3>1 DEF ItemOK
    <3>4. it.time \in 0 .. MaxTime
      BY <2>1, <3>2, <3>3, LRUCacheAssumption DEF IsItem
    <3> QED BY <3>2, <3>3, <3>4 DEF IsItem
  <2>3. HeldItems \subseteq DOMAIN cache.mem
    BY <1>1, HeldAreInUse DEF Occupied
  <2>4. TypeOK
    BY <2>1, <2>2, <2>3 DEF TypeOK
  <2> QED BY <2>1, <2>4 DEF AssertsHold, CacheOK
<1> QED
  BY <1>1, InvHolds, PTL

(***************************************************************************)
(* The flag ITEM_LINKED, the hash table and the queues always say the      *)
(* same, also while the table grows under the clients.                     *)
(***************************************************************************)
THEOREM LRULinkedEverywhere == ASSUME Premises PROVE Spec => []LinkedEverywhere
<1>1. ASSUME Inv PROVE LinkedEverywhere
  BY <1>1, InvAtTime, Agreement DEF LinkedEverywhere
<1> QED
  BY <1>1, InvHolds, PTL

(***************************************************************************)
(* The refcount of an item is the number of the references to it.          *)
(***************************************************************************)
THEOREM LRURefcountExact == ASSUME Premises PROVE Spec => []RefcountExact
<1>1. ASSUME Inv PROVE RefcountExact
  <2>1. ASSUME NEW x \in LinkedItems(cache) \cup HeldItems
        PROVE  Item(cache, x).refcount = Cardinality({t \in Clients : held[t].it = x})
    <3>1. x \in Occupied(cache)
      BY <1>1, InUseIs
    <3>2. ItemOK(cache, held, now, x) /\ ~IsSlabbed(cache, x)
      BY <1>1, <3>1, InvAtTime DEF Occupied
    <3> QED BY <3>2 DEF ItemOK, Count, Holders, Referrers, RefsTo
  <2> QED BY <2>1 DEF RefcountExact
<1> QED
  BY <1>1, InvHolds, PTL

(***************************************************************************)
(* An item that a client holds keeps its key and its data, and its memory  *)
(* is not given to another: replacing, deleting and evicting wait for the  *)
(* last reference.                                                         *)
(***************************************************************************)
THEOREM LRUHeldIntact == ASSUME Premises PROVE Spec => []HeldIntact
<1>1. ASSUME Inv PROVE HeldIntact
  <2>1. ASSUME NEW t \in Clients, NEW r, r = held[t], r.it # NULL
        PROVE  /\ Item(cache, r.it).key = r.key /\ Item(cache, r.it).val = r.val
               /\ SLABBED \notin Item(cache, r.it).iflag
    BY <1>1, <2>1, InvAtTime DEF RefOK, Occupied, IsSlabbed
  <2> QED BY <2>1 DEF HeldIntact
<1> QED
  BY <1>1, InvHolds, PTL

(***************************************************************************)
(* When no malloc fails, every chunk that was cut out of a page is free,   *)
(* linked or held, and no free chunk is linked or held.  (When the list of *)
(* free chunks cannot grow, slabs_free drops the chunk.)                   *)
(***************************************************************************)
THEOREM LRUNoChunkLeaked ==
  ASSUME Premises, HeapFails = {FALSE} PROVE Spec => []NoChunkLeaked
<1>1. ASSUME Inv PROVE NoChunkLeaked
  <2>1. /\ Slab!Partitioned(cache.slabs, Occupied(cache), {})
        /\ \A x \in DOMAIN cache.mem : IsSlabbed(cache, x) <=> x \in FreeItems(cache)
    BY <1>1, InvAtTime, WhereChunksAre
  <2>2. Occupied(cache) = LinkedItems(cache) \cup HeldItems
    BY <1>1, InUseIs
  <2>3. Slab!Partitioned(cache.slabs, LinkedItems(cache) \cup HeldItems, {})
    BY <2>1, <2>2
  <2> QED BY <2>1, <2>3 DEF NoChunkLeaked, IsSlabbed
<1> QED
  BY <1>1, InvHolds, PTL

(***************************************************************************)
(* From head to tail every queue is ordered by time, so that what is       *)
(* evicted from the tail has been unused for longest.                      *)
(***************************************************************************)
THEOREM LRULeastRecentAtTail == ASSUME Premises PROVE Spec => []LeastRecentAtTail
<1>1. ASSUME Inv PROVE LeastRecentAtTail
  BY <1>1, InvAtTime DEF LeastRecentAtTail
<1> QED
  BY <1>1, InvHolds, PTL

(***************************************************************************)
(* Every client that holds an item that is linked got it at most           *)
(* ITEM_UPDATE_INTERVAL after the time the item bears.                     *)
(***************************************************************************)
THEOREM LRUTimeLagBounded == ASSUME Premises PROVE Spec => []TimeLagBounded
<1>1. ASSUME Inv PROVE TimeLagBounded
  <2>1. ASSUME NEW t \in Clients, held[t].it # NULL, IsLinked(cache, held[t].it)
        PROVE  Item(cache, held[t].it).time + ITEM_UPDATE_INTERVAL >= held[t].since
    <3> PICK r : r = held[t]
      OBVIOUS
    <3> PICK x : x = r.it
      OBVIOUS
    <3>1. RefOK(cache, held, now, t) /\ x \in DOMAIN cache.mem /\ CacheOK(cache, {})
      BY <1>1, <2>1, InvAtTime DEF RefOK, Occupied
    <3>2. Item(cache, x).time >= r.since - ITEM_UPDATE_INTERVAL /\ r.since \in Nat
      BY <2>1, <3>1 DEF RefOK, IsRef
    <3>3. Item(cache, x).time \in Nat /\ ITEM_UPDATE_INTERVAL \in Nat
      BY <3>1, LRUListsAssumption DEF CacheOK, HeadersOK, IsItem
    <3> QED BY <3>2, <3>3
  <2> QED BY <2>1 DEF TimeLagBounded
<1> QED
  BY <1>1, InvHolds, PTL

(***************************************************************************)
(* While no malloc fails, item_alloc returns nothing in two cases only:    *)
(* the request is empty or longer than the largest chunk; or its class has *)
(* no chunk left and a new page is beyond the limit, and each of the       *)
(* SEARCH_ITEMS items nearest the tail of its queue is referred to: the    *)
(* first search frees a chunk as soon as one of them is not, and that      *)
(* chunk is found by the call of slabs_alloc that follows.                 *)
(***************************************************************************)
THEOREM LRUAllocFailsOnlyIfHeld ==
  ASSUME Premises, HeapFails = {FALSE} PROVE Spec => []AllocFailsOnlyIfHeld
<1>1. ASSUME Inv PROVE AllocFailsOnlyIfHeld
  <2>1. ASSUME NEW bytes \in ItemBytes, NEW k \in Keys,
               NEW o \in do_item_alloc(cache, k, bytes, now), o.it = NULL,
               NEW id, id = Slab!slabs_clsid(bytes)
        PROVE  \/ id = 0 /\ (bytes = 0 \/ bytes > size[power_largest])
               \/ /\ id # 0
                  /\ OutOfMemory(cache, id)
                  /\ \A i \in Searched(cache, id) : Item(cache, cache.lru[id][i]).refcount # 0
    <3>1. bytes \in Nat /\ now \in Nat /\ NoPrefixes /\ CacheOK(cache, {})
      BY <1>1, InvAtTime, LRUCacheAssumption DEF Premises
    <3>2. CASE bytes = 0 \/ bytes > size[power_largest]
      BY <2>1, <3>2 DEF Slab!slabs_clsid
    <3>3. CASE ~(bytes = 0 \/ bytes > size[power_largest])
      <4>1. id \in Slab!Classes
        BY <2>1, <3>1, <3>3, ClassOfRequest
      <4>2. id # 0
        BY <4>1 DEF Slab!Classes, Slab!POWER_SMALLEST
      <4>3. OutOfMemory(cache, id)
        BY <2>1, <3>1, <4>1, FailsOutOfMemory
      <4>4. \A i \in Searched(cache, id) : Item(cache, cache.lru[id][i]).refcount # 0
        BY <2>1, <3>1, FailsOnlyIfUsed
      <4> QED BY <4>2, <4>3, <4>4
    <3> QED BY <3>2, <3>3
  <2> QED BY <2>1 DEF AllocFailsOnlyIfHeld
<1> QED
  BY <1>1, InvHolds, PTL

-----------------------------------------------------------------------------
(***************************************************************************)
(* What item_alloc unlinks.                                                *)
(***************************************************************************)

LEMMA LinkedIsOccupied ==
  ASSUME NEW c, CacheOK(c, {}), NEW x, IsLinked(c, x)
  PROVE  x \in Occupied(c)
<1>1. x \in DOMAIN c.mem
  BY DEF IsLinked, Item, ZeroedItem
<1> QED
  BY <1>1 DEF CacheOK, HeadersOK, Occupied

\* A client comes to a new item by item_alloc only.
LEMMA AllocatesBy ==
  ASSUME Premises, Inv, [Next]_vars, NEW t \in Clients, held[t] = NoRef, held'[t].new
  PROVE  \E k \in Keys, v \in Vals, bytes \in ItemBytes :
           \E o \in do_item_alloc(cache, k, bytes, now) :
             /\ o.it # NULL
             /\ cache' = WithItem(o.c, o.it, Valued(Item(o.c, o.it), v))
<1> PICK h : h = held
  OBVIOUS
<1>1. IsTable(Clients, h) /\ h[t] = NoRef /\ ~h[t].new
  BY NoRefIsRef DEF Inv, AllOK, RefsOK
<1>2. held' # h
  BY <1>1
<1>3. ASSUME NEW u \in Clients, NEW r, held' = WithEntry(h, u, r), ~r.new PROVE FALSE
  BY <1>1, <1>3, WithEntryView
<1>4. ASSUME NEW u \in Clients, store_item(u) PROVE FALSE
  <2>1. held' = WithEntry(h, u, NotNew(h[u])) /\ h[u].new
    BY <1>4 DEF store_item, WithEntry, NotNew
  <2>2. u # t
    BY <1>1, <2>1
  <2> PICK r : r = NotNew(h[u])
    OBVIOUS
  <2>3. held'[t] = h[t]
    BY <1>1, <2>1, <2>2, WithEntryView
  <2> QED BY <1>1, <2>3
<1>5. ASSUME NEW u \in Clients, NEW k \in Keys, item_get(u, k) PROVE FALSE
  <2> PICK o : o = do_item_get(cache, k, now)
    OBVIOUS
  <2> PICK r : r = IF o.it = NULL THEN NoRef
                   ELSE [it |-> o.it, new |-> FALSE, key |-> k,
                         val |-> Item(cache, o.it).val, since |-> now]
    OBVIOUS
  <2>1. held' = WithEntry(h, u, r)
    BY <1>5 DEF item_get, WithEntry
  <2>2. ~r.new
    BY NoRefIsRef
  <2> QED BY <1>3, <2>1, <2>2
<1>6. ASSUME NEW u \in Clients, item_release(u) PROVE FALSE
  <2>1. held' = WithEntry(h, u, NoRef)
    BY <1>6 DEF item_release, WithEntry
  <2> QED BY <1>3, <2>1, NoRefIsRef
<1>7. ASSUME NEW u \in Clients, item_unlink(u) PROVE FALSE
  BY <1>2, <1>7 DEF item_unlink
<1>8. ~Maintain /\ ~Tick /\ ~(UNCHANGED vars)
  BY <1>2 DEF Maintain, Tick, vars
<1>9. PICK u \in Clients, k \in Keys, v \in Vals, bytes \in ItemBytes : item_alloc(u, k, v, bytes)
  BY <1>4, <1>5, <1>6, <1>7, <1>8 DEF Next
<1>10. PICK o \in do_item_alloc(cache, k, bytes, now) :
         IF o.it = NULL THEN held' = h
         ELSE cache' = WithItem(o.c, o.it, Valued(Item(o.c, o.it), v))
  BY <1>9 DEF item_alloc, Valued
<1> QED
  BY <1>2, <1>10

(***************************************************************************)
(* What item_alloc unlinks to make room no client holds, and of the items  *)
(* of its class that no client holds none has been unused for longer.      *)
(***************************************************************************)
THEOREM LRUEvictsOldestUnused == ASSUME Premises PROVE Spec => EvictsOldestUnused
<1> DEFINE Evicts1 ==
      \A x \in LinkedItems(cache) \ LinkedItems(cache') :
        /\ x \notin HeldItems
        /\ \A y \in LinkedItems(cache') \ HeldItems :
             Item(cache, y).slabs_clsid = Item(cache, x).slabs_clsid =>
               Item(cache, x).time <= Item(cache, y).time
<1>1. ASSUME Inv, [Next]_vars, Allocates PROVE Evicts1
  <2> PICK c : c = cache
    OBVIOUS
  <2> PICK d : d = cache'
    OBVIOUS
  <2> PICK n : n = now
    OBVIOUS
  <2> PICK h : h = held
    OBVIOUS
  <2>1. AllOK(c, h, n) /\ CacheOK(c, {}) /\ QueuesSorted(c) /\ n \in Nat
    BY <1>1, InvAtTime, LRUCacheAssumption DEF Inv
  <2>2. PICK k \in Keys, v \in Vals, bytes \in ItemBytes :
          \E o \in do_item_alloc(c, k, bytes, n) :
            o.it # NULL /\ d = WithItem(o.c, o.it, Valued(Item(o.c, o.it), v))
    BY <1>1, AllocatesBy DEF Allocates
  <2>3. PICK o \in do_item_alloc(c, k, bytes, n) :
          o.it # NULL /\ d = WithItem(o.c, o.it, Valued(Item(o.c, o.it), v))
    BY <2>2
  <2>4. bytes \in Nat /\ NoPrefixes
    BY LRUCacheAssumption DEF Premises
  <2>5. PICK e : Allocated(c, o, e, k, n)
    BY <2>1, <2>4, AllocItem
  <2> PICK z : z = o.it
    OBVIOUS
  <2>6. /\ Made(c, e, n) /\ CacheOK(o.c, {}) /\ CacheOK(e, {})
        /\ NewItem(e, o.c, z, k) /\ z \notin Occupied(e)
    BY <2>3, <2>5 DEF Allocated, Made
  <2>7. (\A y : y # z => Item(d, y) = Item(o.c, y)) /\ Item(d, z) = Valued(Item(o.c, z), v)
    <3> PICK f : f = o.c
      OBVIOUS
    <3> PICK it : it = Valued(Item(f, z), v)
      OBVIOUS
    <3>1. IsCache(f) /\ d = WithItem(f, z, it)
      BY <2>3, <2>6 DEF CacheOK
    <3> QED BY <3>1, WithItemView
  <2>8. ~IsLinked(d, z) /\ ~IsLinked(e, z)
    <3>1. IsItem(Item(o.c, z))
      BY <2>6, ItemType DEF CacheOK, NewItem, Occupied
    <3>2. Item(d, z).iflag = Item(o.c, z).iflag
      BY <2>7, <3>1, ItemValued
    <3>3. ~IsLinked(d, z)
      BY <2>6, <3>2 DEF NewItem, IsLinked
    <3>4. ~IsLinked(e, z)
      BY <2>6, LinkedIsOccupied
    <3> QED BY <3>3, <3>4
  <2>9. \A y : IsLinked(d, y) <=> IsLinked(e, y)
    BY <2>6, <2>7, <2>8 DEF NewItem, IsLinked
  <2>10. ASSUME NEW y, IsLinked(c, y), y \notin HeldItems PROVE Item(c, y).refcount = 0
    <3>1. y \in Occupied(c) /\ y \in DOMAIN c.mem
      BY <2>1, <2>10, LinkedIsOccupied DEF Occupied
    <3>2. Holders(h, y) = {}
      <4>1. y # NULL
        BY <2>1, <3>1, NullIsNoChunk DEF CacheOK, HeadersOK
      <4> QED BY <2>10, <4>1 DEF Holders, Referrers, HeldItems
    <3>3. Count(h, y) = 0
      BY <3>2, RefsType DEF Premises, Holders, Count
    <3>4. Item(c, y).refcount = Count(h, y)
      BY <2>1, <3>1 DEF AllOK, RefsOK, ItemOK, Occupied
    <3> QED BY <3>3, <3>4
  <2>11. ASSUME NEW x, IsLinked(c, x), ~IsLinked(d, x)
         PROVE  /\ x \notin HeldItems
                /\ \A y : IsLinked(d, y) /\ y \notin HeldItems
                          /\ Item(c, y).slabs_clsid = Item(c, x).slabs_clsid
                          => Item(c, x).time <= Item(c, y).time
    <3>1. ~IsLinked(e, x) /\ MayGo(c, x, n)
      <4>1. ~IsLinked(e, x)
        BY <2>9, <2>11
      <4>2. Item(e, x) # Item(c, x)
        BY <2>11, <4>1 DEF IsLinked
      <4> QED BY <2>6, <4>1, <4>2 DEF Made
    <3>2. Item(c, x).refcount = 0
      BY <2>1, <3>1, NothingGoes
    <3>3. x \notin HeldItems
      BY <2>1, <3>2, HeldItem DEF Premises, HeldItems
    <3>4. OldestGoes(c, e)
      BY <2>1, <2>6 DEF Made
    <3>5. ASSUME NEW y, IsLinked(d, y), y \notin HeldItems,
                 Item(c, y).slabs_clsid = Item(c, x).slabs_clsid
          PROVE  Item(c, x).time <= Item(c, y).time
      <4>1. IsLinked(e, y)
        BY <2>9, <3>5
      <4>2. Item(e, y) = Item(c, y) /\ IsLinked(c, y)
        BY <2>6, <4>1 DEF Made, IsLinked
      <4>3. Item(c, y).refcount = 0
        BY <2>10, <3>5, <4>2
      <4> QED BY <2>11, <3>1, <3>2, <3>4, <3>5, <4>1, <4>3 DEF OldestGoes
    <3> QED BY <3>3, <3>5
  <2>12. \A x : /\ x \in LinkedItems(c) => IsLinked(c, x)
                /\ (x \in LinkedItems(d) <=> IsLinked(d, x))
    BY DEF LinkedItems, IsLinked, Item, ZeroedItem
  <2> QED BY <2>11, <2>12
<1>2. Inv /\ [Next]_vars => [Allocates => Evicts1]_vars
  BY <1>1
<1> QED
  BY <1>2, InvHolds, PTL DEF Spec, EvictsOldestUnused
=============================================================================
