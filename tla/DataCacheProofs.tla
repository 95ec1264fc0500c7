-------------------------- MODULE DataCacheProofs --------------------------
(***************************************************************************)
(* Theorems about concurrent calls of DataCache, for every value of the    *)
(* constants under the premises of the protocol.                           *)
(***************************************************************************)
EXTENDS DataCache, LRUListsProofs

(***************************************************************************)
(* What the code takes for granted: no key is a prefix of another with the *)
(* same hash, and no call lasts so long that the tail of a queue is        *)
(* repaired under it.                                                      *)
(***************************************************************************)
Premises ==
  /\ NoPrefixes
  /\ IsFiniteSet(Threads)
  /\ MaxHold \in Nat /\ MaxHold + ITEM_UPDATE_INTERVAL <= TAIL_REPAIR_TIME

(***************************************************************************)
(* No refcount has reached the greatest value of its 16 bits.  getItem and *)
(* storeItem never give a reference back, so the count of an item that is  *)
(* read often enough does reach it, and then wraps (lru.cpp:128): nothing  *)
(* is claimed of a behaviour from there on.                                *)
(***************************************************************************)
CountsBelow(c) == \A x \in DOMAIN c.mem : Item(c, x).refcount + 1 < RefMod

NoCountAtMax == CountsBelow(cache)

-----------------------------------------------------------------------------
(***************************************************************************)
(* The inductive invariant: with the data structures in order (CacheOK),   *)
(* what is known of the calls h in progress and of the items they use, at  *)
(* time n and after m calls.                                               *)
(***************************************************************************)

IsCall(r) ==
  /\ r = [pc |-> r.pc, key |-> r.key, val |-> r.val, it |-> r.it, since |-> r.since]
  /\ r.pc \in {"idle", "copy", "fill", "store", "unlink", "release"} /\ r.since \in Nat
  /\ (r.pc = "idle" \/ r.it = NULL) => r = Idle

Users(h, x) == Referrers(Threads, h, x)
Count(h, x) == RefsTo(Threads, h, x)

\* A new item is its call's alone until it is linked; an item that a delete is
\* about to release is no longer linked; a linked item has been looked at
\* since, or not long before, the call began.
CallOK(c, h, n, t) ==
  LET r == h[t]
      x == r.it
  IN  /\ IsCall(r)
      /\ x # NULL =>
           /\ x \in Occupied(c) /\ Item(c, x).key = r.key /\ r.key \in Keys
           /\ r.since <= n /\ n - r.since <= MaxHold
           /\ r.pc \in {"fill", "store"} =>
                ~IsLinked(c, x) /\ Users(h, x) = {t} /\ r.val \in Vals
           /\ r.pc = "store" => Item(c, x).val = r.val
           /\ r.pc = "release" => ~IsLinked(c, x)
           /\ r.pc \in {"copy", "unlink", "release"} => r.val = NULL
           /\ IsLinked(c, x) => Item(c, x).time >= r.since - ITEM_UPDATE_INTERVAL

\* Every call in progress is counted; so are those that gave nothing back.
ItemOK(c, h, x) ==
  ~IsSlabbed(c, x) => /\ Count(h, x) <= Item(c, x).refcount
                      /\ IsLinked(c, x) => Item(c, x).val \in Vals

CallsOK(c, h, n, m) ==
  /\ IsTable(Threads, h) /\ n \in StartTime .. MaxTime /\ m \in 0 .. MaxCalls
  /\ \A t \in Threads : CallOK(c, h, n, t)
  /\ \A x \in DOMAIN c.mem : ItemOK(c, h, x)

AllOK(c, h, n, m) == CacheOK(c, {}) /\ CallsOK(c, h, n, m)

Inv == AllOK(cache, calls, now, ncalls)

-----------------------------------------------------------------------------

LEMMA IdleIsCall == IsCall(Idle) /\ Idle.it = NULL /\ Idle.pc = "idle"
BY DEF IsCall, Idle

LEMMA Bounds ==
  ASSUME Premises, NEW c, NEW h, NEW n, NEW m, AllOK(c, h, n, m)
  PROVE  /\ n \in Nat /\ m \in Nat /\ MaxCalls \in Nat /\ m <= MaxCalls
         /\ MaxHold \in Nat /\ ITEM_UPDATE_INTERVAL \in Nat /\ TAIL_REPAIR_TIME \in Nat
         /\ CacheOK(c, {}) /\ NoPrefixes /\ IsTable(Threads, h) /\ IsFiniteSet(Threads)
         /\ NULL \notin DOMAIN c.mem
<1>1. NULL \notin DOMAIN c.mem
  BY NullIsNoChunk DEF AllOK, CacheOK, HeadersOK
<1>2. n \in StartTime .. MaxTime /\ m \in 0 .. MaxCalls
  BY DEF AllOK, CallsOK
<1> QED
  BY <1>1, <1>2, DataCacheAssumption, LRUListsAssumption DEF AllOK, CallsOK, Premises

\* What the item of a call is like.
LEMMA UsedItem ==
  ASSUME Premises, NEW c, NEW h, NEW n, NEW m, AllOK(c, h, n, m),
         NEW t \in Threads, NEW x, x = h[t].it, x # NULL
  PROVE  /\ x \in Occupied(c) /\ x \in DOMAIN c.mem /\ ~IsSlabbed(c, x)
         /\ IsItem(Item(c, x)) /\ Item(c, x).key = h[t].key /\ h[t].key \in Keys
         /\ t \in Users(h, x) /\ Count(h, x) \in Nat /\ Count(h, x) # 0
         /\ Count(h, x) <= Item(c, x).refcount
         /\ Item(c, x).refcount \in Nat /\ Item(c, x).refcount # 0
<1>1. CallOK(c, h, n, t) /\ CacheOK(c, {})
  BY DEF AllOK, CallsOK
<1>2. x \in Occupied(c) /\ Item(c, x).key = h[t].key /\ h[t].key \in Keys
  BY <1>1 DEF CallOK
<1>3. x \in DOMAIN c.mem /\ ~IsSlabbed(c, x)
  BY <1>2 DEF Occupied
<1>4. IsItem(Item(c, x)) /\ Item(c, x).refcount \in Nat
  BY <1>1, <1>3, RefType DEF CacheOK, HeadersOK, IsItem
<1>5. t \in Users(h, x)
  BY DEF Users, Referrers
<1>6. Count(h, x) \in Nat /\ Count(h, x) # 0
  BY <1>5, RefsType DEF Users, Count, Premises
<1>7. Count(h, x) <= Item(c, x).refcount
  BY <1>3 DEF AllOK, CallsOK, ItemOK
<1> QED
  BY <1>2, <1>3, <1>4, <1>5, <1>6, <1>7

\* What a call knows, as far as it depends on where the call is.
LEMMA CallAt ==
  ASSUME Premises, NEW c, NEW h, NEW n, NEW m, AllOK(c, h, n, m), NEW t \in Threads
  PROVE  /\ IsCall(h[t])
         /\ h[t].pc # "idle" => h[t].it # NULL
         /\ h[t].it # NULL => h[t].since \in Nat /\ h[t].since <= n /\ n - h[t].since <= MaxHold
         /\ h[t].pc \in {"fill", "store"} =>
              ~IsLinked(c, h[t].it) /\ Users(h, h[t].it) = {t} /\ h[t].val \in Vals
         /\ h[t].pc = "store" => Item(c, h[t].it).val = h[t].val
         /\ h[t].pc = "release" => ~IsLinked(c, h[t].it)
         /\ h[t].pc \in {"copy", "unlink", "release"} => h[t].val = NULL
         /\ h[t].it # NULL /\ IsLinked(c, h[t].it) =>
              Item(c, h[t].it).time >= h[t].since - ITEM_UPDATE_INTERVAL
<1>1. CallOK(c, h, n, t)
  BY DEF AllOK, CallsOK
<1>2. IsCall(h[t])
  BY <1>1 DEF CallOK
<1>3. h[t].pc # "idle" => h[t].it # NULL
  BY <1>2, IdleIsCall DEF IsCall
<1>4. h[t].since \in Nat
  BY <1>2 DEF IsCall
<1> QED
  BY <1>1, <1>2, <1>3, <1>4 DEF CallOK

\* The item of a call is not evicted, and its queue not repaired.
LEMMA UsedStays ==
  ASSUME Premises, NEW c, NEW h, NEW n, NEW m, AllOK(c, h, n, m),
         NEW t \in Threads, h[t].it # NULL
  PROVE  ~MayGo(c, h[t].it, n)
<1>1. Item(c, h[t].it).refcount # 0 /\ Item(c, h[t].it).time \in Nat
  BY UsedItem DEF IsItem
<1>2. /\ h[t].since \in Nat /\ n - h[t].since <= MaxHold
      /\ IsLinked(c, h[t].it) => Item(c, h[t].it).time >= h[t].since - ITEM_UPDATE_INTERVAL
  BY CallAt
<1>3. /\ n \in Nat /\ MaxHold \in Nat /\ ITEM_UPDATE_INTERVAL \in Nat /\ TAIL_REPAIR_TIME \in Nat
      /\ MaxHold + ITEM_UPDATE_INTERVAL <= TAIL_REPAIR_TIME
  BY Bounds DEF Premises
<1> SUFFICES ASSUME IsLinked(c, h[t].it) PROVE ~(Item(c, h[t].it).time + TAIL_REPAIR_TIME < n)
  BY <1>1 DEF MayGo
<1> QED
  BY <1>1, <1>2, <1>3

-----------------------------------------------------------------------------
(***************************************************************************)
(* Counting the calls that use an item.                                    *)
(***************************************************************************)

LEMMA CountEnter ==
  ASSUME IsFiniteSet(Threads), NEW h, IsTable(Threads, h), NEW t \in Threads, h[t] = Idle,
         NEW r, r.it # NULL, NEW g, g = WithEntry(h, t, r)
  PROVE  /\ Users(g, r.it) = Users(h, r.it) \cup {t} /\ Count(g, r.it) = Count(h, r.it) + 1
         /\ \A y : y # NULL /\ y # r.it => Count(g, y) = Count(h, y)
<1>1. h[t].it = NULL /\ r.it # h[t].it
  BY IdleIsCall
<1>2. /\ Referrers(Threads, g, r.it) = Referrers(Threads, h, r.it) \cup {t}
      /\ RefsTo(Threads, g, r.it) = RefsTo(Threads, h, r.it) + 1
      /\ \A y : y # r.it /\ y # h[t].it =>
           /\ Referrers(Threads, g, y) = Referrers(Threads, h, y)
           /\ RefsTo(Threads, g, y) = RefsTo(Threads, h, y)
  BY <1>1, RefsChange
<1> QED
  BY <1>1, <1>2 DEF Users, Count

LEMMA CountReturn ==
  ASSUME IsFiniteSet(Threads), NEW h, IsTable(Threads, h), NEW t \in Threads, h[t].it # NULL,
         NEW g, g = WithEntry(h, t, Idle)
  PROVE  /\ Count(g, h[t].it) = Count(h, h[t].it) - 1
         /\ \A y : y # NULL /\ y # h[t].it => Count(g, y) = Count(h, y)
<1> PICK r : r = Idle
  OBVIOUS
<1>1. r.it = NULL /\ r.it # h[t].it /\ g = WithEntry(h, t, r)
  BY IdleIsCall
<1>2. /\ RefsTo(Threads, g, h[t].it) = RefsTo(Threads, h, h[t].it) - 1
      /\ \A y : y # r.it /\ y # h[t].it =>
           /\ Referrers(Threads, g, y) = Referrers(Threads, h, y)
           /\ RefsTo(Threads, g, y) = RefsTo(Threads, h, y)
  BY <1>1, RefsChange
<1> QED
  BY <1>1, <1>2 DEF Count

LEMMA CountGoto ==
  ASSUME NEW h, IsTable(Threads, h), NEW t \in Threads, NEW r, r.it = h[t].it,
         NEW g, g = WithEntry(h, t, r)
  PROVE  \A y : Users(g, y) = Users(h, y) /\ Count(g, y) = Count(h, y)
BY RefsKept DEF Users, Count

-----------------------------------------------------------------------------
(***************************************************************************)
(* The frame of a step of thread t: what it must keep of the items that    *)
(* other calls use.                                                        *)
(***************************************************************************)

Kept(c, d, r) ==
  LET x == r.it IN
  /\ x \in Occupied(d)
  /\ Item(d, x).key = Item(c, x).key /\ Item(d, x).val = Item(c, x).val
  /\ IsLinked(d, x) => /\ IsLinked(c, x)
                       /\ \/ Item(d, x).time = Item(c, x).time
                          \/ Item(d, x).time >= r.since - ITEM_UPDATE_INTERVAL

LEMMA StepOK ==
  ASSUME Premises, NEW c, NEW h, NEW n, NEW m, AllOK(c, h, n, m), NEW t \in Threads,
         NEW d, CacheOK(d, {}), NEW r, NEW g, g = WithEntry(h, t, r),
         NEW m2 \in 0 .. MaxCalls,
         \A u \in Threads : u # t /\ h[u].it # NULL => Kept(c, d, h[u]),
         \A u \in Threads : u # t /\ h[u].pc \in {"fill", "store"} => h[u].it # r.it,
         CallOK(d, g, n, t),
         \A x \in DOMAIN d.mem : ItemOK(d, g, x)
  PROVE  AllOK(d, g, n, m2)
<1>1. IsTable(Threads, g) /\ g[t] = r /\ \A u \in Threads : u # t => g[u] = h[u]
  BY Bounds, WithEntryView
<1>2. ASSUME NEW u \in Threads, u # t PROVE CallOK(d, g, n, u)
  <2>1. CallOK(c, h, n, u) /\ g[u] = h[u]
    BY <1>1, <1>2 DEF AllOK, CallsOK
  <2>2. CASE h[u].it = NULL
    BY <2>1, <2>2 DEF CallOK
  <2>3. CASE h[u].it # NULL
    <3>1. Kept(c, d, h[u])
      BY <1>2, <2>3
    <3>2. ASSUME h[u].pc \in {"fill", "store"} PROVE Users(g, h[u].it) = {u}
      <4>1. Users(h, h[u].it) = {u}
        BY <3>2, CallAt
      <4>2. h[u].it # r.it
        BY <1>2, <3>2
      <4> QED BY <1>1, <1>2, <4>1, <4>2 DEF Users, Referrers
    <3> QED BY <2>1, <2>3, <3>1, <3>2 DEF CallOK, Kept
  <2> QED BY <2>2, <2>3
<1> QED
  BY <1>1, <1>2 DEF AllOK, CallsOK

\* An item that the step leaves alone.
LEMMA ItemKept ==
  ASSUME NEW c, NEW h, NEW d, NEW g, NEW x, ItemOK(c, h, x),
         Item(d, x) = Item(c, x), Count(g, x) = Count(h, x)
  PROVE  ItemOK(d, g, x)
BY DEF ItemOK, IsSlabbed, IsLinked

LEMMA RefcountType ==
  ASSUME NEW c, CacheOK(c, {})
  PROVE  \A x \in DOMAIN c.mem : Item(c, x).refcount \in Nat
BY RefType DEF CacheOK, HeadersOK, IsItem

\* An item that is as it was is kept.
LEMMA KeptAsItWas ==
  ASSUME NEW c, NEW h, NEW n, NEW m, AllOK(c, h, n, m), NEW u \in Threads, h[u].it # NULL,
         NEW d, DOMAIN c.mem \subseteq DOMAIN d.mem, Item(d, h[u].it) = Item(c, h[u].it)
  PROVE  Kept(c, d, h[u])
<1>1. CallOK(c, h, n, u)
  BY DEF AllOK, CallsOK
<1>2. h[u].it \in Occupied(c)
  BY <1>1 DEF CallOK
<1> QED
  BY <1>2 DEF Kept, Occupied, IsSlabbed, IsLinked

\* The same items and calls, data structures in order, and perhaps more calls.
LEMMA SameItems ==
  ASSUME Premises, NEW c, NEW h, NEW n, NEW m, AllOK(c, h, n, m),
         NEW d, CacheOK(d, {}), DOMAIN d.mem = DOMAIN c.mem, \A y : Item(d, y) = Item(c, y),
         NEW m2 \in 0 .. MaxCalls
  PROVE  AllOK(d, h, n, m2)
<1>1. ASSUME NEW u \in Threads PROVE CallOK(d, h, n, u)
  <2>1. CallOK(c, h, n, u)
    BY DEF AllOK, CallsOK
  <2>2. \A y : (y \in Occupied(d) <=> y \in Occupied(c)) /\ (IsLinked(d, y) <=> IsLinked(c, y))
    BY DEF Occupied, IsSlabbed, IsLinked
  <2> QED BY <2>1, <2>2 DEF CallOK
<1>2. ASSUME NEW y \in DOMAIN d.mem PROVE ItemOK(d, h, y)
  <2>1. ItemOK(c, h, y)
    BY <1>2 DEF AllOK, CallsOK
  <2>2. Item(d, y) = Item(c, y)
    OBVIOUS
  <2> QED BY <2>1, <2>2, ItemKept
<1> QED
  BY <1>1, <1>2 DEF AllOK, CallsOK

-----------------------------------------------------------------------------
(***************************************************************************)
(* What the cache is to the abstract map: the value of every key, which    *)
(* the linked items determine, and what the other calls see of their items.*)
(***************************************************************************)

AValue(c, k) ==
  LET x == Found(c.assoc)[k] IN IF x = NULL THEN NULL ELSE Item(c, x).val

SameMap(c, d) == \A k \in Keys : AValue(d, k) = AValue(c, k)

Undisturbed(c, d, h, t) ==
  \A u \in Threads : u # t /\ h[u].it # NULL =>
    /\ Item(d, h[u].it).val = Item(c, h[u].it).val
    /\ IsLinked(d, h[u].it) <=> IsLinked(c, h[u].it)

LEMMA LinkedIs == ASSUME NEW c, NEW x PROVE IsLinked(c, x) <=> x \in LinkedItems(c)
BY DEF IsLinked, LinkedItems, Item, ZeroedItem

LEMMA ValueOfLinked ==
  ASSUME NEW c, CacheOK(c, {}), NEW x, IsLinked(c, x)
  PROVE  /\ x # NULL /\ Item(c, x).key \in Keys /\ Found(c.assoc)[Item(c, x).key] = x
         /\ AValue(c, Item(c, x).key) = Item(c, x).val
<1>1. x \in LinkedItems(c)
  BY LinkedIs
<1>2. x # NULL /\ Item(c, x).key \in Keys
  BY <1>1, NullIsNoChunk DEF CacheOK, HeadersOK, LinkedItems
<1>3. Found(c.assoc)[Item(c, x).key] = x
  BY <1>1 DEF CacheOK, TableAgrees
<1> QED
  BY <1>2, <1>3 DEF AValue

LEMMA FoundIsLinked ==
  ASSUME NEW c, CacheOK(c, {}), NEW k \in Keys, NEW x, x = Found(c.assoc)[k], x # NULL
  PROVE  IsLinked(c, x) /\ Item(c, x).key = k /\ AValue(c, k) = Item(c, x).val
<1>1. x \in LinkedItems(c) /\ Item(c, x).key = k
  BY DEF CacheOK, TableAgrees
<1> QED
  BY <1>1, LinkedIs DEF AValue

\* When no linked item has it, a key has no value.
LEMMA NoValue ==
  ASSUME NEW c, CacheOK(c, {}), NEW k \in Keys, \A x : IsLinked(c, x) => Item(c, x).key # k
  PROVE  Found(c.assoc)[k] = NULL /\ AValue(c, k) = NULL
<1>1. Found(c.assoc)[k] = NULL
  BY FoundIsLinked
<1> QED
  BY <1>1 DEF AValue

\* A key whose linked items are the same has the same value.
LEMMA SameValue ==
  ASSUME NEW c, CacheOK(c, {}), NEW d, CacheOK(d, {}), NEW k \in Keys,
         \A x : Item(d, x).key = Item(c, x).key \/ (~IsLinked(c, x) /\ ~IsLinked(d, x)),
         \A x : Item(c, x).key = k =>
           /\ IsLinked(d, x) <=> IsLinked(c, x)
           /\ IsLinked(c, x) => Item(d, x).val = Item(c, x).val
  PROVE  AValue(d, k) = AValue(c, k)
<1>1. CASE \E x : IsLinked(c, x) /\ Item(c, x).key = k
  <2>1. PICK x : IsLinked(c, x) /\ Item(c, x).key = k
    BY <1>1
  <2>2. IsLinked(d, x) /\ Item(d, x).key = k /\ Item(d, x).val = Item(c, x).val
    BY <2>1
  <2> QED BY <2>1, <2>2, ValueOfLinked
<1>2. CASE ~\E x : IsLinked(c, x) /\ Item(c, x).key = k
  <2>1. \A x : IsLinked(d, x) => Item(d, x).key # k
    BY <1>2
  <2> QED BY <1>2, <2>1, NoValue
<1> QED
  BY <1>1, <1>2

\* A step that neither links nor unlinks nor changes a linked item's data.
LEMMA MapUnchanged ==
  ASSUME NEW c, CacheOK(c, {}), NEW d, CacheOK(d, {}),
         \A x : IsLinked(d, x) <=> IsLinked(c, x),
         \A x : IsLinked(c, x) => Item(d, x).key = Item(c, x).key /\ Item(d, x).val = Item(c, x).val
  PROVE  SameMap(c, d)
<1> SUFFICES ASSUME NEW k \in Keys PROVE AValue(d, k) = AValue(c, k)
  BY DEF SameMap
<1>1. ASSUME NEW x PROVE Item(d, x).key = Item(c, x).key \/ (~IsLinked(c, x) /\ ~IsLinked(d, x))
  OBVIOUS
<1>2. ASSUME NEW x
      PROVE  /\ IsLinked(d, x) <=> IsLinked(c, x)
             /\ IsLinked(c, x) => Item(d, x).val = Item(c, x).val
  OBVIOUS
<1> QED
  BY <1>1, <1>2, SameValue

-----------------------------------------------------------------------------
(***************************************************************************)
(* One lemma for each action: it keeps the invariant, and what it does to  *)
(* the map and to the other calls.                                         *)
(***************************************************************************)

\* The record of a call that begins.
Entered(pc, k, v, x, n) == [pc |-> pc, key |-> k, val |-> v, it |-> x, since |-> n]

LEMMA EnteredIs ==
  ASSUME NEW pc \in {"copy", "fill", "unlink"}, NEW k, NEW v, NEW x, x # NULL, NEW n \in Nat,
         NEW r, r = Entered(pc, k, v, x, n)
  PROVE  /\ IsCall(r) /\ r.pc = pc /\ r.key = k /\ r.val = v /\ r.it = x /\ r.since = n
         /\ r # Idle
BY DEF IsCall, Entered, Idle

\* getItem and deleteItem find an item.
LEMMA GetStep ==
  ASSUME Premises, NEW c, NEW h, NEW n, NEW m, AllOK(c, h, n, m), CountsBelow(c), NEW t \in Threads, h[t] = Idle,
         NEW k \in Keys, NEW o, o = do_item_get(c, k, n), o.it # NULL,
         NEW pc \in {"copy", "unlink"}, NEW r, r = Entered(pc, k, NULL, o.it, n),
         NEW g, g = WithEntry(h, t, r), NEW m2, m2 = m + 1, m2 <= MaxCalls
  PROVE  /\ AllOK(o.c, g, n, m2) /\ SameMap(c, o.c) /\ Undisturbed(c, o.c, h, t)
         /\ AValue(c, k) # NULL /\ IsLinked(o.c, o.it) /\ Item(o.c, o.it).val = AValue(c, k)
<1>1. /\ n \in Nat /\ m \in Nat /\ MaxCalls \in Nat /\ m <= MaxCalls
      /\ MaxHold \in Nat /\ ITEM_UPDATE_INTERVAL \in Nat
      /\ CacheOK(c, {}) /\ IsTable(Threads, h) /\ IsFiniteSet(Threads) /\ NULL \notin DOMAIN c.mem
  BY Bounds
<1> PICK x : x = Found(c.assoc)[k]
  OBVIOUS
<1> PICK d : d = o.c
  OBVIOUS
<1>2. x # NULL
  BY DEF do_item_get, Found
<1>3. IsLinked(c, x) /\ Item(c, x).key = k /\ AValue(c, k) = Item(c, x).val
  BY <1>1, <1>2, FoundIsLinked
<1>4. x \in DOMAIN c.mem /\ ~IsSlabbed(c, x)
  BY <1>1, <1>3, LinkedIs DEF CacheOK, HeadersOK, LinkedItems
<1>5. /\ Count(h, x) <= Item(c, x).refcount
      /\ Item(c, x).val \in Vals /\ Item(c, x).refcount \in Nat
  BY <1>1, <1>3, <1>4, RefcountType DEF AllOK, CallsOK, ItemOK
<1>6. Item(c, x).refcount + 1 < RefMod
  BY <1>4 DEF CountsBelow
<1>7. /\ o.it = x /\ CacheOK(d, {}) /\ DOMAIN d.mem = DOMAIN c.mem
      /\ \A y : y # x => Item(d, y) = Item(c, y)
      /\ Item(d, x).key = k /\ Item(d, x).val = Item(c, x).val
      /\ Item(d, x).refcount = Item(c, x).refcount + 1
      /\ IsLinked(d, x) /\ ~IsSlabbed(d, x)
      /\ Item(d, x).time = Item(c, x).time \/ Item(d, x).time = n
      /\ Item(d, x).time >= n - ITEM_UPDATE_INTERVAL
  BY <1>1, <1>2, <1>6, GetItem
<1>8. /\ IsCall(r) /\ r.pc = pc /\ r.key = k /\ r.val = NULL /\ r.it = x /\ r.since = n
  BY <1>1, <1>2, <1>7, EnteredIs
<1>9. /\ Count(g, x) = Count(h, x) + 1
      /\ \A y \in DOMAIN d.mem : y # x => Count(g, y) = Count(h, y)
  <2>1. r.it # NULL
    BY <1>2, <1>8
  <2>2. /\ Count(g, r.it) = Count(h, r.it) + 1
        /\ \A y : y # NULL /\ y # r.it => Count(g, y) = Count(h, y)
    BY <1>1, <2>1, CountEnter
  <2> QED BY <1>1, <1>7, <1>8, <2>2
<1>10. ASSUME NEW u \in Threads, h[u].it # NULL PROVE Kept(c, d, h[u])
  <2>1. CASE h[u].it = x
    <3>1. h[u].since \in Nat /\ h[u].since <= n
      BY <1>10, CallAt
    <3>2. n >= h[u].since - ITEM_UPDATE_INTERVAL
      BY <1>1, <3>1
    <3>3. x \in Occupied(d)
      BY <1>4, <1>7 DEF Occupied
    <3>4. Item(d, x).time = Item(c, x).time \/ Item(d, x).time >= h[u].since - ITEM_UPDATE_INTERVAL
      BY <1>7, <3>2
    <3> QED BY <1>3, <1>7, <2>1, <3>3, <3>4 DEF Kept
  <2>2. CASE h[u].it # x
    BY <1>7, <1>10, <2>2, KeptAsItWas
  <2> QED BY <2>1, <2>2
<1>11. ASSUME NEW u \in Threads, h[u].pc \in {"fill", "store"} PROVE h[u].it # r.it
  BY <1>3, <1>8, <1>11, CallAt
<1>12. g[t] = r
  BY <1>1, WithEntryView
<1>13. CallOK(d, g, n, t)
  <2>1. x \in Occupied(d)
    BY <1>4, <1>7 DEF Occupied
  <2>2. n <= n /\ n - n <= MaxHold
    BY <1>1
  <2>3. r.pc \notin {"fill", "store", "release"}
    BY <1>8
  <2> QED BY <1>7, <1>8, <1>12, <2>1, <2>2, <2>3 DEF CallOK
<1>14. ASSUME NEW y \in DOMAIN d.mem PROVE ItemOK(d, g, y)
  <2>1. CASE y = x
    <3>1. Count(h, x) \in Nat
      BY <1>1, RefsType DEF Count
    <3>2. Count(g, x) <= Item(d, x).refcount
      BY <1>1, <1>5, <1>7, <1>9, <3>1
    <3>3. Item(d, x).val \in Vals
      BY <1>5, <1>7
    <3> QED BY <2>1, <3>2, <3>3 DEF ItemOK
  <2>2. CASE y # x
    <3>1. ItemOK(c, h, y)
      BY <1>7, <1>14 DEF AllOK, CallsOK
    <3>2. Item(d, y) = Item(c, y) /\ Count(g, y) = Count(h, y)
      BY <1>7, <1>9, <1>14, <2>2
    <3> QED BY <3>1, <3>2, ItemKept
  <2> QED BY <2>1, <2>2
<1>15. m2 \in 0 .. MaxCalls
  BY <1>1
<1>16. AllOK(d, g, n, m2)
  BY <1>7, <1>10, <1>11, <1>13, <1>14, <1>15, StepOK
<1>17. \A y : /\ IsLinked(d, y) <=> IsLinked(c, y)
              /\ Item(d, y).key = Item(c, y).key /\ Item(d, y).val = Item(c, y).val
  BY <1>3, <1>7 DEF IsLinked
<1>18. SameMap(c, d)
  BY <1>1, <1>7, <1>17, MapUnchanged
<1>19. Undisturbed(c, d, h, t)
  BY <1>17 DEF Undisturbed
<1> QED
  BY <1>3, <1>5, <1>7, <1>16, <1>18, <1>19, DataCacheAssumption

\* A miss, and a store that finds no memory: one call more, and no more.
LEMMA CountedStep ==
  ASSUME Premises, NEW c, NEW h, NEW n, NEW m, AllOK(c, h, n, m),
         NEW m2, m2 = m + 1, m2 <= MaxCalls
  PROVE  AllOK(c, h, n, m2)
<1>1. m2 \in 0 .. MaxCalls /\ CacheOK(c, {})
  BY Bounds
<1> QED
  BY <1>1, SameItems

LEMMA MissStep ==
  ASSUME NEW c, NEW k \in Keys, NEW n, NEW o, o = do_item_get(c, k, n), o.it = NULL,
         CacheOK(c, {})
  PROVE  o.c = c /\ AValue(c, k) = NULL
<1>1. Found(c.assoc)[k] = NULL
  <2>1. Found(c.assoc)[k] = Table!assoc_find(c.assoc, k)
    BY DEF Found
  <2>2. ASSUME Found(c.assoc)[k] # NULL PROVE FALSE
    BY <2>1, <2>2 DEF do_item_get
  <2> QED BY <2>2
<1> QED
  BY <1>1 DEF do_item_get, Found, AValue

\* Making room takes nothing that a call uses, and of the map only whole keys.
Forgotten(c, d) == {k \in Keys : \E x : IsLinked(c, x) /\ Item(c, x).key = k /\ ~IsLinked(d, x)}

Forgets(c, d) ==
  \A k \in Keys : AValue(d, k) = IF k \in Forgotten(c, d) THEN NULL ELSE AValue(c, k)

LEMMA MapForgets ==
  ASSUME NEW c, CacheOK(c, {}), NEW d, CacheOK(d, {}),
         \A x : IsLinked(d, x) => IsLinked(c, x),
         \A x : IsLinked(c, x) => Item(d, x).key = Item(c, x).key /\ Item(d, x).val = Item(c, x).val
  PROVE  Forgets(c, d)
<1> SUFFICES ASSUME NEW k \in Keys
             PROVE  AValue(d, k) = IF k \in Forgotten(c, d) THEN NULL ELSE AValue(c, k)
  BY DEF Forgets
<1>1. CASE k \in Forgotten(c, d)
  <2>1. PICK x : IsLinked(c, x) /\ Item(c, x).key = k /\ ~IsLinked(d, x)
    BY <1>1 DEF Forgotten
  <2>2. ASSUME NEW y, IsLinked(d, y), Item(d, y).key = k PROVE FALSE
    <3>1. IsLinked(c, y) /\ Item(c, y).key = k
      BY <2>2
    <3>2. y = x
      BY <2>1, <3>1, ValueOfLinked
    <3> QED BY <2>1, <2>2, <3>2
  <2>3. AValue(d, k) = NULL
    BY <2>2, NoValue
  <2> QED BY <1>1, <2>3
<1>2. CASE k \notin Forgotten(c, d)
  <2>1. ASSUME NEW x PROVE Item(d, x).key = Item(c, x).key \/ (~IsLinked(c, x) /\ ~IsLinked(d, x))
    OBVIOUS
  <2>2. ASSUME NEW x, Item(c, x).key = k
        PROVE  /\ IsLinked(d, x) <=> IsLinked(c, x)
               /\ IsLinked(c, x) => Item(d, x).val = Item(c, x).val
    BY <1>2, <2>2 DEF Forgotten
  <2>3. AValue(d, k) = AValue(c, k)
    BY <2>1, <2>2, SameValue
  <2> QED BY <1>2, <2>3
<1> QED
  BY <1>1, <1>2

LEMMA MadeStep ==
  ASSUME Premises, NEW c, NEW h, NEW n, NEW m, AllOK(c, h, n, m), NEW e, Made(c, e, n)
  PROVE  /\ AllOK(e, h, n, m) /\ Forgets(c, e)
         /\ \A u \in Threads : h[u].it # NULL => Item(e, h[u].it) = Item(c, h[u].it)
<1>1. CacheOK(e, {}) /\ DOMAIN e.mem = DOMAIN c.mem /\ CacheOK(c, {})
  BY Bounds DEF Made
<1>2. ASSUME NEW u \in Threads, h[u].it # NULL PROVE Item(e, h[u].it) = Item(c, h[u].it)
  BY <1>2, UsedStays DEF Made
<1>3. ASSUME NEW u \in Threads PROVE CallOK(e, h, n, u)
  <2> DEFINE y == h[u].it
  <2>1. CallOK(c, h, n, u)
    BY DEF AllOK, CallsOK
  <2>2. ASSUME y # NULL PROVE Item(e, y) = Item(c, y) /\ y \in Occupied(e)
    <3>1. y \in Occupied(c) /\ Item(e, y) = Item(c, y)
      BY <1>2, <2>1, <2>2 DEF CallOK
    <3> QED BY <1>1, <3>1 DEF Occupied, IsSlabbed
  <2> QED BY <2>1, <2>2 DEF CallOK, IsLinked
<1>4. ASSUME NEW y \in DOMAIN e.mem PROVE ItemOK(e, h, y)
  <2>1. ItemOK(c, h, y)
    BY <1>1, <1>4 DEF AllOK, CallsOK
  <2>2. CASE Item(e, y) = Item(c, y)
    BY <2>1, <2>2 DEF ItemOK, IsSlabbed, IsLinked
  <2>3. CASE Item(e, y) # Item(c, y)
    BY <2>3 DEF Made, ItemOK
  <2> QED BY <2>2, <2>3
<1>5. AllOK(e, h, n, m)
  BY <1>1, <1>3, <1>4 DEF AllOK, CallsOK
<1>6. ASSUME NEW x PROVE IsLinked(e, x) => IsLinked(c, x)
  <2>1. CASE Item(e, x) = Item(c, x)
    BY <2>1 DEF IsLinked
  <2>2. CASE Item(e, x) # Item(c, x)
    BY <2>2 DEF Made
  <2> QED BY <2>1, <2>2
<1>7. \A x : Item(e, x).key = Item(c, x).key /\ Item(e, x).val = Item(c, x).val
  BY DEF Made
<1>8. Forgets(c, e)
  BY <1>1, <1>6, <1>7, MapForgets
<1> QED
  BY <1>2, <1>5, <1>8

\* A new item, of one call.
LEMMA NewStep ==
  ASSUME Premises, NEW c, NEW h, NEW n, NEW m, AllOK(c, h, n, m), NEW t \in Threads, h[t] = Idle,
         NEW k \in Keys, NEW v \in Vals, NEW d, CacheOK(d, {}), NEW x, x # NULL,
         NewItem(c, d, x, k), x \notin Occupied(c),
         NEW r, r = Entered("fill", k, v, x, n), NEW g, g = WithEntry(h, t, r),
         NEW m2, m2 = m + 1, m2 <= MaxCalls
  PROVE  /\ AllOK(d, g, n, m2) /\ SameMap(c, d)
         /\ \A u \in Threads : h[u].it # NULL => Item(d, h[u].it) = Item(c, h[u].it)
<1>1. /\ n \in Nat /\ m \in Nat /\ MaxCalls \in Nat /\ m <= MaxCalls
      /\ MaxHold \in Nat /\ ITEM_UPDATE_INTERVAL \in Nat
      /\ CacheOK(c, {}) /\ IsTable(Threads, h) /\ IsFiniteSet(Threads) /\ NULL \notin DOMAIN c.mem
  BY Bounds
<1>2. /\ DOMAIN d.mem = DOMAIN c.mem \cup {x}
      /\ \A y : y # x => Item(d, y) = Item(c, y)
      /\ x \in Occupied(d) /\ ~IsLinked(d, x)
      /\ Item(d, x).key = k /\ Item(d, x).refcount = 1
  BY DEF NewItem
<1>3. /\ IsCall(r) /\ r.pc = "fill" /\ r.key = k /\ r.val = v /\ r.it = x /\ r.since = n
  BY <1>1, EnteredIs
<1>4. ASSUME NEW u \in Threads, h[u].it # NULL PROVE h[u].it # x
  BY <1>4, UsedItem
<1>5. Users(h, x) = {} /\ Count(h, x) = 0
  <2>1. \A u \in Threads : h[u].it # x
    BY <1>4
  <2>2. Users(h, x) = {}
    BY <2>1 DEF Users, Referrers
  <2> QED BY <1>1, <2>2, RefsType DEF Users, Count
<1>6. /\ Users(g, x) = {t} /\ Count(g, x) = 1
      /\ \A y \in DOMAIN c.mem : y # x => Count(g, y) = Count(h, y)
  <2>1. r.it # NULL
    BY <1>3
  <2>2. /\ Users(g, r.it) = Users(h, r.it) \cup {t} /\ Count(g, r.it) = Count(h, r.it) + 1
        /\ \A y : y # NULL /\ y # r.it => Count(g, y) = Count(h, y)
    BY <1>1, <2>1, CountEnter
  <2>3. Users(g, x) = Users(h, x) \cup {t} /\ Count(g, x) = Count(h, x) + 1
    BY <1>3, <2>2
  <2>4. Users(g, x) = {t}
    BY <1>5, <2>3
  <2>5. Count(g, x) = 1
    BY <1>5, <2>3
  <2> QED BY <1>1, <1>3, <2>2, <2>4, <2>5
<1>7. ASSUME NEW u \in Threads, h[u].it # NULL PROVE Kept(c, d, h[u]) /\ Item(d, h[u].it) = Item(c, h[u].it)
  <2>1. Item(d, h[u].it) = Item(c, h[u].it)
    BY <1>2, <1>4, <1>7
  <2> QED BY <1>2, <1>7, <2>1, KeptAsItWas
<1>8. ASSUME NEW u \in Threads, h[u].pc \in {"fill", "store"} PROVE h[u].it # r.it
  BY <1>3, <1>4, <1>8, CallAt
<1>9. g[t] = r
  BY <1>1, WithEntryView
<1>10. CallOK(d, g, n, t)
  <2>1. n <= n /\ n - n <= MaxHold
    BY <1>1
  <2>2. r.pc \notin {"store", "copy", "unlink", "release"}
    BY <1>3
  <2> QED BY <1>2, <1>3, <1>6, <1>9, <2>1, <2>2 DEF CallOK
<1>11. ASSUME NEW y \in DOMAIN d.mem PROVE ItemOK(d, g, y)
  <2>1. CASE y = x
    <3>1. Count(g, x) <= Item(d, x).refcount
      BY <1>2, <1>6
    <3> QED BY <1>2, <2>1, <3>1 DEF ItemOK
  <2>2. CASE y # x
    <3>1. ItemOK(c, h, y)
      BY <1>2, <1>11, <2>2 DEF AllOK, CallsOK
    <3>2. Item(d, y) = Item(c, y) /\ Count(g, y) = Count(h, y)
      BY <1>2, <1>6, <1>11, <2>2
    <3> QED BY <3>1, <3>2, ItemKept
  <2> QED BY <2>1, <2>2
<1>12. m2 \in 0 .. MaxCalls
  BY <1>1
<1>13. AllOK(d, g, n, m2)
  BY <1>7, <1>8, <1>10, <1>11, <1>12, StepOK
<1>14. ~IsLinked(c, x)
  BY <1>1, LinkedIs DEF CacheOK, HeadersOK, LinkedItems, Occupied
<1>15. \A y : IsLinked(d, y) <=> IsLinked(c, y)
  BY <1>2, <1>14 DEF IsLinked
<1>16. \A y : IsLinked(c, y) => Item(d, y).key = Item(c, y).key /\ Item(d, y).val = Item(c, y).val
  BY <1>2, <1>14
<1>17. SameMap(c, d)
  BY <1>1, <1>15, <1>16, MapUnchanged
<1> QED
  BY <1>7, <1>13, <1>17

\* storeItem begins: it makes room, and may then find a chunk.
LEMMA AllocStep ==
  ASSUME Premises, NEW c, NEW h, NEW n, NEW m, AllOK(c, h, n, m), NEW t \in Threads, h[t] = Idle,
         NEW k \in Keys, NEW v \in Vals, NEW bytes \in Nat, NEW o \in do_item_alloc(c, k, bytes, n),
         NEW r, r = Entered("fill", k, v, o.it, n), NEW g, g = WithEntry(h, t, r),
         NEW m2, m2 = m + 1, m2 <= MaxCalls
  PROVE  /\ o.it = NULL => AllOK(o.c, h, n, m2)
         /\ o.it # NULL => AllOK(o.c, g, n, m2)
         /\ Undisturbed(c, o.c, h, t)
         /\ \E K \in SUBSET Keys :
              \A l \in Keys : AValue(o.c, l) = IF l \in K THEN NULL ELSE AValue(c, l)
<1>1. n \in Nat /\ CacheOK(c, {}) /\ NoPrefixes
  BY Bounds
<1>2. PICK e : Allocated(c, o, e, k, n)
  BY <1>1, AllocItem
<1>3. Made(c, e, n) /\ CacheOK(o.c, {})
  BY <1>2 DEF Allocated
<1>4. /\ AllOK(e, h, n, m) /\ Forgets(c, e) /\ CacheOK(e, {})
      /\ \A u \in Threads : h[u].it # NULL => Item(e, h[u].it) = Item(c, h[u].it)
  BY <1>3, MadeStep DEF Made
<1>5. CASE o.it = NULL
  <2>1. o.c.mem = e.mem
    BY <1>2, <1>5 DEF Allocated
  <2>2. DOMAIN o.c.mem = DOMAIN e.mem /\ \A y : Item(o.c, y) = Item(e, y)
    BY <2>1 DEF Item
  <2>3. m2 \in 0 .. MaxCalls
    BY <1>4, Bounds
  <2>4. AllOK(o.c, h, n, m2)
    BY <1>3, <1>4, <2>2, <2>3, SameItems
  <2>5. SameMap(e, o.c)
    <3>1. \A y : IsLinked(o.c, y) <=> IsLinked(e, y)
      BY <2>2 DEF IsLinked
    <3> QED BY <1>3, <1>4, <2>2, <3>1, MapUnchanged
  <2>6. Undisturbed(c, o.c, h, t)
    BY <1>4, <2>2 DEF Undisturbed, IsLinked
  <2>7. Forgotten(c, e) \in SUBSET Keys
    BY DEF Forgotten
  <2>8. \A l \in Keys : AValue(o.c, l) = IF l \in Forgotten(c, e) THEN NULL ELSE AValue(c, l)
    BY <1>4, <2>5 DEF Forgets, SameMap
  <2> QED BY <1>5, <2>4, <2>6, <2>7, <2>8
<1>6. CASE o.it # NULL
  <2>1. NewItem(e, o.c, o.it, k) /\ o.it \notin Occupied(e)
    BY <1>2, <1>6 DEF Allocated
  <2>2. /\ AllOK(o.c, g, n, m2) /\ SameMap(e, o.c)
        /\ \A u \in Threads : h[u].it # NULL => Item(o.c, h[u].it) = Item(e, h[u].it)
    BY <1>3, <1>4, <1>6, <2>1, NewStep
  <2>3. \A u \in Threads : h[u].it # NULL => Item(o.c, h[u].it) = Item(c, h[u].it)
    BY <1>4, <2>2
  <2>4. Undisturbed(c, o.c, h, t)
    BY <2>3 DEF Undisturbed, IsLinked
  <2>5. Forgotten(c, e) \in SUBSET Keys
    BY DEF Forgotten
  <2>6. \A l \in Keys : AValue(o.c, l) = IF l \in Forgotten(c, e) THEN NULL ELSE AValue(c, l)
    BY <1>4, <2>2 DEF Forgets, SameMap
  <2> QED BY <1>6, <2>2, <2>4, <2>5, <2>6
<1> QED
  BY <1>5, <1>6

\* A call goes on.
AtPc(r, pc) == [r EXCEPT !.pc = pc]

LEMMA AtPcIs ==
  ASSUME NEW q, IsCall(q), q.it # NULL, NEW pc \in {"store", "release"}, NEW r, r = AtPc(q, pc)
  PROVE  /\ IsCall(r) /\ r.pc = pc /\ r.key = q.key /\ r.val = q.val /\ r.it = q.it
         /\ r.since = q.since
<1>1. r = [pc |-> pc, key |-> q.key, val |-> q.val, it |-> q.it, since |-> q.since]
  BY DEF IsCall, AtPc
<1>2. r.pc = pc /\ r.key = q.key /\ r.val = q.val /\ r.it = q.it /\ r.since = q.since
  BY <1>1
<1>3. r = [pc |-> r.pc, key |-> r.key, val |-> r.val, it |-> r.it, since |-> r.since]
  BY <1>1, <1>2
<1>4. r.pc \in {"idle", "copy", "fill", "store", "unlink", "release"} /\ r.pc # "idle" /\ r.it # NULL
  BY <1>2
<1>5. r.since \in Nat
  BY <1>2 DEF IsCall
<1> QED
  BY <1>2, <1>3, <1>4, <1>5 DEF IsCall

\* An item that no other call uses less, and that is as it was.
LEMMA ItemFewer ==
  ASSUME NEW c, NEW h, NEW d, NEW g, NEW x, ItemOK(c, h, x), Item(d, x) = Item(c, x),
         Count(g, x) \in Nat, Count(h, x) \in Nat, Count(g, x) <= Count(h, x),
         Item(c, x).refcount \in Nat
  PROVE  ItemOK(d, g, x)
BY DEF ItemOK, IsSlabbed, IsLinked

\* The memcpy into a new item.
LEMMA FillStep ==
  ASSUME Premises, NEW c, NEW h, NEW n, NEW m, AllOK(c, h, n, m), NEW t \in Threads,
         h[t].pc = "fill", NEW x, x = h[t].it,
         NEW d, d = WithItem(c, x, Valued(Item(c, x), h[t].val)),
         NEW r, r = AtPc(h[t], "store"), NEW g, g = WithEntry(h, t, r)
  PROVE  AllOK(d, g, n, m) /\ SameMap(c, d) /\ Undisturbed(c, d, h, t)
<1>1. /\ CacheOK(c, {}) /\ IsTable(Threads, h) /\ m \in 0 .. MaxCalls
  BY Bounds DEF AllOK, CallsOK
<1>2. /\ IsCall(h[t]) /\ x # NULL /\ ~IsLinked(c, x) /\ Users(h, x) = {t} /\ h[t].val \in Vals
      /\ h[t].since \in Nat /\ h[t].since <= n /\ n - h[t].since <= MaxHold
  BY CallAt
<1>3. x \in Occupied(c) /\ IsItem(Item(c, x)) /\ Item(c, x).key = h[t].key /\ h[t].key \in Keys
  BY <1>2, UsedItem
<1> PICK valued : valued = Valued(Item(c, x), h[t].val)
  OBVIOUS
<1>4. /\ IsItem(valued) /\ valued.iflag = Item(c, x).iflag
      /\ valued.slabs_clsid = Item(c, x).slabs_clsid /\ valued.key = Item(c, x).key
      /\ valued.val = h[t].val /\ valued.time = Item(c, x).time
      /\ valued.refcount = Item(c, x).refcount
  <2> PICK it : it = Item(c, x)
    OBVIOUS
  <2> PICK v : v = h[t].val
    OBVIOUS
  <2>1. IsItem(it) /\ valued = Valued(it, v)
    BY <1>3
  <2>2. /\ IsItem(Valued(it, v)) /\ Valued(it, v).iflag = it.iflag
        /\ Valued(it, v).slabs_clsid = it.slabs_clsid
        /\ Valued(it, v).key = it.key /\ Valued(it, v).val = v /\ Valued(it, v).time = it.time
        /\ Valued(it, v).refcount = it.refcount
    BY <2>1, ItemValued
  <2> QED BY <2>1, <2>2
<1>5. /\ CacheOK(d, {}) /\ DOMAIN d.mem = DOMAIN c.mem /\ Occupied(d) = Occupied(c)
      /\ Item(d, x) = valued /\ \A y : y # x => Item(d, y) = Item(c, y)
  BY <1>1, <1>3, <1>4, ChangeHeader
<1>6. /\ IsCall(r) /\ r.pc = "store" /\ r.key = h[t].key /\ r.val = h[t].val /\ r.it = x
      /\ r.since = h[t].since
  BY <1>2, AtPcIs
<1>7. \A y : Users(g, y) = Users(h, y) /\ Count(g, y) = Count(h, y)
  BY <1>1, <1>6, CountGoto
<1>8. ASSUME NEW u \in Threads, u # t PROVE h[u].it # x
  BY <1>2, <1>8 DEF Users, Referrers
<1>9. ASSUME NEW u \in Threads, u # t, h[u].it # NULL
      PROVE  Kept(c, d, h[u]) /\ Item(d, h[u].it) = Item(c, h[u].it)
  <2>1. Item(d, h[u].it) = Item(c, h[u].it)
    BY <1>5, <1>8, <1>9
  <2> QED BY <1>5, <1>9, <2>1, KeptAsItWas
<1>10. g[t] = r
  BY <1>1, WithEntryView
<1>11. IsLinked(d, x) <=> IsLinked(c, x)
  BY <1>4, <1>5 DEF IsLinked
<1>12. CallOK(d, g, n, t)
  <2>1. r.pc \notin {"copy", "unlink", "release"}
    BY <1>6
  <2>2. Users(g, x) = {t} /\ x \in Occupied(d) /\ ~IsLinked(d, x)
    BY <1>2, <1>3, <1>5, <1>7, <1>11
  <2>3. Item(d, x).key = r.key /\ Item(d, x).val = r.val /\ r.key \in Keys
    BY <1>3, <1>4, <1>5, <1>6
  <2> QED BY <1>2, <1>6, <1>10, <2>1, <2>2, <2>3 DEF CallOK
<1>13. ASSUME NEW y \in DOMAIN d.mem PROVE ItemOK(d, g, y)
  <2>1. ItemOK(c, h, y)
    BY <1>5, <1>13 DEF AllOK, CallsOK
  <2>2. CASE y = x
    <3>1. ~IsSlabbed(c, x)
      BY <1>3 DEF Occupied
    <3> QED BY <1>2, <1>4, <1>5, <1>7, <1>11, <2>1, <2>2, <3>1 DEF ItemOK
  <2>3. CASE y # x
    <3>1. Item(d, y) = Item(c, y)
      BY <1>5, <2>3
    <3> QED BY <1>7, <2>1, <3>1 DEF ItemOK, IsSlabbed, IsLinked
  <2> QED BY <2>2, <2>3
<1>14. ASSUME NEW u \in Threads, u # t, h[u].pc \in {"fill", "store"} PROVE h[u].it # r.it
  BY <1>6, <1>8, <1>14
<1>15. AllOK(d, g, n, m)
  BY <1>1, <1>5, <1>9, <1>12, <1>13, <1>14, StepOK
<1>16. \A y : IsLinked(d, y) <=> IsLinked(c, y)
  BY <1>5, <1>11 DEF IsLinked
<1>17. \A y : IsLinked(c, y) => Item(d, y).key = Item(c, y).key /\ Item(d, y).val = Item(c, y).val
  BY <1>2, <1>5
<1>18. SameMap(c, d)
  BY <1>1, <1>5, <1>16, <1>17, MapUnchanged
<1>19. Undisturbed(c, d, h, t)
  BY <1>9, <1>16 DEF Undisturbed
<1> QED
  BY <1>15, <1>18, <1>19

\* A call returns: it uses nothing any more.
LEMMA IdleOK ==
  ASSUME NEW d, NEW g, NEW n, NEW t, g[t] = Idle
  PROVE  CallOK(d, g, n, t)
BY IdleIsCall DEF CallOK

LEMMA ReturnCounts ==
  ASSUME Premises, NEW c, NEW h, NEW n, NEW m, AllOK(c, h, n, m), NEW t \in Threads,
         NEW x, x = h[t].it, x # NULL, NEW g, g = WithEntry(h, t, Idle)
  PROVE  /\ g[t] = Idle /\ CallOK(c, g, n, t)
         /\ Count(g, x) = Count(h, x) - 1
         /\ \A y \in DOMAIN c.mem :
              Count(g, y) \in Nat /\ Count(h, y) \in Nat /\ Count(g, y) <= Count(h, y)
         /\ \A y \in DOMAIN c.mem : y # x => Count(g, y) = Count(h, y)
<1>1. IsFiniteSet(Threads) /\ IsTable(Threads, h) /\ NULL \notin DOMAIN c.mem
  BY Bounds
<1>2. g[t] = Idle
  BY <1>1, WithEntryView
<1>3. CallOK(c, g, n, t)
  BY <1>2, IdleOK
<1>4. /\ Count(g, x) = Count(h, x) - 1
      /\ \A y : y # NULL /\ y # x => Count(g, y) = Count(h, y)
  BY <1>1, CountReturn
<1>5. \A y : Count(g, y) \in Nat /\ Count(h, y) \in Nat
  BY <1>1, RefsType DEF Count
<1>6. ASSUME NEW y \in DOMAIN c.mem PROVE Count(g, y) <= Count(h, y)
  <2>1. CASE y = x
    BY <1>4, <1>5, <2>1
  <2>2. CASE y # x
    BY <1>1, <1>4, <1>5, <2>2
  <2> QED BY <2>1, <2>2
<1> QED
  BY <1>1, <1>2, <1>3, <1>4, <1>5, <1>6

\* The memcpy out of an item.
LEMMA CopyStep ==
  ASSUME Premises, NEW c, NEW h, NEW n, NEW m, AllOK(c, h, n, m), NEW t \in Threads,
         h[t].pc = "copy", NEW g, g = WithEntry(h, t, Idle)
  PROVE  AllOK(c, g, n, m)
<1> PICK r : r = Idle
  OBVIOUS
<1>1. CacheOK(c, {}) /\ m \in 0 .. MaxCalls
  BY Bounds DEF AllOK, CallsOK
<1>2. h[t].it # NULL
  BY CallAt
<1>3. /\ g[t] = Idle /\ CallOK(c, g, n, t)
      /\ \A y \in DOMAIN c.mem :
           Count(g, y) \in Nat /\ Count(h, y) \in Nat /\ Count(g, y) <= Count(h, y)
  BY <1>2, ReturnCounts
<1>4. ASSUME NEW y \in DOMAIN c.mem PROVE ItemOK(c, g, y)
  <2>1. ItemOK(c, h, y) /\ Item(c, y).refcount \in Nat
    BY <1>1, RefcountType DEF AllOK, CallsOK
  <2> QED BY <1>3, <2>1, ItemFewer
<1>5. ASSUME NEW u \in Threads, u # t, h[u].it # NULL PROVE Kept(c, c, h[u])
  BY <1>5, KeptAsItWas
<1>6. ASSUME NEW u \in Threads, u # t, h[u].pc \in {"fill", "store"} PROVE h[u].it # r.it
  BY <1>6, CallAt, IdleIsCall
<1>7. g = WithEntry(h, t, r)
  OBVIOUS
<1> QED
  BY <1>1, <1>3, <1>4, <1>5, <1>6, <1>7, StepOK

\* The item that storeItem filled takes the place of the one with its key.
LEMMA StoreStep ==
  ASSUME Premises, NEW c, NEW h, NEW n, NEW m, AllOK(c, h, n, m), CountsBelow(c), NEW t \in Threads,
         h[t].pc = "store", NEW x, x = h[t].it, NEW d \in do_store_item(c, x, n),
         NEW g, g = WithEntry(h, t, Idle),
         NEW y, y = Found(c.assoc)[h[t].key]
  PROVE  /\ AllOK(d, g, n, m)
         /\ \A k \in Keys : AValue(d, k) = IF k = h[t].key THEN h[t].val ELSE AValue(c, k)
         /\ \A u \in Threads : u # t /\ h[u].it # NULL =>
              /\ Item(d, h[u].it).val = Item(c, h[u].it).val
              /\ IsLinked(d, h[u].it) <=> IsLinked(c, h[u].it) /\ h[u].it # y
<1> PICK r : r = Idle
  OBVIOUS
<1>1. /\ n \in Nat /\ m \in Nat /\ MaxCalls \in Nat /\ m <= MaxCalls
      /\ CacheOK(c, {}) /\ NoPrefixes /\ m \in 0 .. MaxCalls /\ ITEM_UPDATE_INTERVAL \in Nat
      /\ NULL \notin DOMAIN c.mem
  BY Bounds DEF AllOK, CallsOK
<1>2. /\ x # NULL /\ ~IsLinked(c, x) /\ Users(h, x) = {t} /\ h[t].val \in Vals
      /\ Item(c, x).val = h[t].val
  BY CallAt
<1>3. x \in Occupied(c) /\ Item(c, x).key = h[t].key /\ h[t].key \in Keys
  BY <1>2, UsedItem
<1>4. ASSUME y # NULL
      PROVE  /\ IsLinked(c, y) /\ Item(c, y).key = h[t].key /\ y # x /\ y \in DOMAIN c.mem
             /\ ~IsSlabbed(c, y) /\ Item(c, y).refcount \in Nat
             /\ Item(c, y).refcount + 1 < RefMod
  <2>1. IsLinked(c, y) /\ Item(c, y).key = h[t].key
    BY <1>1, <1>3, <1>4, FoundIsLinked
  <2>2. y \in DOMAIN c.mem /\ ~IsSlabbed(c, y)
    BY <1>1, <2>1, LinkedIs DEF CacheOK, HeadersOK, LinkedItems
  <2>3. Item(c, y).refcount \in Nat
    BY <1>1, <2>2, RefcountType
  <2>4. Item(c, y).refcount + 1 < RefMod
    BY <2>2 DEF CountsBelow
  <2> QED BY <1>2, <2>1, <2>2, <2>3, <2>4
<1>5. CacheOK(d, {}) /\ Stored(c, d, x, y, n)
  <2>1. y = Found(c.assoc)[Item(c, x).key]
    BY <1>3
  <2> QED BY <1>1, <1>2, <1>3, <1>4, <2>1, StoreItem
<1>6. /\ DOMAIN d.mem = DOMAIN c.mem
      /\ \A z : z \notin {x, y} => Item(d, z) = Item(c, z)
      /\ Item(d, x).key = Item(c, x).key /\ Item(d, x).val = Item(c, x).val
      /\ Item(d, x).refcount = Item(c, x).refcount
      /\ IsLinked(d, x) /\ ~IsSlabbed(d, x)
  BY <1>5 DEF Stored
<1>7. ASSUME y # NULL
      PROVE  /\ ~IsLinked(d, y)
             /\ Item(d, y).key = Item(c, y).key /\ Item(d, y).val = Item(c, y).val
             /\ Item(d, y).refcount = Item(c, y).refcount
             /\ IsSlabbed(d, y) <=> Item(c, y).refcount = 0
  BY <1>5, <1>7 DEF Stored
<1>8. ASSUME NEW u \in Threads, u # t PROVE h[u].it # x
  BY <1>2, <1>8 DEF Users, Referrers
<1>9. ASSUME NEW u \in Threads, u # t, h[u].it # NULL
      PROVE  /\ Kept(c, d, h[u]) /\ Item(d, h[u].it).val = Item(c, h[u].it).val
             /\ IsLinked(d, h[u].it) <=> IsLinked(c, h[u].it) /\ h[u].it # y
  <2>1. h[u].it \in DOMAIN c.mem /\ Item(c, h[u].it).refcount # 0
    BY <1>9, UsedItem
  <2>2. CASE h[u].it = y
    <3>1. h[u].it \in Occupied(d)
      BY <1>6, <1>7, <1>9, <2>1, <2>2 DEF Occupied
    <3> QED BY <1>7, <1>9, <2>2, <3>1 DEF Kept
  <2>3. CASE h[u].it # y
    <3>1. Item(d, h[u].it) = Item(c, h[u].it)
      BY <1>6, <1>8, <1>9, <2>3
    <3>2. Kept(c, d, h[u])
      BY <1>6, <1>9, <3>1, KeptAsItWas
    <3> QED BY <2>3, <3>1, <3>2 DEF IsLinked
  <2> QED BY <2>2, <2>3
<1>10. /\ g[t] = Idle
       /\ \A z \in DOMAIN c.mem :
            Count(g, z) \in Nat /\ Count(h, z) \in Nat /\ Count(g, z) <= Count(h, z)
  BY <1>2, ReturnCounts
<1>11. CallOK(d, g, n, t)
  BY <1>10, IdleOK
<1>12. ASSUME NEW z \in DOMAIN d.mem PROVE ItemOK(d, g, z)
  <2>1. /\ z \in DOMAIN c.mem /\ z # NULL /\ ItemOK(c, h, z) /\ Item(c, z).refcount \in Nat
        /\ Count(g, z) \in Nat /\ Count(h, z) \in Nat /\ Count(g, z) <= Count(h, z)
    BY <1>1, <1>6, <1>10, <1>12, RefcountType DEF AllOK, CallsOK
  <2>2. CASE z = x
    <3>1. ~IsSlabbed(c, x)
      BY <1>3 DEF Occupied
    <3>2. Count(g, x) <= Item(d, x).refcount
      BY <1>6, <2>1, <2>2, <3>1 DEF ItemOK
    <3>3. Item(d, x).val \in Vals
      BY <1>2, <1>6
    <3> QED BY <2>2, <3>2, <3>3 DEF ItemOK
  <2>3. CASE z = y
    <3>1. ~IsSlabbed(c, y)
      BY <1>4, <2>1, <2>3
    <3>2. Count(g, y) <= Item(d, y).refcount
      BY <1>7, <2>1, <2>3, <3>1 DEF ItemOK
    <3> QED BY <1>7, <2>1, <2>3, <3>2 DEF ItemOK
  <2>4. CASE z \notin {x, y}
    <3>1. Item(d, z) = Item(c, z)
      BY <1>6, <2>4
    <3> QED BY <2>1, <3>1, ItemFewer
  <2> QED BY <2>2, <2>3, <2>4
<1>13. ASSUME NEW u \in Threads, u # t, h[u].pc \in {"fill", "store"} PROVE h[u].it # r.it
  BY <1>13, CallAt, IdleIsCall
<1>14. AllOK(d, g, n, m)
  <2>1. g = WithEntry(h, t, r)
    OBVIOUS
  <2> QED BY <1>1, <1>5, <1>9, <1>11, <1>12, <1>13, <2>1, StepOK
<1>15. ASSUME NEW k \in Keys
       PROVE  AValue(d, k) = IF k = h[t].key THEN h[t].val ELSE AValue(c, k)
  <2>1. CASE k = h[t].key
    BY <1>2, <1>3, <1>5, <1>6, <2>1, ValueOfLinked
  <2>2. CASE k # h[t].key
    <3>1. ASSUME NEW z
          PROVE  Item(d, z).key = Item(c, z).key \/ (~IsLinked(c, z) /\ ~IsLinked(d, z))
      <4>1. CASE z = NULL
        BY <1>1, <1>6, <4>1 DEF IsLinked, Item, ZeroedItem
      <4>2. CASE z # NULL
        BY <1>6, <1>7, <4>2
      <4> QED BY <4>1, <4>2
    <3>2. ASSUME NEW z, Item(c, z).key = k
          PROVE  /\ IsLinked(d, z) <=> IsLinked(c, z)
                 /\ IsLinked(c, z) => Item(d, z).val = Item(c, z).val
      <4>1. CASE z = NULL
        BY <1>1, <1>6, <4>1 DEF IsLinked, Item, ZeroedItem
      <4>2. CASE z # NULL
        <5>1. z \notin {x, y}
          BY <1>3, <1>4, <2>2, <3>2, <4>2
        <5> QED BY <1>6, <5>1 DEF IsLinked
      <4> QED BY <4>1, <4>2
    <3>3. AValue(d, k) = AValue(c, k)
      BY <1>1, <1>5, <3>1, <3>2, SameValue
    <3> QED BY <2>2, <3>3
  <2> QED BY <2>1, <2>2
<1> QED
  BY <1>9, <1>14, <1>15

\* deleteItem unlinks the item that it found, if another has not.
LEMMA UnlinkStep ==
  ASSUME Premises, NEW c, NEW h, NEW n, NEW m, AllOK(c, h, n, m), NEW t \in Threads,
         h[t].pc = "unlink", NEW x, x = h[t].it, NEW d \in do_item_unlink(c, x),
         NEW r, r = AtPc(h[t], "release"), NEW g, g = WithEntry(h, t, r)
  PROVE  /\ AllOK(d, g, n, m)
         /\ ~IsLinked(c, x) => SameMap(c, d) /\ Undisturbed(c, d, h, t)
         /\ IsLinked(c, x) => \A k \in Keys :
              AValue(d, k) = IF k = h[t].key THEN NULL ELSE AValue(c, k)
         /\ \A u \in Threads : u # t /\ h[u].it # NULL =>
              /\ Item(d, h[u].it).val = Item(c, h[u].it).val
              /\ IsLinked(d, h[u].it) <=> IsLinked(c, h[u].it) /\ h[u].it # x
<1>1. CacheOK(c, {}) /\ NoPrefixes /\ m \in 0 .. MaxCalls /\ m \in Nat /\ IsTable(Threads, h)
  BY Bounds DEF AllOK, CallsOK
<1>2. /\ IsCall(h[t]) /\ x # NULL /\ h[t].val = NULL
      /\ h[t].since \in Nat /\ h[t].since <= n /\ n - h[t].since <= MaxHold
  BY CallAt
<1>3. /\ x \in Occupied(c) /\ Item(c, x).key = h[t].key /\ h[t].key \in Keys
      /\ ~IsSlabbed(c, x) /\ Item(c, x).refcount # 0
  BY <1>2, UsedItem
<1>4. CacheOK(d, {}) /\ OnlyFlags(c, d, x) /\ ~IsLinked(d, x) /\ ~IsSlabbed(d, x)
  BY <1>1, <1>3, DoUnlink
<1>5. /\ DOMAIN d.mem = DOMAIN c.mem
      /\ \A y : y # x => Item(d, y) = Item(c, y)
      /\ Item(d, x).key = Item(c, x).key /\ Item(d, x).val = Item(c, x).val
      /\ Item(d, x).refcount = Item(c, x).refcount
  BY <1>4 DEF OnlyFlags
<1>6. /\ IsCall(r) /\ r.pc = "release" /\ r.key = h[t].key /\ r.val = h[t].val /\ r.it = x
      /\ r.since = h[t].since
  BY <1>2, AtPcIs
<1>7. \A y : Users(g, y) = Users(h, y) /\ Count(g, y) = Count(h, y)
  BY <1>1, <1>6, CountGoto
<1>8. x \in Occupied(d)
  BY <1>3, <1>4, <1>5 DEF Occupied
<1>9. ASSUME NEW u \in Threads, u # t, h[u].it # NULL
      PROVE  /\ Kept(c, d, h[u]) /\ Item(d, h[u].it).val = Item(c, h[u].it).val
             /\ IsLinked(d, h[u].it) <=> IsLinked(c, h[u].it) /\ h[u].it # x
  <2>1. CASE h[u].it = x
    BY <1>4, <1>5, <1>8, <2>1 DEF Kept
  <2>2. CASE h[u].it # x
    <3>1. Item(d, h[u].it) = Item(c, h[u].it)
      BY <1>5, <2>2
    <3>2. Kept(c, d, h[u])
      BY <1>5, <1>9, <3>1, KeptAsItWas
    <3> QED BY <2>2, <3>1, <3>2 DEF IsLinked
  <2> QED BY <2>1, <2>2
<1>10. g[t] = r
  BY <1>1, WithEntryView
<1>11. CallOK(d, g, n, t)
  <2>1. r.pc \notin {"fill", "store"}
    BY <1>6
  <2> QED BY <1>2, <1>3, <1>4, <1>5, <1>6, <1>8, <1>10, <2>1 DEF CallOK
<1>12. ASSUME NEW y \in DOMAIN d.mem PROVE ItemOK(d, g, y)
  <2>1. ItemOK(c, h, y)
    BY <1>5, <1>12 DEF AllOK, CallsOK
  <2>2. CASE y = x
    BY <1>3, <1>4, <1>5, <1>7, <2>1, <2>2 DEF ItemOK
  <2>3. CASE y # x
    <3>1. Item(d, y) = Item(c, y)
      BY <1>5, <2>3
    <3> QED BY <1>7, <2>1, <3>1 DEF ItemOK, IsSlabbed, IsLinked
  <2> QED BY <2>2, <2>3
<1>13. ASSUME NEW u \in Threads, u # t, h[u].pc \in {"fill", "store"} PROVE h[u].it # r.it
  BY <1>6, <1>13, CallAt DEF Users, Referrers
<1>14. AllOK(d, g, n, m)
  BY <1>1, <1>4, <1>9, <1>11, <1>12, <1>13, StepOK
<1>15. \A y : Item(d, y).key = Item(c, y).key /\ Item(d, y).val = Item(c, y).val
  BY <1>5
<1>16. ASSUME ~IsLinked(c, x) PROVE SameMap(c, d) /\ Undisturbed(c, d, h, t)
  <2>1. \A y : IsLinked(d, y) <=> IsLinked(c, y)
    BY <1>4, <1>5, <1>16 DEF IsLinked
  <2>2. SameMap(c, d)
    BY <1>1, <1>4, <1>15, <2>1, MapUnchanged
  <2> QED BY <1>9, <2>1, <2>2 DEF Undisturbed
<1>17. ASSUME IsLinked(c, x), NEW k \in Keys
       PROVE  AValue(d, k) = IF k = h[t].key THEN NULL ELSE AValue(c, k)
  <2>1. CASE k = h[t].key
    <3>1. ASSUME NEW y, IsLinked(d, y), Item(d, y).key = k PROVE FALSE
      <4>1. y # x
        BY <1>4, <3>1
      <4>2. IsLinked(c, y) /\ Item(c, y).key = Item(c, x).key
        BY <1>3, <1>5, <2>1, <3>1, <4>1 DEF IsLinked
      <4> QED BY <1>1, <1>17, <4>1, <4>2, ValueOfLinked
    <3>2. AValue(d, k) = NULL
      BY <1>4, <3>1, NoValue
    <3> QED BY <2>1, <3>2
  <2>2. CASE k # h[t].key
    <3>1. ASSUME NEW y
          PROVE  Item(d, y).key = Item(c, y).key \/ (~IsLinked(c, y) /\ ~IsLinked(d, y))
      BY <1>15
    <3>2. ASSUME NEW y, Item(c, y).key = k
          PROVE  /\ IsLinked(d, y) <=> IsLinked(c, y)
                 /\ IsLinked(c, y) => Item(d, y).val = Item(c, y).val
      <4>1. y # x
        BY <1>3, <2>2, <3>2
      <4> QED BY <1>5, <4>1 DEF IsLinked
    <3>3. AValue(d, k) = AValue(c, k)
      BY <1>1, <1>4, <3>1, <3>2, SameValue
    <3> QED BY <2>2, <3>3
  <2> QED BY <2>1, <2>2
<1> QED
  BY <1>9, <1>14, <1>16, <1>17

\* deleteItem gives its reference back.
LEMMA ReleaseStep ==
  ASSUME Premises, NEW c, NEW h, NEW n, NEW m, AllOK(c, h, n, m), NEW t \in Threads,
         h[t].pc = "release", NEW x, x = h[t].it, NEW d \in do_item_release(c, x),
         NEW g, g = WithEntry(h, t, Idle)
  PROVE  AllOK(d, g, n, m) /\ SameMap(c, d) /\ Undisturbed(c, d, h, t)
<1> PICK r : r = Idle
  OBVIOUS
<1>1. CacheOK(c, {}) /\ m \in 0 .. MaxCalls /\ m \in Nat
  BY Bounds DEF AllOK, CallsOK
<1>2. x # NULL /\ ~IsLinked(c, x)
  BY CallAt
<1>3. /\ x \in Occupied(c) /\ ~IsSlabbed(c, x) /\ t \in Users(h, x) /\ x \in DOMAIN c.mem
      /\ Count(h, x) \in Nat /\ Count(h, x) <= Item(c, x).refcount
      /\ Item(c, x).refcount \in Nat /\ Item(c, x).refcount # 0
  BY <1>2, UsedItem
<1>4. /\ CacheOK(d, {}) /\ DOMAIN d.mem = DOMAIN c.mem
      /\ \A y : y # x => Item(d, y) = Item(c, y)
      /\ Item(d, x).key = Item(c, x).key /\ Item(d, x).val = Item(c, x).val
      /\ Item(d, x).refcount = Item(c, x).refcount - 1
      /\ IsLinked(d, x) <=> IsLinked(c, x)
      /\ IsSlabbed(d, x) <=> ~IsLinked(c, x) /\ Item(c, x).refcount = 1
  BY <1>1, <1>3, ReleaseItem
<1>5. /\ g[t] = Idle /\ Count(g, x) = Count(h, x) - 1
      /\ \A y \in DOMAIN c.mem :
           Count(g, y) \in Nat /\ Count(h, y) \in Nat /\ Count(g, y) <= Count(h, y)
  BY <1>2, ReturnCounts
<1>6. ASSUME NEW u \in Threads, u # t, h[u].it # NULL PROVE Kept(c, d, h[u])
  <2>1. CASE h[u].it = x
    <3>1. u \in Users(g, x)
      <4>1. g[u] = h[u]
        BY <1>6, Bounds, WithEntryView
      <4> QED BY <2>1, <4>1 DEF Users, Referrers
    <3>2. Count(g, x) # 0
      BY <3>1, Bounds, RefsType DEF Users, Count
    <3>3. Item(c, x).refcount # 1
      BY <1>3, <1>5, <3>2
    <3>4. x \in Occupied(d)
      BY <1>3, <1>4, <3>3 DEF Occupied
    <3> QED BY <1>2, <1>4, <2>1, <3>4 DEF Kept
  <2>2. CASE h[u].it # x
    BY <1>4, <1>6, <2>2, KeptAsItWas
  <2> QED BY <2>1, <2>2
<1>7. CallOK(d, g, n, t)
  BY <1>5, IdleOK
<1>8. ASSUME NEW y \in DOMAIN d.mem PROVE ItemOK(d, g, y)
  <2>1. /\ ItemOK(c, h, y) /\ Item(c, y).refcount \in Nat
        /\ Count(g, y) \in Nat /\ Count(h, y) \in Nat /\ Count(g, y) <= Count(h, y)
    BY <1>1, <1>4, <1>5, <1>8, RefcountType DEF AllOK, CallsOK
  <2>2. CASE y = x
    <3>1. Count(g, x) <= Item(d, x).refcount
      BY <1>3, <1>4, <1>5
    <3> QED BY <1>2, <1>4, <2>2, <3>1 DEF ItemOK
  <2>3. CASE y # x
    <3>1. Item(d, y) = Item(c, y)
      BY <1>4, <2>3
    <3> QED BY <2>1, <3>1, ItemFewer
  <2> QED BY <2>2, <2>3
<1>9. ASSUME NEW u \in Threads, u # t, h[u].pc \in {"fill", "store"} PROVE h[u].it # r.it
  BY <1>9, CallAt, IdleIsCall
<1>10. AllOK(d, g, n, m)
  <2>1. g = WithEntry(h, t, r)
    OBVIOUS
  <2> QED BY <1>1, <1>4, <1>6, <1>7, <1>8, <1>9, <2>1, StepOK
<1>11. \A y : /\ IsLinked(d, y) <=> IsLinked(c, y)
              /\ Item(d, y).key = Item(c, y).key /\ Item(d, y).val = Item(c, y).val
  BY <1>4 DEF IsLinked
<1>12. SameMap(c, d)
  BY <1>1, <1>4, <1>11, MapUnchanged
<1> QED
  BY <1>10, <1>11, <1>12 DEF Undisturbed

\* A turn of the maintenance thread.
LEMMA MaintainStep ==
  ASSUME Premises, NEW c, NEW h, NEW n, NEW m, AllOK(c, h, n, m), c.assoc.expanding,
         NEW d, d = WithAssoc(c, Table!MigrateBucket(c.assoc))
  PROVE  AllOK(d, h, n, m) /\ SameMap(c, d) /\ \A y : Item(d, y) = Item(c, y)
<1>1. CacheOK(c, {}) /\ NoPrefixes /\ m \in 0 .. MaxCalls
  BY Bounds DEF AllOK, CallsOK
<1>2. CacheOK(d, {}) /\ d.mem = c.mem /\ \A y : Item(d, y) = Item(c, y)
  BY <1>1, MigrationStep
<1>3. AllOK(d, h, n, m)
  BY <1>1, <1>2, SameItems
<1>4. \A y : IsLinked(d, y) <=> IsLinked(c, y)
  BY <1>2 DEF IsLinked
<1>5. SameMap(c, d)
  BY <1>1, <1>2, <1>4, MapUnchanged
<1> QED
  BY <1>2, <1>3, <1>5

\* A second goes by.
LEMMA TickStep ==
  ASSUME Premises, NEW c, NEW h, NEW n, NEW m, AllOK(c, h, n, m), n < MaxTime, NEW i, i = n + 1,
         \A t \in Threads : h[t] # Idle => i - h[t].since <= MaxHold
  PROVE  AllOK(c, h, i, m)
<1>1. i \in StartTime .. MaxTime /\ n \in Nat /\ i \in Nat /\ n <= i
  BY DataCacheAssumption DEF AllOK, CallsOK
<1>2. ASSUME NEW t \in Threads PROVE CallOK(c, h, i, t)
  <2>1. CallOK(c, h, n, t)
    BY DEF AllOK, CallsOK
  <2>2. ASSUME h[t].it # NULL PROVE h[t].since <= i /\ i - h[t].since <= MaxHold
    <3>1. h[t].since <= n /\ h[t].since \in Nat /\ h[t] # Idle
      BY <2>2, CallAt, IdleIsCall
    <3> QED BY <1>1, <3>1
  <2> QED BY <2>1, <2>2 DEF CallOK
<1> QED
  BY <1>1, <1>2 DEF AllOK, CallsOK

-----------------------------------------------------------------------------

\* At the start nothing is cached and no call in progress.
LEMMA AtInit == ASSUME Premises, Init PROVE Inv
<1> PICK c : c = InitCache(0, 0)
  OBVIOUS
<1>1. CacheOK(c, {}) /\ DOMAIN c.mem = {}
  BY CacheAtInit DEF Premises
<1>2. cache = c /\ now = StartTime /\ calls = [t \in Threads |-> Idle] /\ ncalls = 0
  BY DEF Init
<1>3. IsTable(Threads, calls) /\ \A t \in Threads : calls[t] = Idle
  BY <1>2 DEF IsTable
<1>4. \A t \in Threads : CallOK(c, calls, now, t)
  BY <1>3, IdleOK
<1>5. now \in StartTime .. MaxTime /\ ncalls \in 0 .. MaxCalls
  BY <1>2, DataCacheAssumption
<1> QED
  BY <1>1, <1>2, <1>3, <1>4, <1>5 DEF Inv, AllOK, CallsOK

\* The step of every action in the terms of its lemma.
LEMMA GetAction ==
  ASSUME NEW t \in Threads, NEW k \in Keys, NEW pc \in {"copy", "unlink"},
         \/ pc = "copy" /\ getItem(t, k)
         \/ pc = "unlink" /\ deleteItem(t, k),
         NEW o, o = do_item_get(cache, k, now)
  PROVE  /\ calls[t] = Idle /\ ncalls < MaxCalls /\ ncalls' = ncalls + 1 /\ now' = now
         /\ cache' = o.c
         /\ o.it = NULL => calls' = calls
         /\ o.it # NULL => calls' = WithEntry(calls, t, Entered(pc, k, NULL, o.it, now))
         /\ ret' = IF pc = "copy" /\ o.it = NULL THEN [ret EXCEPT ![t] = NULL] ELSE ret
<1>1. CASE pc = "copy" /\ getItem(t, k)
  BY <1>1 DEF getItem, Enter, Enters, WithEntry, Entered
<1>2. CASE pc = "unlink" /\ deleteItem(t, k)
  BY <1>2 DEF deleteItem, Enter, Enters, WithEntry, Entered
<1> QED
  BY <1>1, <1>2

LEMMA StoreAction ==
  ASSUME NEW t \in Threads, NEW k \in Keys, NEW v \in Vals, NEW bytes \in ItemBytes,
         storeItem(t, k, v, bytes)
  PROVE  \E o \in do_item_alloc(cache, k, bytes, now) :
           /\ calls[t] = Idle /\ ncalls < MaxCalls /\ ncalls' = ncalls + 1
           /\ now' = now /\ ret' = ret /\ cache' = o.c
           /\ o.it = NULL => calls' = calls
           /\ o.it # NULL => calls' = WithEntry(calls, t, Entered("fill", k, v, o.it, now))
BY DEF storeItem, Enter, Enters, WithEntry, Entered

LEMMA LaterActions ==
  ASSUME NEW t \in Threads
  PROVE  /\ getItem_copy(t) =>
              /\ calls[t].pc = "copy" /\ cache' = cache /\ now' = now /\ ncalls' = ncalls
              /\ ret' = [ret EXCEPT ![t] = Item(cache, calls[t].it).val]
              /\ calls' = WithEntry(calls, t, Idle)
         /\ storeItem_fill(t) =>
              /\ calls[t].pc = "fill" /\ now' = now /\ ncalls' = ncalls /\ ret' = ret
              /\ cache' = WithItem(cache, calls[t].it, Valued(Item(cache, calls[t].it), calls[t].val))
              /\ calls' = WithEntry(calls, t, AtPc(calls[t], "store"))
         /\ storeItem_store(t) =>
              /\ calls[t].pc = "store" /\ now' = now /\ ncalls' = ncalls /\ ret' = ret
              /\ cache' \in do_store_item(cache, calls[t].it, now)
              /\ calls' = WithEntry(calls, t, Idle)
         /\ deleteItem_unlink(t) =>
              /\ calls[t].pc = "unlink" /\ now' = now /\ ncalls' = ncalls /\ ret' = ret
              /\ cache' \in do_item_unlink(cache, calls[t].it)
              /\ calls' = WithEntry(calls, t, AtPc(calls[t], "release"))
         /\ deleteItem_release(t) =>
              /\ calls[t].pc = "release" /\ now' = now /\ ncalls' = ncalls /\ ret' = ret
              /\ cache' \in do_item_release(cache, calls[t].it)
              /\ calls' = WithEntry(calls, t, Idle)
BY DEF getItem_copy, storeItem_fill, storeItem_store, deleteItem_unlink, deleteItem_release,
       Return, Goto, WithEntry, AtPc, Valued

LEMMA MaintainAction ==
  ASSUME Maintain
  PROVE  /\ cache.assoc.expanding /\ cache' = WithAssoc(cache, Table!MigrateBucket(cache.assoc))
         /\ calls' = calls /\ now' = now /\ ncalls' = ncalls /\ ret' = ret
BY DEF Maintain, WithAssoc

\* Every step from a state in which no count is at its maximum keeps the
\* invariant.
LEMMA AtNext == ASSUME Premises, Inv, NoCountAtMax, [Next]_vars PROVE Inv'
<1> PICK c : c = cache
  OBVIOUS
<1> PICK h : h = calls
  OBVIOUS
<1> PICK n : n = now
  OBVIOUS
<1> PICK m : m = ncalls
  OBVIOUS
<1> PICK d : d = cache'
  OBVIOUS
<1> PICK g : g = calls'
  OBVIOUS
<1>0. CountsBelow(c)
  BY DEF NoCountAtMax
<1>1. AllOK(c, h, n, m)
  BY DEF Inv
<1>2. /\ m \in Nat /\ MaxCalls \in Nat /\ n \in Nat /\ MaxHold \in Nat
  BY <1>1, Bounds
<1>3. ASSUME NEW t \in Threads, NEW k \in Keys, NEW pc \in {"copy", "unlink"},
             \/ pc = "copy" /\ getItem(t, k)
             \/ pc = "unlink" /\ deleteItem(t, k)
      PROVE  Inv'
  <2> PICK o : o = do_item_get(c, k, n)
    OBVIOUS
  <2> PICK r : r = Entered(pc, k, NULL, o.it, n)
    OBVIOUS
  <2> PICK m2 : m2 = m + 1
    OBVIOUS
  <2>1. /\ h[t] = Idle /\ m < MaxCalls /\ ncalls' = m2 /\ now' = n /\ d = o.c
        /\ o.it = NULL => g = h
        /\ o.it # NULL => g = WithEntry(h, t, r)
    BY <1>3, GetAction
  <2>2. m2 <= MaxCalls
    BY <1>2, <2>1
  <2>3. CASE o.it = NULL
    <3>1. AllOK(c, h, n, m2)
      BY <1>1, <2>2, CountedStep
    <3>2. o.c = c
      BY <1>1, <2>3, MissStep DEF AllOK
    <3> QED BY <2>1, <2>3, <3>1, <3>2 DEF Inv
  <2>4. CASE o.it # NULL
    <3>1. g = WithEntry(h, t, r)
      BY <2>1, <2>4
    <3>2. AllOK(o.c, g, n, m2)
      BY <1>0, <1>1, <2>1, <2>2, <2>4, <3>1, GetStep
    <3> QED BY <2>1, <3>2 DEF Inv
  <2> QED BY <2>3, <2>4
<1>4. ASSUME NEW t \in Threads, NEW k \in Keys, NEW v \in Vals, NEW bytes \in ItemBytes,
             storeItem(t, k, v, bytes)
      PROVE  Inv'
  <2>1. PICK o \in do_item_alloc(c, k, bytes, n) :
          /\ h[t] = Idle /\ m < MaxCalls /\ ncalls' = m + 1 /\ now' = n /\ d = o.c
          /\ o.it = NULL => g = h
          /\ o.it # NULL => g = WithEntry(h, t, Entered("fill", k, v, o.it, n))
    BY <1>4, StoreAction
  <2> PICK r : r = Entered("fill", k, v, o.it, n)
    OBVIOUS
  <2> PICK f : f = WithEntry(h, t, r)
    OBVIOUS
  <2> PICK m2 : m2 = m + 1
    OBVIOUS
  <2>2. m2 <= MaxCalls /\ bytes \in Nat
    BY <1>2, <2>1, DataCacheAssumption
  <2>3. /\ o.it = NULL => AllOK(o.c, h, n, m2)
        /\ o.it # NULL => AllOK(o.c, f, n, m2)
    BY <1>1, <2>1, <2>2, AllocStep
  <2> QED BY <2>1, <2>3 DEF Inv
<1>5. ASSUME NEW t \in Threads, getItem_copy(t) PROVE Inv'
  <2>1. h[t].pc = "copy" /\ d = c /\ now' = n /\ ncalls' = m /\ g = WithEntry(h, t, Idle)
    BY <1>5, LaterActions
  <2>2. AllOK(c, g, n, m)
    BY <1>1, <2>1, CopyStep
  <2> QED BY <2>1, <2>2 DEF Inv
<1>6. ASSUME NEW t \in Threads, storeItem_fill(t) PROVE Inv'
  <2> PICK x : x = h[t].it
    OBVIOUS
  <2>1. /\ h[t].pc = "fill" /\ now' = n /\ ncalls' = m
        /\ d = WithItem(c, x, Valued(Item(c, x), h[t].val))
        /\ g = WithEntry(h, t, AtPc(h[t], "store"))
    BY <1>6, LaterActions
  <2>2. AllOK(d, g, n, m)
    BY <1>1, <2>1, FillStep
  <2> QED BY <2>1, <2>2 DEF Inv
<1>7. ASSUME NEW t \in Threads, storeItem_store(t) PROVE Inv'
  <2>1. /\ h[t].pc = "store" /\ now' = n /\ ncalls' = m
        /\ d \in do_store_item(c, h[t].it, n) /\ g = WithEntry(h, t, Idle)
    BY <1>7, LaterActions
  <2>2. AllOK(d, g, n, m)
    BY <1>0, <1>1, <2>1, StoreStep
  <2> QED BY <2>1, <2>2 DEF Inv
<1>8. ASSUME NEW t \in Threads, deleteItem_unlink(t) PROVE Inv'
  <2>1. /\ h[t].pc = "unlink" /\ now' = n /\ ncalls' = m
        /\ d \in do_item_unlink(c, h[t].it) /\ g = WithEntry(h, t, AtPc(h[t], "release"))
    BY <1>8, LaterActions
  <2>2. AllOK(d, g, n, m)
    BY <1>1, <2>1, UnlinkStep
  <2> QED BY <2>1, <2>2 DEF Inv
<1>9. ASSUME NEW t \in Threads, deleteItem_release(t) PROVE Inv'
  <2>1. /\ h[t].pc = "release" /\ now' = n /\ ncalls' = m
        /\ d \in do_item_release(c, h[t].it) /\ g = WithEntry(h, t, Idle)
    BY <1>9, LaterActions
  <2>2. AllOK(d, g, n, m)
    BY <1>1, <2>1, ReleaseStep
  <2> QED BY <2>1, <2>2 DEF Inv
<1>10. CASE Maintain
  <2>1. /\ c.assoc.expanding /\ d = WithAssoc(c, Table!MigrateBucket(c.assoc))
        /\ g = h /\ now' = n /\ ncalls' = m
    BY <1>10, MaintainAction
  <2>2. AllOK(d, h, n, m)
    BY <1>1, <2>1, MaintainStep
  <2> QED BY <2>1, <2>2 DEF Inv
<1>11. CASE Tick
  <2> PICK i : i = n + 1
    OBVIOUS
  <2>1. n < MaxTime /\ now' = i /\ d = c /\ g = h /\ ncalls' = m
    BY <1>11 DEF Tick
  <2>2. ASSUME NEW t \in Threads, h[t] # Idle PROVE i - h[t].since <= MaxHold
    <3>1. now + 1 - calls[t].since <= MaxHold
      BY <1>11, <2>2 DEF Tick
    <3>2. now + 1 = i /\ calls[t] = h[t]
      OBVIOUS
    <3>3. now \in Nat /\ h[t].since \in Nat
      <4>1. IsCall(h[t])
        BY <1>1, CallAt
      <4> QED BY <1>2, <4>1 DEF IsCall
    <3> QED BY <1>2, <3>1, <3>2, <3>3
  <2>3. AllOK(c, h, i, m)
    BY <1>1, <2>1, <2>2, TickStep
  <2> QED BY <2>1, <2>3 DEF Inv
<1>12. CASE UNCHANGED vars
  BY <1>1, <1>12 DEF vars, Inv
<1>13. CASE Next
  BY <1>3, <1>4, <1>5, <1>6, <1>7, <1>8, <1>9, <1>10, <1>11, <1>13 DEF Next
<1> QED
  BY <1>12, <1>13

LEMMA InvHolds == ASSUME Premises PROVE Spec /\ []NoCountAtMax => []Inv
<1>1. Init => Inv
  BY AtInit
<1>2. Inv /\ NoCountAtMax /\ [Next]_vars => Inv'
  BY AtNext
<1> QED
  BY <1>1, <1>2, PTL DEF Spec

(***************************************************************************)
(* While no refcount reaches its maximum, no assert of lru.cpp or assoc.cpp*)
(* fails as calls of DataCache overlap, and every value keeps its type:    *)
(* AssertsHold, for any threads, keys, values, sizes and times, and any    *)
(* number of calls.                                                        *)
(***************************************************************************)
THEOREM DataCacheAssertsHold ==
  ASSUME Premises PROVE Spec /\ []NoCountAtMax => []AssertsHold
<1>1. ASSUME Inv PROVE AssertsHold
  <2>1. /\ CacheOK(cache, {}) /\ ncalls \in 0 .. MaxCalls
        /\ \A t \in Threads : CallOK(cache, calls, now, t)
    BY <1>1 DEF Inv, AllOK, CallsOK
  <2>2. ASSUME NEW t \in Threads
        PROVE  /\ calls[t].pc \in {"idle", "copy", "fill", "store", "unlink", "release"}
               /\ calls[t].it # NULL => calls[t].it \in DOMAIN cache.mem
    BY <2>1 DEF CallOK, IsCall, Occupied
  <2>3. ASSUME NEW x \in DOMAIN cache.mem
        PROVE  /\ cache.mem[x].key \in Keys
               /\ cache.mem[x].refcount \in 0 .. RefMod - 1
               /\ cache.mem[x].iflag \subseteq {LINKED, SLABBED}
    <3>1. cache.mem[x] = Item(cache, x)
      BY DEF Item
    <3> QED BY <2>1, <3>1 DEF CacheOK, HeadersOK, IsItem
  <2>4. InUse \subseteq DOMAIN cache.mem
    BY <2>2 DEF InUse
  <2>5. TypeOK
    BY <2>1, <2>2, <2>3, <2>4 DEF TypeOK
  <2> QED BY <2>1, <2>5 DEF AssertsHold, CacheOK
<1> QED
  BY <1>1, InvHolds, PTL

(***************************************************************************)
(* While no refcount reaches its maximum, no chunk that a call copies from *)
(* or to, unlinks or releases is on a free list, and a new chunk is one    *)
(* call's alone: UsedItemsAreNotFree, although the calls work on their     *)
(* items outside the lock.                                                 *)
(***************************************************************************)
THEOREM UsedItemsNeverFree ==
  ASSUME Premises PROVE Spec /\ []NoCountAtMax => []UsedItemsAreNotFree
<1>1. ASSUME Inv PROVE UsedItemsAreNotFree
  <2>1. AllOK(cache, calls, now, ncalls) /\ CacheOK(cache, {})
    BY <1>1 DEF Inv, AllOK
  <2>2. FreeItems(cache) = FreeChunks(cache.slabs)
    BY <2>1, FreeItemsAre
  <2>3. FreeChunks(cache.slabs) \subseteq Slabbed(cache)
    BY <2>1 DEF CacheOK, MemoryOK
  <2>4. ASSUME NEW x \in InUse PROVE x \notin Slabbed(cache)
    <3>1. PICK t \in Threads : x = calls[t].it /\ x # NULL
      BY DEF InUse
    <3> QED BY <2>1, <3>1, UsedItem DEF Slabbed
  <2>5. ASSUME NEW t \in Threads, NEW u \in Threads, t # u, calls[t].pc \in {"fill", "store"}
        PROVE  calls[u].it # calls[t].it
    <3>1. Users(calls, calls[t].it) = {t}
      BY <2>1, <2>5, CallAt
    <3> QED BY <2>5, <3>1 DEF Users, Referrers
  <2> QED BY <2>2, <2>3, <2>4, <2>5 DEF UsedItemsAreNotFree
<1> QED
  BY <1>1, InvHolds, PTL

(***************************************************************************)
(* While no refcount reaches its maximum, the item of a call in progress   *)
(* has a refcount: UsedItemsAreLocked, so that no other call's store,      *)
(* delete or search for memory frees it.                                   *)
(***************************************************************************)
THEOREM UsedItemsStayLocked ==
  ASSUME Premises PROVE Spec /\ []NoCountAtMax => []UsedItemsAreLocked
<1>1. ASSUME Inv PROVE UsedItemsAreLocked
  <2>1. AllOK(cache, calls, now, ncalls)
    BY <1>1 DEF Inv
  <2>2. ASSUME NEW x \in InUse PROVE Item(cache, x).refcount > 0
    <3>1. PICK t \in Threads : x = calls[t].it /\ x # NULL
      BY DEF InUse
    <3>2. Item(cache, x).refcount \in Nat /\ Item(cache, x).refcount # 0
      BY <2>1, <3>1, UsedItem
    <3> QED BY <3>2
  <2> QED BY <2>2 DEF UsedItemsAreLocked
<1> QED
  BY <1>1, InvHolds, PTL

-----------------------------------------------------------------------------
(***************************************************************************)
(* The calls as the abstract map sees them.                                *)
(***************************************************************************)

ACall(c, r) ==
  LET op == CASE r.pc = "idle" -> "idle"
              [] r.pc = "copy" -> "get"
              [] r.pc \in {"fill", "store"} -> "store"
              [] r.pc = "unlink" -> IF IsLinked(c, r.it) THEN "delete" ELSE "deleted"
              [] r.pc = "release" -> "deleted"
  IN  [op |-> op, key |-> r.key, val |-> IF r.pc = "copy" THEN Item(c, r.it).val ELSE r.val]

AMap(c) == [k \in Keys |-> AValue(c, k)]
ACalls(c, h) == [t \in Threads |-> ACall(c, h[t])]

ACallOf(op, k, v) == [op |-> op, key |-> k, val |-> v]
ServedCall(a) == [a EXCEPT !.op = "deleted"]

LEMMA CallIs ==
  ASSUME NEW c, NEW r, IsCall(r)
  PROVE  /\ r = Idle => ACall(c, r) = ACallOf("idle", NULL, NULL)
         /\ r.pc = "copy" => ACall(c, r) = ACallOf("get", r.key, Item(c, r.it).val)
         /\ r.pc \in {"fill", "store"} => ACall(c, r) = ACallOf("store", r.key, r.val)
         /\ r.pc = "unlink" /\ IsLinked(c, r.it) => ACall(c, r) = ACallOf("delete", r.key, r.val)
         /\ r.pc = "unlink" /\ ~IsLinked(c, r.it) => ACall(c, r) = ACallOf("deleted", r.key, r.val)
         /\ r.pc = "release" => ACall(c, r) = ACallOf("deleted", r.key, r.val)
<1>1. r = Idle => r.pc = "idle" /\ r.key = NULL /\ r.val = NULL
  BY DEF Idle
<1> QED
  BY <1>1 DEF ACall, ACallOf

\* Calls that a step leaves where they are, when it unlinks at most y: those
\* that wait to delete y are served, the others see nothing.
ServedBy(c, h, t, y) ==
  {u \in Threads : u # t /\ h[u].pc = "unlink" /\ IsLinked(c, h[u].it) /\ h[u].it = y}

LEMMA ServedDeletes ==
  ASSUME Premises, NEW c, NEW h, NEW n, NEW m, AllOK(c, h, n, m), NEW t \in Threads, NEW y,
         NEW u \in ServedBy(c, h, t, y)
  PROVE  /\ u \in Threads /\ u # t /\ IsCall(h[u]) /\ h[u].pc = "unlink"
         /\ IsLinked(c, h[u].it) /\ h[u].it = y /\ h[u].it # NULL /\ h[u].key = Item(c, y).key
         /\ ACall(c, h[u]) = ACallOf("delete", h[u].key, h[u].val)
<1>1. u \in Threads /\ u # t /\ h[u].pc = "unlink" /\ IsLinked(c, h[u].it) /\ h[u].it = y
  BY DEF ServedBy
<1>2. IsCall(h[u]) /\ h[u].it # NULL
  BY <1>1, CallAt
<1>3. h[u].key = Item(c, y).key
  BY <1>1, <1>2, UsedItem
<1> QED
  BY <1>1, <1>2, <1>3, CallIs

\* The call of u after a step of t that leaves t at r and serves the calls S.
After(c, h, d, t, r, S, u) ==
  IF u = t THEN ACall(d, r)
  ELSE IF u \in S THEN ServedCall(ACall(c, h[u])) ELSE ACall(c, h[u])

LEMMA OtherCalls ==
  ASSUME Premises, NEW c, NEW h, NEW n, NEW m, AllOK(c, h, n, m), NEW t \in Threads,
         NEW d, NEW y,
         \A u \in Threads : u # t /\ h[u].it # NULL =>
           /\ Item(d, h[u].it).val = Item(c, h[u].it).val
           /\ IsLinked(d, h[u].it) <=> IsLinked(c, h[u].it) /\ h[u].it # y,
         NEW r, NEW g, g = WithEntry(h, t, r), NEW S, S = ServedBy(c, h, t, y)
  PROVE  ACalls(d, g) = [u \in Threads |-> After(c, h, d, t, r, S, u)]
<1>1. g[t] = r /\ \A u \in Threads : u # t => g[u] = h[u]
  BY Bounds, WithEntryView
<1>2. ASSUME NEW u \in S
      PROVE  u \in Threads /\ u # t /\ ACall(d, h[u]) = ServedCall(ACall(c, h[u]))
  <2>1. /\ u \in Threads /\ u # t /\ IsCall(h[u]) /\ h[u].pc = "unlink"
        /\ IsLinked(c, h[u].it) /\ h[u].it = y /\ h[u].it # NULL
        /\ ACall(c, h[u]) = ACallOf("delete", h[u].key, h[u].val)
    BY <1>2, ServedDeletes
  <2>2. ACall(d, h[u]) = ACallOf("deleted", h[u].key, h[u].val)
    BY <2>1, CallIs
  <2> QED BY <2>1, <2>2 DEF ACallOf, ServedCall
<1>3. ASSUME NEW u \in Threads, u # t, u \notin S PROVE ACall(d, h[u]) = ACall(c, h[u])
  <2>1. IsCall(h[u]) /\ (h[u].pc # "idle" => h[u].it # NULL)
    BY CallAt
  <2>2. CASE h[u].it = NULL
    <3>1. h[u] = Idle
      BY <2>1, <2>2 DEF IsCall
    <3> QED BY <2>1, <3>1, CallIs
  <2>3. CASE h[u].it # NULL
    <3>1. Item(d, h[u].it).val = Item(c, h[u].it).val
      BY <1>3, <2>3
    <3>2. h[u].pc = "unlink" => (IsLinked(d, h[u].it) <=> IsLinked(c, h[u].it))
      BY <1>3, <2>3 DEF ServedBy
    <3>3. h[u].pc \in {"idle", "copy", "fill", "store", "unlink", "release"}
      BY <2>1 DEF IsCall
    <3>4. h[u].pc = "idle" => h[u] = Idle
      BY <2>1 DEF IsCall
    <3> QED BY <2>1, <3>1, <3>2, <3>3, <3>4, CallIs
  <2> QED BY <2>2, <2>3
<1>4. ASSUME NEW u \in Threads
      PROVE  ACall(d, g[u]) = After(c, h, d, t, r, S, u)
  <2>1. CASE u = t
    BY <1>1, <2>1 DEF After
  <2>2. CASE u # t /\ u \in S
    BY <1>1, <1>2, <2>2 DEF After
  <2>3. CASE u # t /\ u \notin S
    BY <1>1, <1>3, <2>3 DEF After
  <2> QED BY <2>1, <2>2, <2>3
<1> QED
  BY <1>4 DEF ACalls

\* A step under which the other calls see nothing.
LEMMA OthersSeeNothing ==
  ASSUME Premises, NEW c, NEW h, NEW n, NEW m, AllOK(c, h, n, m), NEW t \in Threads,
         NEW d, Undisturbed(c, d, h, t), NEW r, NEW g, g = WithEntry(h, t, r)
  PROVE  ACalls(d, g) = [ACalls(c, h) EXCEPT ![t] = ACall(d, r)]
<1> PICK S : S = ServedBy(c, h, t, NULL)
  OBVIOUS
<1>1. S = {}
  <2>1. ASSUME NEW u \in S PROVE FALSE
    BY <2>1, CallAt DEF ServedBy
  <2> QED BY <2>1
<1>2. ASSUME NEW u \in Threads, u # t, h[u].it # NULL
      PROVE  /\ Item(d, h[u].it).val = Item(c, h[u].it).val
             /\ IsLinked(d, h[u].it) <=> IsLinked(c, h[u].it) /\ h[u].it # NULL
  BY <1>2 DEF Undisturbed
<1>3. ACalls(d, g) = [u \in Threads |-> After(c, h, d, t, r, S, u)]
  BY <1>2, OtherCalls
<1>4. \A u \in Threads : After(c, h, d, t, r, S, u) = IF u = t THEN ACall(d, r) ELSE ACall(c, h[u])
  BY <1>1 DEF After
<1> QED
  BY <1>3, <1>4 DEF ACalls

LEMMA Mapped ==
  /\ [k \in Keys |-> ValueOf(k)] = AMap(cache)
  /\ [t \in Threads |-> AbstractCall(calls[t])] = ACalls(cache, calls)
  /\ ([k \in Keys |-> ValueOf(k)])' = AMap(cache')
  /\ ([t \in Threads |-> AbstractCall(calls[t])])' = ACalls(cache', calls')
<1>1. \A k \in Keys : ValueOf(k) = AValue(cache, k) /\ ValueOf(k)' = AValue(cache', k)
  BY DEF ValueOf, AValue, Found
<1>2. \A t \in Threads :
        /\ AbstractCall(calls[t]) = ACall(cache, calls[t])
        /\ AbstractCall(calls[t])' = ACall(cache', calls'[t])
  BY DEF AbstractCall, ACall
<1> QED
  BY <1>1, <1>2 DEF AMap, ACalls

-----------------------------------------------------------------------------
(***************************************************************************)
(* The abstract actions, in terms of the map A and the calls H before a    *)
(* step and of A2 and H2 after it.                                         *)
(***************************************************************************)

Views(A, H) ==
  /\ A = [k \in Keys |-> ValueOf(k)]
  /\ H = [t \in Threads |-> AbstractCall(calls[t])]

\* A step of t to the call a that serves the deletes S of the key k.
Serves(H, H2, t, k, a, S) ==
  /\ \A u \in S : u \in Threads /\ u # t /\ H[u].op = "delete" /\ H[u].key = k
  /\ \A u \in Threads : H2[u] = IF u = t THEN a
                                 ELSE IF u \in S THEN ServedCall(H[u]) ELSE H[u]

LEMMA ToGet ==
  ASSUME NEW t \in Threads, NEW k \in Keys, NEW A, NEW H, NEW A2, NEW H2,
         Views(A, H), Views(A2, H2)', H[t] = ACallOf("idle", NULL, NULL), A2 = A,
         A[k] = NULL => ret' = [ret EXCEPT ![t] = NULL] /\ H2 = H,
         A[k] # NULL => ret' = ret /\ H2 = [H EXCEPT ![t] = ACallOf("get", k, A[k])]
  PROVE  Abstract!Get(t, k)
BY DEF Views, ACallOf, Abstract!Get, Abstract!Idle, Abstract!Call

LEMMA ToGetReturn ==
  ASSUME NEW t \in Threads, NEW k, NEW v, NEW A, NEW H, NEW A2, NEW H2,
         Views(A, H), Views(A2, H2)', H[t] = ACallOf("get", k, v), A2 = A,
         ret' = [ret EXCEPT ![t] = v], H2 = [H EXCEPT ![t] = ACallOf("idle", NULL, NULL)]
  PROVE  Abstract!GetReturn(t)
<1>1. H[t].op = "get" /\ H[t].val = v
  BY DEF ACallOf
<1> QED
  BY <1>1 DEF Views, ACallOf, Abstract!GetReturn, Abstract!Idle

LEMMA ToDelete ==
  ASSUME NEW t \in Threads, NEW k \in Keys, NEW A, NEW H, NEW A2, NEW H2,
         Views(A, H), Views(A2, H2)', H[t] = ACallOf("idle", NULL, NULL), A2 = A,
         A[k] # NULL, ret' = ret, H2 = [H EXCEPT ![t] = ACallOf("delete", k, NULL)]
  PROVE  Abstract!Delete(t, k)
BY DEF Views, ACallOf, Abstract!Delete, Abstract!Idle, Abstract!Call

LEMMA ToDeleteReturn ==
  ASSUME NEW t \in Threads, NEW k, NEW v, NEW A, NEW H, NEW A2, NEW H2,
         Views(A, H), Views(A2, H2)', H[t] = ACallOf("deleted", k, v), A2 = A,
         ret' = ret, H2 = [H EXCEPT ![t] = ACallOf("idle", NULL, NULL)]
  PROVE  Abstract!DeleteReturn(t)
BY DEF Views, ACallOf, Abstract!DeleteReturn, Abstract!Idle

\* No delete is served by a search for memory.
LEMMA ToStore ==
  ASSUME NEW t \in Threads, NEW k \in Keys, NEW v \in Vals, NEW A, NEW H, NEW A2, NEW H2,
         Views(A, H), Views(A2, H2)', H[t] = ACallOf("idle", NULL, NULL),
         NEW K \in SUBSET Keys, A2 = [x \in Keys |-> IF x \in K THEN NULL ELSE A[x]],
         ret' = ret, H2 = H \/ H2 = [H EXCEPT ![t] = ACallOf("store", k, v)]
  PROVE  Abstract!Store(t, k, v)
<1>1. H \in [Threads -> {H[u] : u \in Threads}]
  BY DEF Views
<1>2. /\ Abstract!Serve(H, {}) = H
      /\ \A a : Abstract!Serve([H EXCEPT ![t] = a], {}) = [H EXCEPT ![t] = a]
  BY <1>1 DEF Abstract!Serve
<1>3. /\ {} \in SUBSET Abstract!Waiting(Keys) /\ {} \subseteq Abstract!Waiting(K)
      /\ H[t] = Abstract!Idle
      /\ \/ H2 = Abstract!Serve([H EXCEPT ![t] = Abstract!Call("store", k, v)], {})
         \/ H2 = Abstract!Serve(H, {})
  BY <1>2 DEF ACallOf, Abstract!Idle, Abstract!Call
<1>4. \E S \in SUBSET Abstract!Waiting(Keys) :
        /\ S \subseteq Abstract!Waiting(K)
        /\ \/ H2 = Abstract!Serve([H EXCEPT ![t] = Abstract!Call("store", k, v)], S)
           \/ H2 = Abstract!Serve(H, S)
  BY <1>3
<1>5. /\ [x \in Keys |-> ValueOf(x)] = A /\ [x \in Keys |-> ValueOf(x)]' = A2
      /\ [u \in Threads |-> AbstractCall(calls[u])] = H
      /\ [u \in Threads |-> AbstractCall(calls[u])]' = H2
  BY DEF Views
<1>6. PICK S \in SUBSET Abstract!Waiting(Keys) :
        /\ S \subseteq Abstract!Waiting(K)
        /\ \/ H2 = Abstract!Serve([H EXCEPT ![t] = Abstract!Call("store", k, v)], S)
           \/ H2 = Abstract!Serve(H, S)
  BY <1>4
<1>7. /\ [u \in Threads |-> AbstractCall(calls[u])][t] = Abstract!Idle
      /\ [x \in Keys |-> ValueOf(x)]' =
           [x \in Keys |-> IF x \in K THEN NULL ELSE [y \in Keys |-> ValueOf(y)][x]]
      /\ \/ [u \in Threads |-> AbstractCall(calls[u])]' = Abstract!Serve(
               [[u \in Threads |-> AbstractCall(calls[u])]
                  EXCEPT ![t] = Abstract!Call("store", k, v)], S)
         \/ [u \in Threads |-> AbstractCall(calls[u])]' =
               Abstract!Serve([u \in Threads |-> AbstractCall(calls[u])], S)
  <2>1. H[t] = Abstract!Idle
    BY <1>3
  <2> QED BY ONLY <2>1, <1>5, <1>6, A2 = [x \in Keys |-> IF x \in K THEN NULL ELSE A[x]]
<1> QED
  BY ONLY <1>6, <1>7, K \in SUBSET Keys, ret' = ret DEF Abstract!Store

LEMMA ToStoreTakesEffect ==
  ASSUME NEW t \in Threads, NEW k, NEW v, NEW A, NEW H, NEW A2, NEW H2,
         Views(A, H), Views(A2, H2)', H[t] = ACallOf("store", k, v),
         A2 = [A EXCEPT ![k] = v], ret' = ret,
         NEW S, Serves(H, H2, t, k, ACallOf("idle", NULL, NULL), S)
  PROVE  Abstract!StoreTakesEffect(t)
<1>1. H[t].op = "store" /\ H[t].key = k /\ H[t].val = v
  BY DEF ACallOf
<1>2. S \in SUBSET Abstract!Waiting({k})
  BY DEF Serves, Views, Abstract!Waiting
<1>3. H2 = Abstract!Serve([H EXCEPT ![t] = Abstract!Idle], S)
  <2>1. ASSUME NEW u \in Threads
        PROVE  H2[u] = IF u \in S THEN [[H EXCEPT ![t] = Abstract!Idle][u] EXCEPT !.op = "deleted"]
                                  ELSE [H EXCEPT ![t] = Abstract!Idle][u]
    BY <2>1 DEF Serves, Views, ACallOf, ServedCall, Abstract!Idle
  <2> QED BY <2>1 DEF Views, Abstract!Serve
<1> QED
  BY <1>1, <1>2, <1>3 DEF Views, Abstract!StoreTakesEffect

LEMMA ToDeleteTakesEffect ==
  ASSUME NEW t \in Threads, NEW k, NEW v, NEW A, NEW H, NEW A2, NEW H2,
         Views(A, H), Views(A2, H2)', H[t] = ACallOf("delete", k, v),
         A2 = [A EXCEPT ![k] = NULL], ret' = ret,
         NEW S, Serves(H, H2, t, k, ACallOf("deleted", k, v), S)
  PROVE  Abstract!DeleteTakesEffect(t)
<1>1. H[t].op = "delete" /\ H[t].key = k
  BY DEF ACallOf
<1>2. S \in SUBSET Abstract!Waiting({k})
  BY DEF Serves, Views, Abstract!Waiting
<1>3. H2 = Abstract!Serve(H, S \cup {t})
  <2>1. ASSUME NEW u \in Threads
        PROVE  H2[u] = IF u \in S \cup {t} THEN [H[u] EXCEPT !.op = "deleted"] ELSE H[u]
    <3>1. [H[t] EXCEPT !.op = "deleted"] = ACallOf("deleted", k, v)
      BY DEF ACallOf
    <3> QED BY <2>1, <3>1 DEF Serves, ServedCall
  <2> QED BY <2>1 DEF Views, Abstract!Serve
<1> QED
  BY <1>1, <1>2, <1>3 DEF Views, Abstract!DeleteTakesEffect

-----------------------------------------------------------------------------
(***************************************************************************)
(* Every step is a step of the abstract map, or changes nothing of it.     *)
(***************************************************************************)

LEMMA ViewsAre ==
  ASSUME NEW c, c = cache, NEW h, h = calls, NEW d, d = cache', NEW g, g = calls'
  PROVE  Views(AMap(c), ACalls(c, h)) /\ Views(AMap(d), ACalls(d, g))'
BY Mapped DEF Views

\* A call before a step, and the maps of a step that leaves it as it was.
LEMMA SeenAt ==
  ASSUME NEW c, NEW h, NEW t \in Threads
  PROVE  ACalls(c, h)[t] = ACall(c, h[t])
BY DEF ACalls

LEMMA SameMaps == ASSUME NEW c, NEW d, SameMap(c, d) PROVE AMap(d) = AMap(c)
BY DEF AMap, SameMap

\* getItem and deleteItem begin.
LEMMA BeginStep ==
  ASSUME Premises, Inv, NoCountAtMax, NEW t \in Threads, NEW k \in Keys, NEW pc \in {"copy", "unlink"},
         \/ pc = "copy" /\ getItem(t, k)
         \/ pc = "unlink" /\ deleteItem(t, k),
         NEW A, NEW H, NEW A2, NEW H2, A = AMap(cache), H = ACalls(cache, calls),
         A2 = AMap(cache'), H2 = ACalls(cache', calls')
  PROVE  /\ H[t] = ACallOf("idle", NULL, NULL) /\ A2 = A
         /\ \/ /\ A[k] = NULL /\ H2 = H
               /\ ret' = IF pc = "copy" THEN [ret EXCEPT ![t] = NULL] ELSE ret
            \/ /\ A[k] # NULL /\ ret' = ret
               /\ H2 = [H EXCEPT ![t] = IF pc = "copy" THEN ACallOf("get", k, A[k])
                                                       ELSE ACallOf("delete", k, NULL)]
<1> PICK c : c = cache
  OBVIOUS
<1> PICK h : h = calls
  OBVIOUS
<1> PICK n : n = now
  OBVIOUS
<1> PICK m : m = ncalls
  OBVIOUS
<1> PICK d : d = cache'
  OBVIOUS
<1> PICK g : g = calls'
  OBVIOUS
<1> PICK o : o = do_item_get(c, k, n)
  OBVIOUS
<1> PICK r : r = Entered(pc, k, NULL, o.it, n)
  OBVIOUS
<1> PICK m2 : m2 = m + 1
  OBVIOUS
<1>1. AllOK(c, h, n, m) /\ CountsBelow(c)
  BY DEF Inv, NoCountAtMax
<1>2. /\ h[t] = Idle /\ m < MaxCalls /\ d = o.c
      /\ o.it = NULL => g = h
      /\ o.it # NULL => g = WithEntry(h, t, r)
      /\ ret' = IF pc = "copy" /\ o.it = NULL THEN [ret EXCEPT ![t] = NULL] ELSE ret
  BY GetAction
<1>3. m2 <= MaxCalls /\ n \in Nat /\ CacheOK(c, {})
  BY <1>1, <1>2, Bounds
<1>4. H[t] = ACallOf("idle", NULL, NULL)
  BY <1>2, SeenAt, CallIs, IdleIsCall
<1>5. A[k] = AValue(c, k)
  BY DEF AMap
<1>6. CASE o.it = NULL
  <2>1. o.c = c /\ AValue(c, k) = NULL
    BY <1>3, <1>6, MissStep
  <2> QED BY <1>2, <1>4, <1>5, <1>6, <2>1
<1>7. CASE o.it # NULL
  <2>1. g = WithEntry(h, t, r)
    BY <1>2, <1>7
  <2>2. /\ SameMap(c, d) /\ Undisturbed(c, d, h, t) /\ AValue(c, k) # NULL
        /\ IsLinked(d, o.it) /\ Item(d, o.it).val = AValue(c, k)
    BY <1>1, <1>2, <1>3, <1>7, <2>1, GetStep
  <2>3. A2 = A
    BY <2>2, SameMaps
  <2>4. IsCall(r) /\ r.pc = pc /\ r.key = k /\ r.val = NULL /\ r.it = o.it
    BY <1>3, <1>7, EnteredIs
  <2>5. ACall(d, r) = IF pc = "copy" THEN ACallOf("get", k, A[k]) ELSE ACallOf("delete", k, NULL)
    BY <1>5, <2>2, <2>4, CallIs
  <2>6. H2 = [H EXCEPT ![t] = ACall(d, r)]
    BY <1>1, <2>1, <2>2, OthersSeeNothing
  <2> QED BY <1>2, <1>4, <1>5, <1>7, <2>2, <2>3, <2>5, <2>6
<1> QED
  BY <1>6, <1>7

\* storeItem looks for memory.
LEMMA AllocBegins ==
  ASSUME Premises, Inv, NEW t \in Threads, NEW k \in Keys, NEW v \in Vals,
         NEW bytes \in ItemBytes, storeItem(t, k, v, bytes)
  PROVE  Abstract!Store(t, k, v)
<1> PICK c : c = cache
  OBVIOUS
<1> PICK h : h = calls
  OBVIOUS
<1> PICK n : n = now
  OBVIOUS
<1> PICK m : m = ncalls
  OBVIOUS
<1> PICK d : d = cache'
  OBVIOUS
<1> PICK g : g = calls'
  OBVIOUS
<1> PICK A : A = AMap(c)
  OBVIOUS
<1> PICK H : H = ACalls(c, h)
  OBVIOUS
<1> PICK A2 : A2 = AMap(d)
  OBVIOUS
<1> PICK H2 : H2 = ACalls(d, g)
  OBVIOUS
<1>1. AllOK(c, h, n, m)
  BY DEF Inv
<1>2. PICK o \in do_item_alloc(c, k, bytes, n) :
        /\ h[t] = Idle /\ m < MaxCalls /\ ret' = ret /\ d = o.c
        /\ o.it = NULL => g = h
        /\ o.it # NULL => g = WithEntry(h, t, Entered("fill", k, v, o.it, n))
  BY StoreAction
<1> PICK r : r = Entered("fill", k, v, o.it, n)
  OBVIOUS
<1> PICK f : f = WithEntry(h, t, r)
  OBVIOUS
<1> PICK m2 : m2 = m + 1
  OBVIOUS
<1>3. m2 <= MaxCalls /\ bytes \in Nat /\ n \in Nat /\ IsTable(Threads, h)
  BY <1>1, <1>2, Bounds, DataCacheAssumption
<1>4. Undisturbed(c, d, h, t)
  BY <1>1, <1>2, <1>3, AllocStep
<1>5. PICK K \in SUBSET Keys : \A l \in Keys : AValue(d, l) = IF l \in K THEN NULL ELSE AValue(c, l)
  BY <1>1, <1>2, <1>3, AllocStep
<1>6. A2 = [x \in Keys |-> IF x \in K THEN NULL ELSE A[x]]
  BY <1>5 DEF AMap
<1>7. H[t] = ACallOf("idle", NULL, NULL)
  BY <1>2, SeenAt, CallIs, IdleIsCall
<1>8. CASE o.it = NULL
  <2> PICK q : q = Idle
    OBVIOUS
  <2> PICK e : e = WithEntry(h, t, q)
    OBVIOUS
  <2>1. e = h /\ g = h
    BY <1>2, <1>3, <1>8 DEF WithEntry, IsTable
  <2>5. ACalls(d, e) = [ACalls(c, h) EXCEPT ![t] = ACall(d, q)]
    BY <1>1, <1>4, OthersSeeNothing
  <2>2. H2 = [H EXCEPT ![t] = ACall(d, q)]
    BY <2>1, <2>5
  <2>3. ACall(d, q) = ACallOf("idle", NULL, NULL)
    BY IdleIsCall, CallIs
  <2>4. H2 = H
    BY <1>7, <2>2, <2>3 DEF ACalls
  <2> QED BY <1>2, <1>6, <1>7, <2>4, ViewsAre, ToStore
<1>9. CASE o.it # NULL
  <2>1. g = WithEntry(h, t, r)
    BY <1>2, <1>9
  <2>2. IsCall(r) /\ r.pc = "fill" /\ r.key = k /\ r.val = v
    BY <1>3, <1>9, EnteredIs
  <2>3. ACall(d, r) = ACallOf("store", k, v)
    BY <2>2, CallIs
  <2>4. H2 = [H EXCEPT ![t] = ACall(d, r)]
    BY <1>1, <1>4, <2>1, OthersSeeNothing
  <2> QED BY <1>2, <1>6, <1>7, <2>3, <2>4, ViewsAre, ToStore
<1> QED
  BY <1>8, <1>9

\* The item of a call that a step makes last: the calls served by it, as the
\* map sees them.
LEMMA TakesEffect ==
  ASSUME Premises, NEW c, NEW h, NEW n, NEW m, AllOK(c, h, n, m), NEW t \in Threads,
         NEW d, NEW y, NEW k \in Keys, y # NULL => IsLinked(c, y) /\ Item(c, y).key = k,
         \A u \in Threads : u # t /\ h[u].it # NULL =>
           /\ Item(d, h[u].it).val = Item(c, h[u].it).val
           /\ IsLinked(d, h[u].it) <=> IsLinked(c, h[u].it) /\ h[u].it # y,
         NEW r, NEW g, g = WithEntry(h, t, r), NEW S, S = ServedBy(c, h, t, y),
         NEW H, NEW H2, H = ACalls(c, h), H2 = ACalls(d, g)
  PROVE  Serves(H, H2, t, k, ACall(d, r), S)
<1>0. ACalls(d, g) = [u \in Threads |-> After(c, h, d, t, r, S, u)]
  BY OtherCalls
<1>1. ASSUME NEW u \in S
      PROVE  u \in Threads /\ u # t /\ H[u].op = "delete" /\ H[u].key = k
  <2>1. /\ u \in Threads /\ u # t /\ h[u].key = Item(c, y).key
        /\ IsLinked(c, h[u].it) /\ h[u].it = y /\ h[u].it # NULL
        /\ ACall(c, h[u]) = ACallOf("delete", h[u].key, h[u].val)
    BY <1>1, ServedDeletes
  <2>2. H[u] = ACall(c, h[u])
    BY <2>1, SeenAt
  <2> QED BY <2>1, <2>2 DEF ACallOf
<1>3. \A u \in Threads : H[u] = ACall(c, h[u])
  BY SeenAt
<1>4. \A u \in Threads : H2[u] = After(c, h, d, t, r, S, u)
  BY <1>0
<1> QED
  BY <1>1, <1>3, <1>4 DEF After, Serves

\* What changes of the abstract map.
Seen == <<[k \in Keys |-> ValueOf(k)], [t \in Threads |-> AbstractCall(calls[t])], ret>>

LEMMA StoreTakes ==
  ASSUME Premises, Inv, NoCountAtMax, NEW t \in Threads, storeItem_store(t)
  PROVE  Abstract!StoreTakesEffect(t)
<1> PICK c : c = cache
  OBVIOUS
<1> PICK h : h = calls
  OBVIOUS
<1> PICK n : n = now
  OBVIOUS
<1> PICK m : m = ncalls
  OBVIOUS
<1> PICK d : d = cache'
  OBVIOUS
<1> PICK g : g = calls'
  OBVIOUS
<1> PICK k : k = h[t].key
  OBVIOUS
<1> PICK v : v = h[t].val
  OBVIOUS
<1> PICK y : y = Found(c.assoc)[k]
  OBVIOUS
<1> PICK r : r = Idle
  OBVIOUS
<1> PICK S : S = ServedBy(c, h, t, y)
  OBVIOUS
<1> PICK H : H = ACalls(c, h)
  OBVIOUS
<1> PICK H2 : H2 = ACalls(d, g)
  OBVIOUS
<1>1. AllOK(c, h, n, m) /\ CountsBelow(c)
  BY DEF Inv, NoCountAtMax
<1>2. h[t].pc = "store" /\ ret' = ret /\ d \in do_store_item(c, h[t].it, n) /\ g = WithEntry(h, t, r)
  BY LaterActions
<1>3. h[t].it # NULL /\ k \in Keys /\ CacheOK(c, {}) /\ IsCall(h[t])
  BY <1>1, <1>2, CallAt, UsedItem, Bounds
<1>4. y # NULL => IsLinked(c, y) /\ Item(c, y).key = k
  BY <1>3, FoundIsLinked
<1>5. \A l \in Keys : AValue(d, l) = IF l = k THEN v ELSE AValue(c, l)
  BY <1>1, <1>2, StoreStep
<1>6. \A u \in Threads : u # t /\ h[u].it # NULL =>
        /\ Item(d, h[u].it).val = Item(c, h[u].it).val
        /\ IsLinked(d, h[u].it) <=> IsLinked(c, h[u].it) /\ h[u].it # y
  BY <1>1, <1>2, StoreStep
<1>7. Serves(H, H2, t, k, ACall(d, r), S)
  BY <1>1, <1>2, <1>3, <1>4, <1>6, TakesEffect
<1>9. ACall(d, r) = ACallOf("idle", NULL, NULL)
  BY IdleIsCall, CallIs
<1>10. H[t] = ACallOf("store", k, v)
  BY <1>2, <1>3, SeenAt, CallIs
<1>11. AMap(d) = [AMap(c) EXCEPT ![k] = v]
  BY <1>3, <1>5 DEF AMap
<1> PICK A : A = AMap(c)
  OBVIOUS
<1> PICK A2 : A2 = AMap(d)
  OBVIOUS
<1>12. Views(A, H) /\ Views(A2, H2)' /\ ret' = ret /\ A2 = [A EXCEPT ![k] = v]
  BY <1>2, <1>11, ViewsAre
<1>13. Serves(H, H2, t, k, ACallOf("idle", NULL, NULL), S)
  BY <1>7, <1>9
<1> QED
  BY <1>10, <1>12, <1>13, ToStoreTakesEffect

LEMMA DeleteTakes ==
  ASSUME Premises, Inv, NEW t \in Threads, deleteItem_unlink(t)
  PROVE  Abstract!DeleteTakesEffect(t) \/ UNCHANGED Seen
<1> PICK c : c = cache
  OBVIOUS
<1> PICK h : h = calls
  OBVIOUS
<1> PICK n : n = now
  OBVIOUS
<1> PICK m : m = ncalls
  OBVIOUS
<1> PICK d : d = cache'
  OBVIOUS
<1> PICK g : g = calls'
  OBVIOUS
<1> PICK k : k = h[t].key
  OBVIOUS
<1> PICK v : v = h[t].val
  OBVIOUS
<1> PICK x : x = h[t].it
  OBVIOUS
<1> PICK r : r = AtPc(h[t], "release")
  OBVIOUS
<1> PICK S : S = ServedBy(c, h, t, x)
  OBVIOUS
<1> PICK H : H = ACalls(c, h)
  OBVIOUS
<1> PICK H2 : H2 = ACalls(d, g)
  OBVIOUS
<1>1. AllOK(c, h, n, m)
  BY DEF Inv
<1>2. h[t].pc = "unlink" /\ ret' = ret /\ d \in do_item_unlink(c, x) /\ g = WithEntry(h, t, r)
  BY LaterActions
<1>3. x # NULL /\ k \in Keys /\ IsCall(h[t]) /\ Item(c, x).key = k
  BY <1>1, <1>2, CallAt, UsedItem
<1>4. IsCall(r) /\ r.pc = "release" /\ r.key = k /\ r.val = v
  BY <1>3, AtPcIs
<1>5. ACall(d, r) = ACallOf("deleted", k, v)
  BY <1>4, CallIs
<1>6. Views(AMap(c), H) /\ Views(AMap(d), H2)'
  BY ViewsAre
<1>7. CASE IsLinked(c, x)
  <2>1. \A l \in Keys : AValue(d, l) = IF l = k THEN NULL ELSE AValue(c, l)
    BY <1>1, <1>2, <1>7, UnlinkStep
  <2>2. \A u \in Threads : u # t /\ h[u].it # NULL =>
          /\ Item(d, h[u].it).val = Item(c, h[u].it).val
          /\ IsLinked(d, h[u].it) <=> IsLinked(c, h[u].it) /\ h[u].it # x
    BY <1>1, <1>2, UnlinkStep
  <2>3. Serves(H, H2, t, k, ACall(d, r), S)
    BY <1>1, <1>2, <1>3, <1>7, <2>2, TakesEffect
  <2>5. H[t] = ACallOf("delete", k, v)
    BY <1>2, <1>3, <1>7, SeenAt, CallIs
  <2>6. AMap(d) = [AMap(c) EXCEPT ![k] = NULL]
    BY <1>3, <2>1 DEF AMap
  <2> PICK A : A = AMap(c)
    OBVIOUS
  <2> PICK A2 : A2 = AMap(d)
    OBVIOUS
  <2>7. Views(A, H) /\ Views(A2, H2)' /\ ret' = ret /\ A2 = [A EXCEPT ![k] = NULL]
    BY <1>2, <1>6, <2>6
  <2>8. Serves(H, H2, t, k, ACallOf("deleted", k, v), S)
    BY <1>5, <2>3
  <2> QED BY <2>5, <2>7, <2>8, ToDeleteTakesEffect
<1>8. CASE ~IsLinked(c, x)
  <2>1. SameMap(c, d) /\ Undisturbed(c, d, h, t)
    BY <1>1, <1>2, <1>8, UnlinkStep
  <2>2. H[t] = ACallOf("deleted", k, v)
    BY <1>2, <1>3, <1>8, SeenAt, CallIs
  <2>3. H2 = [H EXCEPT ![t] = ACall(d, r)]
    BY <1>1, <1>2, <2>1, OthersSeeNothing
  <2>4. H2 = H
    BY <1>5, <2>2, <2>3 DEF ACalls
  <2>5. AMap(d) = AMap(c)
    BY <2>1, SameMaps
  <2> QED BY <1>2, <1>6, <2>4, <2>5 DEF Views, Seen
<1> QED
  BY <1>7, <1>8

\* The steps that leave the map as it is.
LEMMA QuietSteps ==
  ASSUME Premises, Inv, NEW t \in Threads
  PROVE  /\ getItem_copy(t) => Abstract!GetReturn(t)
         /\ deleteItem_release(t) => Abstract!DeleteReturn(t)
         /\ storeItem_fill(t) => UNCHANGED Seen
<1> PICK c : c = cache
  OBVIOUS
<1> PICK h : h = calls
  OBVIOUS
<1> PICK n : n = now
  OBVIOUS
<1> PICK m : m = ncalls
  OBVIOUS
<1> PICK d : d = cache'
  OBVIOUS
<1> PICK g : g = calls'
  OBVIOUS
<1> PICK x : x = h[t].it
  OBVIOUS
<1> PICK i : i = Idle
  OBVIOUS
<1> PICK H : H = ACalls(c, h)
  OBVIOUS
<1> PICK H2 : H2 = ACalls(d, g)
  OBVIOUS
<1>1. AllOK(c, h, n, m)
  BY DEF Inv
<1>2. Views(AMap(c), H) /\ Views(AMap(d), H2)'
  BY ViewsAre
<1>3. IsCall(h[t]) /\ H[t] = ACall(c, h[t]) /\ (h[t].pc # "idle" => x # NULL)
  BY <1>1, CallAt, SeenAt
<1>4. ACall(d, i) = ACallOf("idle", NULL, NULL)
  BY IdleIsCall, CallIs
<1>5. ASSUME getItem_copy(t) PROVE Abstract!GetReturn(t)
  <2>1. h[t].pc = "copy" /\ d = c /\ ret' = [ret EXCEPT ![t] = Item(c, x).val] /\ g = WithEntry(h, t, i)
    BY <1>5, LaterActions
  <2>2. Undisturbed(c, d, h, t)
    BY <2>1 DEF Undisturbed
  <2>3. H2 = [H EXCEPT ![t] = ACall(d, i)]
    BY <1>1, <2>1, <2>2, OthersSeeNothing
  <2>4. H[t] = ACallOf("get", h[t].key, Item(c, x).val)
    BY <1>3, <2>1, CallIs
  <2> QED BY <1>2, <1>4, <2>1, <2>3, <2>4, ToGetReturn
<1>6. ASSUME deleteItem_release(t) PROVE Abstract!DeleteReturn(t)
  <2>1. h[t].pc = "release" /\ ret' = ret /\ d \in do_item_release(c, x) /\ g = WithEntry(h, t, i)
    BY <1>6, LaterActions
  <2>2. SameMap(c, d) /\ Undisturbed(c, d, h, t)
    BY <1>1, <2>1, ReleaseStep
  <2>3. H2 = [H EXCEPT ![t] = ACall(d, i)]
    BY <1>1, <2>1, <2>2, OthersSeeNothing
  <2>4. H[t] = ACallOf("deleted", h[t].key, h[t].val)
    BY <1>3, <2>1, CallIs
  <2>5. AMap(d) = AMap(c)
    BY <2>2, SameMaps
  <2> QED BY <1>2, <1>4, <2>1, <2>3, <2>4, <2>5, ToDeleteReturn
<1>7. ASSUME storeItem_fill(t) PROVE UNCHANGED Seen
  <2> PICK r : r = AtPc(h[t], "store")
    OBVIOUS
  <2>1. /\ h[t].pc = "fill" /\ ret' = ret /\ d = WithItem(c, x, Valued(Item(c, x), h[t].val))
        /\ g = WithEntry(h, t, r)
    BY <1>7, LaterActions
  <2>2. SameMap(c, d) /\ Undisturbed(c, d, h, t)
    BY <1>1, <2>1, FillStep
  <2>3. H2 = [H EXCEPT ![t] = ACall(d, r)]
    BY <1>1, <2>1, <2>2, OthersSeeNothing
  <2>4. IsCall(r) /\ r.pc = "store" /\ r.key = h[t].key /\ r.val = h[t].val
    BY <1>3, <2>1, AtPcIs
  <2>5. ACall(d, r) = H[t]
    BY <1>3, <2>1, <2>4, CallIs
  <2>6. H2 = H
    BY <2>3, <2>5 DEF ACalls
  <2>7. AMap(d) = AMap(c)
    BY <2>2, SameMaps
  <2> QED BY <1>2, <2>1, <2>6, <2>7 DEF Views, Seen
<1> QED
  BY <1>5, <1>6, <1>7

LEMMA AbstractStep ==
  ASSUME Premises, Inv, NoCountAtMax, [Next]_vars
  PROVE  Abstract!Next \/ UNCHANGED Seen
<1> PICK A : A = AMap(cache)
  OBVIOUS
<1> PICK H : H = ACalls(cache, calls)
  OBVIOUS
<1> PICK A2 : A2 = AMap(cache')
  OBVIOUS
<1> PICK H2 : H2 = ACalls(cache', calls')
  OBVIOUS
<1>1. Views(A, H) /\ Views(A2, H2)'
  BY ViewsAre
<1>2. A2 = A /\ H2 = H /\ ret' = ret => UNCHANGED Seen
  BY <1>1 DEF Views, Seen
<1>3. ASSUME NEW t \in Threads, NEW k \in Keys, getItem(t, k) PROVE Abstract!Get(t, k)
  <2> PICK pc : pc = "copy"
    OBVIOUS
  <2>1. /\ H[t] = ACallOf("idle", NULL, NULL) /\ A2 = A
        /\ \/ A[k] = NULL /\ H2 = H /\ ret' = [ret EXCEPT ![t] = NULL]
           \/ A[k] # NULL /\ ret' = ret /\ H2 = [H EXCEPT ![t] = ACallOf("get", k, A[k])]
    BY <1>3, BeginStep
  <2> QED BY <1>1, <2>1, ToGet
<1>4. ASSUME NEW t \in Threads, NEW k \in Keys, deleteItem(t, k)
      PROVE  Abstract!Delete(t, k) \/ UNCHANGED Seen
  <2> PICK pc : pc = "unlink"
    OBVIOUS
  <2>1. /\ H[t] = ACallOf("idle", NULL, NULL) /\ A2 = A /\ ret' = ret
        /\ \/ H2 = H
           \/ A[k] # NULL /\ H2 = [H EXCEPT ![t] = ACallOf("delete", k, NULL)]
    BY <1>4, BeginStep
  <2> QED BY <1>1, <1>2, <2>1, ToDelete
<1>5. CASE Maintain
  <2> PICK d : d = cache'
    OBVIOUS
  <2>1. /\ cache.assoc.expanding /\ d = WithAssoc(cache, Table!MigrateBucket(cache.assoc))
        /\ calls' = calls /\ ret' = ret
    BY <1>5, MaintainAction
  <2>2. SameMap(cache, d) /\ \A y : Item(d, y) = Item(cache, y)
    BY <2>1, MaintainStep DEF Inv
  <2>3. A2 = A
    BY <2>2, SameMaps
  <2>4. \A t \in Threads : ACall(d, calls[t]) = ACall(cache, calls[t])
    BY <2>2 DEF ACall, IsLinked
  <2>5. H2 = H
    BY <2>1, <2>4 DEF ACalls
  <2> QED BY <1>2, <2>1, <2>3, <2>5
<1>6. CASE Tick \/ UNCHANGED vars
  BY <1>2, <1>6 DEF Tick, vars
<1>7. CASE Next
  BY <1>3, <1>4, <1>5, <1>6, <1>7, AllocBegins, StoreTakes, DeleteTakes, QuietSteps
     DEF Next, Abstract!Next
<1> QED
  BY <1>6, <1>7

LEMMA AbstractInit == ASSUME Premises, Init PROVE Abstract!Init
<1> PICK c : c = InitCache(0, 0)
  OBVIOUS
<1>1. CacheOK(c, {}) /\ DOMAIN c.mem = {}
  BY CacheAtInit DEF Premises
<1>2. cache = c /\ calls = [t \in Threads |-> Idle] /\ ret = [t \in Threads |-> NULL]
  BY DEF Init
<1>3. ASSUME NEW k \in Keys PROVE AValue(c, k) = NULL
  <2>1. \A x : ~IsLinked(c, x)
    BY <1>1 DEF IsLinked, Item, ZeroedItem
  <2> QED BY <1>1, <2>1, NoValue
<1>4. AMap(cache) = [k \in Keys |-> NULL]
  BY <1>2, <1>3 DEF AMap
<1>5. \A t \in Threads : ACall(cache, calls[t]) = Abstract!Idle
  BY <1>2, IdleIsCall, CallIs DEF ACallOf, Abstract!Idle
<1>6. ACalls(cache, calls) = [t \in Threads |-> Abstract!Idle]
  BY <1>5 DEF ACalls
<1> QED
  BY <1>2, <1>4, <1>6, Mapped DEF Abstract!Init

(***************************************************************************)
(* While no refcount reaches its maximum, the cache is a lossy map to the  *)
(* threads that share it: ImplementsLossyMap for any threads, keys, values,*)
(* sizes and times, and any number of calls.  A getItem returns the        *)
(* value that its key had at one instant of the call, though its memcpy is *)
(* outside cache_lock (datacache.hpp:28-38); a storeItem binds its key at  *)
(* one instant; a deleteItem does not return while the value it found is   *)
(* still bound, and no key is forgotten but by a search for memory.        *)
(***************************************************************************)
THEOREM DataCacheIsLossyMap ==
  ASSUME Premises PROVE Spec /\ []NoCountAtMax => ImplementsLossyMap
<1>1. Init => Abstract!Init
  BY AbstractInit
<1>2. Inv /\ NoCountAtMax /\ [Next]_vars =>
        [Abstract!Next]_<<[k \in Keys |-> ValueOf(k)],
                          [t \in Threads |-> AbstractCall(calls[t])], ret>>
  BY AbstractStep DEF Seen
<1> QED
  BY <1>1, <1>2, InvHolds, PTL DEF Spec, ImplementsLossyMap, Abstract!Spec, Abstract!vars
=============================================================================
