----------------------------- MODULE DataCache -----------------------------
(***************************************************************************)
(* DataCache (src/src/cache/datacache.hpp) used by several threads: its    *)
(* operations are not critical sections but sequences of them, with the    *)
(* memcpy of the data in between, outside cache_lock.  pc names what a     *)
(* call does next; a call begins with its first critical section.          *)
(*                                                                         *)
(*   getItem     item_get, "copy"                                          *)
(*   storeItem   item_alloc, "fill", "store"                               *)
(*   deleteItem  item_get, "unlink", "release"                             *)
(*                                                                         *)
(* getItem and storeItem return without item_release: the reference that   *)
(* they took stays counted.  storeItem and deleteItem return 0 also when   *)
(* they did nothing.                                                       *)
(***************************************************************************)
EXTENDS LRULists

CONSTANTS
  Threads, Vals, ItemBytes,
  MaxHold,             \* seconds that a call may last
  StartTime, MaxTime,  \* bounds of the clock
  MaxCalls             \* bound of the calls of a behaviour

ASSUME DataCacheAssumption ==
  /\ StartTime \in Nat /\ MaxTime \in Nat /\ MaxCalls \in Nat
  /\ ITEM_UPDATE_INTERVAL <= StartTime /\ StartTime <= MaxTime
  /\ ItemBytes \subseteq Nat
  /\ NULL \notin Keys \cup Vals

VARIABLES
  cache,
  now,
  calls,   \* the call of every thread
  ret,     \* outbuffer and result of the last getItem, NULL for -1
  ncalls   \* calls so far

vars == <<cache, now, calls, ret, ncalls>>

Idle == [pc |-> "idle", key |-> NULL, val |-> NULL, it |-> NULL, since |-> 0]

Init ==
  /\ cache = InitCache(0, 0)
  /\ now = StartTime
  /\ calls = [t \in Threads |-> Idle]
  /\ ret = [t \in Threads |-> NULL]
  /\ ncalls = 0

Goto(t, pc) == calls' = [calls EXCEPT ![t].pc = pc]

Return(t) == calls' = [calls EXCEPT ![t] = Idle]

Enter(t) == calls[t] = Idle /\ ncalls < MaxCalls /\ ncalls' = ncalls + 1

Enters(t, pc, k, v, it) ==
  calls' = [calls EXCEPT ![t] = [pc |-> pc, key |-> k, val |-> v, it |-> it,
                                 since |-> now]]

-----------------------------------------------------------------------------

getItem(t, k) ==
  /\ Enter(t)
  /\ LET o == do_item_get(cache, k, now) IN
     /\ cache' = o.c
     /\ IF o.it = NULL
        THEN ret' = [ret EXCEPT ![t] = NULL] /\ UNCHANGED calls
        ELSE Enters(t, "copy", k, NULL, o.it) /\ UNCHANGED ret
  /\ UNCHANGED <<now>>

getItem_copy(t) ==
  /\ calls[t].pc = "copy"
  /\ ret' = [ret EXCEPT ![t] = Item(cache, calls[t].it).val]
  /\ Return(t)
  /\ UNCHANGED <<cache, now, ncalls>>

storeItem(t, k, v, bytes) ==
  /\ Enter(t)
  /\ \E o \in do_item_alloc(cache, k, bytes, now) :
       /\ cache' = o.c
       /\ IF o.it = NULL THEN UNCHANGED calls
                         ELSE Enters(t, "fill", k, v, o.it)
  /\ UNCHANGED <<now, ret>>

storeItem_fill(t) ==
  /\ calls[t].pc = "fill"
  /\ LET x == calls[t].it IN
     cache' = WithItem(cache, x, [Item(cache, x) EXCEPT !.val = calls[t].val])
  /\ Goto(t, "store")
  /\ UNCHANGED <<now, ret, ncalls>>

storeItem_store(t) ==
  /\ calls[t].pc = "store"
  /\ cache' \in do_store_item(cache, calls[t].it, now)
  /\ Return(t)
  /\ UNCHANGED <<now, ret, ncalls>>

deleteItem(t, k) ==
  /\ Enter(t)
  /\ LET o == do_item_get(cache, k, now) IN
     /\ cache' = o.c
     /\ IF o.it = NULL THEN UNCHANGED calls
                       ELSE Enters(t, "unlink", k, NULL, o.it)
  /\ UNCHANGED <<now, ret>>

\* Mutant: what the key is bound to now is unlinked.
deleteItem_unlink_ByKey(t) ==
  /\ calls[t].pc = "unlink"
  /\ LET x == Table!assoc_find(cache.assoc, calls[t].key) IN
     cache' \in IF x = NULL THEN {cache} ELSE do_item_unlink(cache, x)
  /\ Goto(t, "release")
  /\ UNCHANGED <<now, ret, ncalls>>

deleteItem_unlink(t) ==
  /\ calls[t].pc = "unlink"
  /\ cache' \in do_item_unlink(cache, calls[t].it)
  /\ Goto(t, "release")
  /\ UNCHANGED <<now, ret, ncalls>>

deleteItem_release(t) ==
  /\ calls[t].pc = "release"
  /\ cache' \in do_item_release(cache, calls[t].it)
  /\ Return(t)
  /\ UNCHANGED <<now, ret, ncalls>>

-----------------------------------------------------------------------------

\* A turn of the maintenance thread; there is one while expanding (AssocArray).
Maintain ==
  /\ cache.assoc.expanding
  /\ cache' = [cache EXCEPT !.assoc = Table!MigrateBucket(@)]
  /\ UNCHANGED <<now, calls, ret, ncalls>>

Tick ==
  /\ now < MaxTime
  /\ \A t \in Threads : calls[t] # Idle => now + 1 - calls[t].since <= MaxHold
  /\ now' = now + 1
  /\ UNCHANGED <<cache, calls, ret, ncalls>>

Next ==
  \/ \E t \in Threads :
       \/ \E k \in Keys : getItem(t, k) \/ deleteItem(t, k)
       \/ \E k \in Keys, v \in Vals, bytes \in ItemBytes : storeItem(t, k, v, bytes)
       \/ getItem_copy(t)
       \/ storeItem_fill(t)
       \/ storeItem_store(t)
       \/ deleteItem_unlink(t)
       \/ deleteItem_release(t)
  \/ Maintain
  \/ Tick

Spec == Init /\ [][Next]_vars

-----------------------------------------------------------------------------

Quiet == \A t \in Threads : calls[t] = Idle

InUse == {calls[t].it : t \in Threads} \ {NULL}

\* The types of the calls and of the headers.
TypeOK ==
  /\ \A t \in Threads :
       calls[t].pc \in {"idle", "copy", "fill", "store", "unlink", "release"}
  /\ InUse \subseteq DOMAIN cache.mem
  /\ \A x \in DOMAIN cache.mem :
       /\ cache.mem[x].key \in Keys
       /\ cache.mem[x].refcount \in 0 .. RefMod - 1
       /\ cache.mem[x].iflag \subseteq {LINKED, SLABBED}
  /\ ncalls \in 0 .. MaxCalls

(***************************************************************************)
(* No assert of lru.cpp or assoc.cpp fails under concurrent calls, and     *)
(* every value keeps its type.                                             *)
(***************************************************************************)
AssertsHold == TypeOK /\ cache.ok

(***************************************************************************)
(* No chunk that a call is copying from or to, unlinking or releasing is   *)
(* on a free list, or is the new chunk of another call.                    *)
(***************************************************************************)
UsedItemsAreNotFree ==
  /\ InUse \cap FreeItems(cache) = {}
  /\ \A t, u \in Threads :
       t # u /\ calls[t].pc \in {"fill", "store"} => calls[u].it # calls[t].it

(***************************************************************************)
(* "don't necessarily unlink the tail because it may be locked: refcount>0"*)
(* (lru.cpp:75): the item of a call in progress has a refcount.            *)
(***************************************************************************)
UsedItemsAreLocked == \A x \in InUse : Item(cache, x).refcount > 0

(***************************************************************************)
(* Between calls every chunk of memory is free, or it is linked and so can *)
(* be found, replaced, deleted or evicted.                                 *)
(***************************************************************************)
NoChunkLeaked ==
  Quiet => Slab!Partitioned(cache.slabs, LinkedItems(cache), {})

-----------------------------------------------------------------------------

ValueOf(k) ==
  LET x == Table!assoc_find(cache.assoc, k)
  IN  IF x = NULL THEN NULL ELSE Item(cache, x).val

\* A call as the abstract map sees it: a pending get will return what its item
\* now holds, a pending delete is served when its item is no longer linked.
AbstractCall(c) ==
  LET op == CASE c.pc = "idle" -> "idle"
              [] c.pc = "copy" -> "get"
              [] c.pc \in {"fill", "store"} -> "store"
              [] c.pc = "unlink" -> IF IsLinked(cache, c.it) THEN "delete" ELSE "deleted"
              [] c.pc = "release" -> "deleted"
  IN  [op |-> op, key |-> c.key,
       val |-> IF c.pc = "copy" THEN Item(cache, c.it).val ELSE c.val]

Abstract == INSTANCE LossyMap
  WITH map <- [k \in Keys |-> ValueOf(k)],
       calls <- [t \in Threads |-> AbstractCall(calls[t])]

(***************************************************************************)
(* The cache is a lossy map: a getItem returns the value that its key had  *)
(* at one instant of the call, a storeItem binds its key at one instant, a *)
(* deleteItem does not return while the value it found is still bound.     *)
(***************************************************************************)
ImplementsLossyMap == Abstract!Spec
=============================================================================
