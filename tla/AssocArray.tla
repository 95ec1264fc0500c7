----------------------------- MODULE AssocArray -----------------------------
(***************************************************************************)
(* The hash table as a component: its three operations, called by a cache  *)
(* that inserts what it does not find and deletes only what is linked      *)
(* (lru.cpp:148-159, 204-214), and the maintenance threads that            *)
(* assoc_expand starts, all of them serialised by the cache lock.          *)
(* `contents' is a history: the item the cache last linked under each key. *)
(***************************************************************************)
EXTENDS Assoc

CONSTANTS
  Items,          \* addresses of items
  InitHashItems   \* what the constructor may leave in hash_items

ASSUME AssocArrayAssumption ==
  /\ NULL \notin Items
  /\ InitHashItems \subseteq 0 .. CounterMod - 1

VARIABLES
  assoc,
  migrators,    \* maintenance threads that have not left their loop
  contents,
  started       \* the value hash_items started with

vars == <<assoc, migrators, contents, started>>

Init ==
  /\ started \in InitHashItems
  /\ assoc = InitAssoc(started)
  /\ migrators = 0
  /\ contents = [k \in Keys |-> NULL]

Linked == {contents[k] : k \in Keys} \ {NULL}

\* do_item_link, of an item whose key the cache looked up in vain.
Insert(it, k) ==
  /\ it \notin Linked
  /\ assoc_find(assoc, k) = NULL
  /\ \E a \in assoc_insert(assoc, it, k) :
       /\ assoc' = a
       /\ migrators' = IF a.hashpower > assoc.hashpower
                       THEN migrators + 1 ELSE migrators
  /\ contents' = [contents EXCEPT ![k] = it]
  /\ UNCHANGED started

\* do_item_unlink, of an item that is linked.
Delete(k) ==
  /\ contents[k] # NULL
  /\ assoc' = assoc_delete(assoc, k)
  /\ contents' = [contents EXCEPT ![k] = NULL]
  /\ UNCHANGED <<migrators, started>>

\* One turn of the loop of a maintenance thread.
Maintain ==
  /\ migrators > 0
  /\ assoc' = IF assoc.expanding THEN MigrateBucket(assoc) ELSE assoc
  /\ migrators' = IF assoc'.expanding THEN migrators ELSE migrators - 1
  /\ UNCHANGED <<contents, started>>

Next ==
  \/ \E it \in Items, k \in Keys : Insert(it, k)
  \/ \E k \in Keys : Delete(k)
  \/ Maintain

\* A maintenance thread that can take the lock again and again does.
Fairness == WF_vars(Maintain)

Spec == Init /\ [][Next]_vars /\ Fairness

-----------------------------------------------------------------------------

Entries == [it : Items, key : Keys]

IsTable(table, n) ==
  /\ table = [b \in 0 .. hashsize(n) - 1 |-> table[b]]
  /\ \A b \in 0 .. hashsize(n) - 1 : table[b] \in Seq(Entries)

\* The tables have the sizes hashpower says.
AssocOK(a) ==
  /\ DOMAIN a = {"hashpower", "hash_items", "primary", "old", "expanding", "expand_bucket"}
  /\ a = [f \in DOMAIN a |-> a[f]]
  /\ a.hashpower \in Nat
  /\ a.hash_items \in 0 .. CounterMod - 1
  /\ a.expanding \in BOOLEAN
  /\ a.expand_bucket \in Nat
  /\ IsTable(a.primary, a.hashpower)
  /\ a.expanding => a.hashpower > 0 /\ IsTable(a.old, a.hashpower - 1)

(***************************************************************************)
(* The types of the variables.                                             *)
(***************************************************************************)
TypeOK ==
  /\ AssocOK(assoc)
  /\ migrators \in Nat
  /\ contents \in [Keys -> Items \cup {NULL}]
  /\ started \in InitHashItems

(***************************************************************************)
(* assoc_find returns the item linked under the key and nothing else, in   *)
(* the middle of an expansion too (assoc.cpp:17-31).                       *)
(***************************************************************************)
FindExact == \A k \in Keys : assoc_find(assoc, k) = contents[k]

(***************************************************************************)
(* Every linked item is in exactly one chain, of the table and the bucket  *)
(* where its next search begins, and nothing else is in a chain: the       *)
(* migration neither loses nor duplicates (assoc.cpp:84-93).               *)
(***************************************************************************)
OnePlaceEach ==
  /\ InItsPlace(assoc)
  /\ \A p \in Places(assoc) : At(assoc, p).it = contents[At(assoc, p).key]
  /\ \A p, q \in Places(assoc) : At(assoc, p).key = At(assoc, q).key => p = q
  /\ \A k \in Keys : contents[k] # NULL => \E p \in Places(assoc) : At(assoc, p).key = k

(***************************************************************************)
(* hash_items is the "Number of items in the hash table." (assoc.hpp:21)   *)
(***************************************************************************)
HashItemsExact == assoc.hash_items = Cardinality(Linked)

(***************************************************************************)
(* What the code keeps instead: the difference of hash_items from the      *)
(* number of items is what the constructor found in its memory.            *)
(***************************************************************************)
HashItemsOffByStart ==
  assoc.hash_items = (started + Cardinality(Linked)) % CounterMod

(***************************************************************************)
(* There is a maintenance thread when there is an expansion and only one,  *)
(* and expand_bucket "ranges from 0 .. hashsize(hashpower - 1) - 1"        *)
(* (assoc.hpp:33-35): no second thread frees the old table of the first.   *)
(***************************************************************************)
OneMigrator ==
  /\ migrators = IF assoc.expanding THEN 1 ELSE 0
  /\ ExpandBucketOK(assoc)

(***************************************************************************)
(* Every expansion ends, whatever the cache inserts and deletes meanwhile. *)
(***************************************************************************)
ExpansionEnds == assoc.expanding ~> ~assoc.expanding

\* What the table implements: a map from keys to items.
Map == INSTANCE KeyMap WITH map <- [k \in Keys |-> assoc_find(assoc, k)]

(***************************************************************************)
(* As seen through assoc_find, an insertion binds its key, a deletion      *)
(* unbinds it, and migration, expansion and their failures do nothing.     *)
(***************************************************************************)
ImplementsMap == Map!Spec
=============================================================================
