------------------------------- MODULE Assoc -------------------------------
(***************************************************************************)
(* The hash table of src/src/cache/assoc.{hpp,cpp} as operators on the     *)
(* value of one AssociativeArray object.  The code runs every one of them  *)
(* inside the cache lock, so each is one step of whoever calls it: the     *)
(* cache (module LRULists), or the environment of module AssocArray.       *)
(*                                                                         *)
(* A chain h_next of items is a sequence of entries, head first.  An entry *)
(* stands for an item in the table: its address and its key; the hv of an  *)
(* item is the hash of its key (lru.hpp:94).                               *)
(***************************************************************************)
EXTENDS Integers, Sequences, SequencesExt, FiniteSets

CONSTANTS
  Keys,
  Hash,         \* the hash of every key
  SameBytes,    \* pairs <<k, l>>: memcmp finds the nkey bytes of k equal to the
                \* ones stored from the first byte of key l on
  InitHashpower,
  CounterMod,   \* hash_items is an unsigned int: 2^32
  CallocFails,  \* which answers to "does calloc fail?" occur
  ThreadFails,  \* which answers to "does pthread_create fail?" occur
  NULL

ASSUME AssocAssumption ==
  /\ Hash \in [Keys -> Nat]
  /\ SameBytes \in SUBSET (Keys \X Keys)
  /\ \A k \in Keys : <<k, k>> \in SameBytes
  /\ InitHashpower \in Nat
  /\ CounterMod \in Nat \ {0}
  /\ CallocFails \in (SUBSET BOOLEAN) \ {{}}
  /\ ThreadFails \in (SUBSET BOOLEAN) \ {{}}

hashsize(n) == 2 ^ n

Entry(it, k) == [it |-> it, key |-> k]

\* A calloc'ed table.
EmptyTable(n) == [b \in 0 .. hashsize(n) - 1 |-> <<>>]

(***************************************************************************)
(* The constructor sets neither hash_items nor expanding: the first is a   *)
(* parameter here, the second is taken to be false.                        *)
(***************************************************************************)
InitAssoc(items) ==
  [hashpower |-> InitHashpower, hash_items |-> items,
   primary |-> EmptyTable(InitHashpower), old |-> <<>>,
   expanding |-> FALSE, expand_bucket |-> 0]

-----------------------------------------------------------------------------

\* get_bucket, and the bucket that which_hashtable computes.
get_bucket(a, h) == h % hashsize(a.hashpower)
old_bucket(a, h) == h % hashsize(a.hashpower - 1)

\* which_hashtable: is the chain of hash h still in the old table?
which_hashtable(a, h) == a.expanding /\ old_bucket(a, h) >= a.expand_bucket

Chain(a, h) == IF which_hashtable(a, h) THEN a.old[old_bucket(a, h)]
                                        ELSE a.primary[get_bucket(a, h)]

\* Mutant: the main table is changed, also where the old one is searched.
WithChain_AlwaysPrimary(a, h, chain) ==
  [a EXCEPT !.primary[get_bucket(a, h)] = chain]

WithChain(a, h, chain) ==
  IF which_hashtable(a, h)
  THEN [a EXCEPT !.old[old_bucket(a, h)] = chain]
  ELSE [a EXCEPT !.primary[get_bucket(a, h)] = chain]

\* The test of assoc_find and hashitem_before: the hash of the item, and the
\* bytes of the search key; the lengths of the keys are not compared.
IsMatch(e, k) == Hash[e.key] = Hash[k] /\ <<k, e.key>> \in SameBytes

\* The place in a chain of the first item that matches, 0 when none does.
FirstMatch(chain, k) ==
  LET hits == {i \in DOMAIN chain : IsMatch(chain[i], k)}
  IN  IF hits = {} THEN 0 ELSE CHOOSE i \in hits : \A j \in hits : i <= j

assoc_find(a, k) ==
  LET chain == Chain(a, Hash[k])
      i == FirstMatch(chain, k)
  IN  IF i = 0 THEN NULL ELSE chain[i].it

\* assoc_expand: the new table takes over, unless it or its thread fails.
assoc_expand(a) ==
  {IF nomem \/ nothread
   THEN [a EXCEPT !.expand_bucket = IF nomem THEN @ ELSE 0]
   ELSE [a EXCEPT !.old = a.primary,
                  !.primary = EmptyTable(a.hashpower + 1),
                  !.hashpower = @ + 1,
                  !.expanding = TRUE,
                  !.expand_bucket = 0]
     : nomem \in CallocFails, nothread \in ThreadFails}

\* Mutant: expansion may begin in the middle of an expansion.
assoc_insert_AnyTime(a, it, k) ==
  LET h == Hash[k]
      b == [WithChain(a, h, <<Entry(it, k)>> \o Chain(a, h))
              EXCEPT !.hash_items = (@ + 1) % CounterMod]
  IN  IF b.hash_items > (hashsize(b.hashpower) * 3) \div 2
      THEN assoc_expand(b)
      ELSE {b}

assoc_insert(a, it, k) ==
  LET h == Hash[k]
      b == [WithChain(a, h, <<Entry(it, k)>> \o Chain(a, h))
              EXCEPT !.hash_items = (@ + 1) % CounterMod]
  IN  IF ~b.expanding /\ b.hash_items > (hashsize(b.hashpower) * 3) \div 2
      THEN assoc_expand(b)
      ELSE {b}

hashitem_before(a, k) == FirstMatch(Chain(a, Hash[k]), k)

\* Mutant: h_next is set to NULL before next is read from it.
assoc_delete_CutChain(a, k) ==
  LET h == Hash[k]
      i == hashitem_before(a, k)
  IN  IF i = 0 THEN a
      ELSE [WithChain(a, h, SubSeq(Chain(a, h), 1, i - 1))
              EXCEPT !.hash_items = (@ - 1) % CounterMod]

\* Mutant: hash_items is not decremented.
assoc_delete_NoCount(a, k) ==
  LET h == Hash[k]
      i == hashitem_before(a, k)
  IN  IF i = 0 THEN a ELSE WithChain(a, h, RemoveAt(Chain(a, h), i))

\* assoc_delete does nothing when there is nothing (an assert forbids it).
assoc_delete(a, k) ==
  LET h == Hash[k]
      i == hashitem_before(a, k)
  IN  IF i = 0 THEN a
      ELSE [WithChain(a, h, RemoveAt(Chain(a, h), i))
              EXCEPT !.hash_items = (@ - 1) % CounterMod]

\* The main table when the items of an old chain have been pushed one by one on
\* their new chains.
Pushed(a, moved) ==
  LET table[i \in 0 .. Len(moved)] ==
        IF i = 0 THEN a.primary
        ELSE [table[i - 1] EXCEPT
                ![get_bucket(a, Hash[moved[i].key])] = <<moved[i]>> \o @]
  IN  table[Len(moved)]

\* Mutant: the old bucket keeps its chain.
MigrateBucket_KeepOld(a) ==
  LET next == a.expand_bucket + 1
  IN  [a EXCEPT
         !.primary = Pushed(a, a.old[a.expand_bucket]),
         !.expand_bucket = next,
         !.expanding = next # hashsize(a.hashpower - 1)]

\* Mutant: expand_bucket does not advance.
MigrateBucket_NoAdvance(a) ==
  [a EXCEPT
     !.primary = Pushed(a, a.old[a.expand_bucket]),
     !.old = [@ EXCEPT ![a.expand_bucket] = <<>>],
     !.expanding = a.expand_bucket + 1 # hashsize(a.hashpower - 1)]

\* One critical section of assoc_maintenance_thread while expanding.
MigrateBucket(a) ==
  LET next == a.expand_bucket + 1
  IN  [a EXCEPT
         !.primary = Pushed(a, a.old[a.expand_bucket]),
         !.old = [@ EXCEPT ![a.expand_bucket] = <<>>],
         !.expand_bucket = next,
         !.expanding = next # hashsize(a.hashpower - 1)]

-----------------------------------------------------------------------------
(***************************************************************************)
(* What the table holds.                                                   *)
(***************************************************************************)

Tables(a) == IF a.expanding THEN {"primary", "old"} ELSE {"primary"}

\* Every place of an entry: table, bucket, position in the chain.
Places(a) ==
  UNION {UNION {{t} \X {b} \X DOMAIN a[t][b] : b \in DOMAIN a[t]} : t \in Tables(a)}

At(a, p) == a[p[1]][p[2]][p[3]]

\* While expanding, an entry is in the table and the bucket where
\* which_hashtable sends a search for its key, and so is every other one.
InItsPlace(a) ==
  \A p \in Places(a) :
    LET h == Hash[At(a, p).key] IN
    IF which_hashtable(a, h)
    THEN p[1] = "old" /\ p[2] = old_bucket(a, h)
    ELSE p[1] = "primary" /\ p[2] = get_bucket(a, h)

ExpandBucketOK(a) == a.expanding => a.expand_bucket < hashsize(a.hashpower - 1)
=============================================================================
