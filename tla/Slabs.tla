------------------------------- MODULE Slabs -------------------------------
(***************************************************************************)
(* The slab allocator of src/src/cache/slabs.{hpp,cpp} as operators on the *)
(* value of one SlabAllocator object.  Every function of the class is an   *)
(* operator from the object's fields before the call to the SET of its     *)
(* possible outcomes; the set has more than one element only where the     *)
(* heap may refuse a malloc or a realloc.  Module SlabAllocator wraps them *)
(* in a state machine of their own; module LRULists calls them from the    *)
(* cache, inside the cache's critical sections.                            *)
(*                                                                         *)
(* A chunk is named by its slab class, its page (the how-manieth slab of   *)
(* the class) and its place in the page, in place of its address.          *)
(***************************************************************************)
EXTENDS Integers, Sequences, FiniteSets, Functions

CONSTANTS
  power_largest,  \* the largest slab class
  size,           \* slabclass[i].size: bytes of a chunk of class i
  perslab,        \* slabclass[i].perslab: chunks in a page of class i
  item_size_max,  \* settings.item_size_max: no page is longer
  mem_limit,      \* settings.maxbytes; 0 means no limit
  preallocate,    \* settings.preallocate: pages come from one big arena
  ArraySeed,      \* first capacity of slots and slab_list (16 in the code)
  HeapFails,      \* which answers to "does malloc/realloc fail?" occur
  NULL

POWER_SMALLEST == 1
CHUNK_ALIGN_BYTES == 8

Classes == POWER_SMALLEST .. power_largest

PageLen(id) == size[id] * perslab[id]

Chunk == Classes \X (Nat \ {0}) \X (Nat \ {0})

ASSUME SlabsAssumption ==
  /\ power_largest \in Nat \ {0}
  /\ size \in [Classes -> Nat \ {0}]
  /\ perslab \in [Classes -> Nat \ {0}]
  /\ item_size_max \in Nat \ {0}
  /\ \A id \in Classes : PageLen(id) \in 1 .. item_size_max
  /\ mem_limit \in Nat
  /\ preallocate \in BOOLEAN
  /\ ArraySeed \in Nat \ {0}
  /\ HeapFails \in (SUBSET BOOLEAN) \ {{}}
  /\ NULL \notin Chunk

(***************************************************************************)
(* slabclass_t, with slots[0 .. sl_curr - 1] as a sequence (sl_curr is its *)
(* length), and the scalar fields of SlabAllocator.  size and perslab      *)
(* never change after the constructor and are constants here.              *)
(***************************************************************************)
SlabClass ==
  [slots : Seq(Chunk), sl_total : Nat,
   end_page_ptr : Chunk \cup {NULL}, end_page_free : Nat,
   slabs : Nat, list_size : Nat, requested : Int]

SlabState ==
  [slabclass : [Classes -> SlabClass],
   mem_malloced : Nat, mem_current : Nat, mem_avail : Nat]

\* The constructor: every slab class is zeroed, mem_malloced starts as given.
InitSlabs(malloced) ==
  [slabclass |-> [id \in Classes |->
     [slots |-> <<>>, sl_total |-> 0, end_page_ptr |-> NULL,
      end_page_free |-> 0, slabs |-> 0, list_size |-> 0, requested |-> 0]],
   mem_malloced |-> malloced,
   mem_current |-> 0,
   mem_avail |-> IF preallocate THEN mem_limit ELSE 0]

-----------------------------------------------------------------------------

\* slabs_clsid: the first class whose chunks are large enough, 0 for none.
slabs_clsid(bytes) ==
  IF bytes = 0 \/ bytes > size[power_largest]
  THEN 0
  ELSE CHOOSE id \in Classes :
         bytes <= size[id] /\ \A smaller \in Classes :
                                smaller < id => bytes > size[smaller]

\* How the two arrays grow: from nothing to ArraySeed, then by doubling.
Grown(n) == IF n = 0 THEN ArraySeed ELSE 2 * n

\* A length rounded up to the alignment.
Aligned(n) ==
  IF n % CHUNK_ALIGN_BYTES = 0
  THEN n ELSE n + CHUNK_ALIGN_BYTES - (n % CHUNK_ALIGN_BYTES)

\* grow_slab_list for the class p: make room for one more page pointer.
grow_slab_list(p) ==
  IF p.slabs = p.list_size
  THEN {IF fails THEN [ok |-> FALSE, p |-> p]
                 ELSE [ok |-> TRUE, p |-> [p EXCEPT !.list_size = Grown(@)]]
          : fails \in HeapFails}
  ELSE {[ok |-> TRUE, p |-> p]}

(***************************************************************************)
(* memory_allocate: from malloc, or from the arena.  The arena's last line *)
(* subtracts nothing when the page takes all that is left.                 *)
(***************************************************************************)
memory_allocate(s, len) ==
  IF ~preallocate
  THEN {[ok |-> ~fails, s |-> s] : fails \in HeapFails}
  ELSE IF len > s.mem_avail
  THEN {[ok |-> FALSE, s |-> s]}
  ELSE LET n == Aligned(len) IN
       {[ok |-> TRUE,
         s |-> [s EXCEPT !.mem_current = @ + n,
                         !.mem_avail = @ - (IF n < @ THEN n ELSE 0)]]}

\* The object with the fields of one slab class replaced.
SetClass(s, id, p) == [s EXCEPT !.slabclass = [@ EXCEPT ![id] = p]]

\* The new page of a class: the end-of-page pointers, slab_list, mem_malloced.
AddPage(s, id) ==
  LET p == s.slabclass[id]
      t == SetClass(s, id,
             [p EXCEPT !.end_page_ptr = <<id, p.slabs + 1, 1>>,
                       !.end_page_free = perslab[id],
                       !.slabs = p.slabs + 1])
  IN  [t EXCEPT !.mem_malloced = @ + PageLen(id)]

\* Mutant: the memory limit is forgotten.
do_slabs_newslab_Unlimited(s, id) ==
  UNION {IF ~g.ok THEN {[ok |-> FALSE, s |-> s]}
         ELSE {[ok |-> a.ok, s |-> IF a.ok THEN AddPage(a.s, id) ELSE a.s]
                 : a \in memory_allocate(SetClass(s, id, g.p), PageLen(id))}
           : g \in grow_slab_list(s.slabclass[id])}

\* do_slabs_newslab: the limit is not applied to the first page of a class.
do_slabs_newslab(s, id) ==
  IF /\ mem_limit # 0
     /\ s.mem_malloced + PageLen(id) > mem_limit
     /\ s.slabclass[id].slabs > 0
  THEN {[ok |-> FALSE, s |-> s]}
  ELSE UNION {IF ~g.ok THEN {[ok |-> FALSE, s |-> s]}
              ELSE {[ok |-> a.ok, s |-> IF a.ok THEN AddPage(a.s, id) ELSE a.s]
                      : a \in memory_allocate(SetClass(s, id, g.p), PageLen(id))}
                : g \in grow_slab_list(s.slabclass[id])}

\* Mutant: the chunk is read from the free list and stays there.
FromFreeList_NoPop(s, bytes, id) ==
  LET p == s.slabclass[id] IN
  [ret |-> p.slots[Len(p.slots)],
   s |-> SetClass(s, id, [p EXCEPT !.requested = p.requested + bytes])]

\* The first branch that hands out a chunk: pop the free list.
FromFreeList(s, bytes, id) ==
  LET p == s.slabclass[id] IN
  [ret |-> p.slots[Len(p.slots)],
   s |-> SetClass(s, id,
           [p EXCEPT !.slots = SubSeq(p.slots, 1, Len(p.slots) - 1),
                     !.requested = p.requested + bytes])]

\* Mutant: end_page_free-- in place of --end_page_free in the test.
FromPageEnd_PostDecrement(s, bytes, id) ==
  LET p == s.slabclass[id]
      next == <<id, p.end_page_ptr[2], p.end_page_ptr[3] + 1>>
  IN  [ret |-> p.end_page_ptr,
       s |-> SetClass(s, id,
               [p EXCEPT !.end_page_free = p.end_page_free - 1,
                         !.end_page_ptr = IF p.end_page_free # 0 THEN next ELSE NULL,
                         !.requested = p.requested + bytes])]

\* The second one: cut the next chunk off the end of the newest page.
FromPageEnd(s, bytes, id) ==
  LET p == s.slabclass[id]
      next == <<id, p.end_page_ptr[2], p.end_page_ptr[3] + 1>>
  IN  [ret |-> p.end_page_ptr,
       s |-> SetClass(s, id,
               [p EXCEPT !.end_page_free = p.end_page_free - 1,
                         !.end_page_ptr =
                            IF p.end_page_free - 1 # 0 THEN next ELSE NULL,
                         !.requested = p.requested + bytes])]

do_slabs_alloc(s, bytes, id) ==
  IF id \notin Classes
  THEN {[ret |-> NULL, s |-> s]}
  ELSE LET p == s.slabclass[id] IN
       IF p.slots # <<>>
       THEN {FromFreeList(s, bytes, id)}
       ELSE IF p.end_page_ptr # NULL
       THEN {FromPageEnd(s, bytes, id)}
       ELSE {IF n.ok THEN FromPageEnd(n.s, bytes, id)
                     ELSE [ret |-> NULL, s |-> n.s]
               : n \in do_slabs_newslab(s, id)}

\* Mutant: the free list is grown one chunk too late.
do_slabs_free_LateGrowth(s, ptr, bytes, id) ==
  LET p == s.slabclass[id]
      Push(total) ==
        SetClass(s, id, [p EXCEPT !.slots = Append(p.slots, ptr),
                                  !.sl_total = total,
                                  !.requested = p.requested - bytes])
  IN  IF Len(p.slots) > p.sl_total
      THEN {IF fails THEN s ELSE Push(Grown(p.sl_total)) : fails \in HeapFails}
      ELSE {Push(p.sl_total)}

\* Mutant: requested is not given back.
do_slabs_free_KeepRequested(s, ptr, bytes, id) ==
  LET p == s.slabclass[id]
      Push(total) ==
        SetClass(s, id, [p EXCEPT !.slots = Append(p.slots, ptr),
                                  !.sl_total = total])
  IN  IF Len(p.slots) = p.sl_total
      THEN {IF fails THEN s ELSE Push(Grown(p.sl_total)) : fails \in HeapFails}
      ELSE {Push(p.sl_total)}

(***************************************************************************)
(* do_slabs_free: a class out of range is ignored; when the free list is   *)
(* full and cannot grow the chunk is dropped, and stays accounted for in   *)
(* requested.                                                              *)
(***************************************************************************)
do_slabs_free(s, ptr, bytes, id) ==
  LET p == s.slabclass[id]
      Push(total) ==
        SetClass(s, id, [p EXCEPT !.slots = Append(p.slots, ptr),
                                  !.sl_total = total,
                                  !.requested = p.requested - bytes])
  IN  IF id \notin Classes THEN {s}
      ELSE IF Len(p.slots) = p.sl_total
      THEN {IF fails THEN s ELSE Push(Grown(p.sl_total)) : fails \in HeapFails}
      ELSE {Push(p.sl_total)}

-----------------------------------------------------------------------------
(***************************************************************************)
(* What the allocator's data structures mean, for any set `given' of       *)
(* chunks that clients hold and any set `dropped' of lost ones.            *)
(***************************************************************************)

\* The chunks cut from the pages of class id so far: all of every page but
\* the last end_page_free chunks of the newest one.
Carved(s, id) ==
  LET p == s.slabclass[id] IN
  {c \in {id} \X (1 .. p.slabs) \X (1 .. perslab[id]) :
     c[2] = p.slabs => c[3] <= perslab[id] - p.end_page_free}

\* The end-of-page pointer is the next chunk to cut from the newest page.
EndPageOK(s) ==
  \A id \in Classes :
    LET p == s.slabclass[id] IN
    /\ p.end_page_free <= perslab[id]
    /\ p.slabs = 0 => p.end_page_free = 0
    /\ p.end_page_ptr =
         IF p.end_page_free = 0 THEN NULL
         ELSE <<id, p.slabs, perslab[id] - p.end_page_free + 1>>

\* slots and slab_list hold no more than the arrays were last sized for.
ArraysOK(s) ==
  \A id \in Classes :
    /\ Len(s.slabclass[id].slots) <= s.slabclass[id].sl_total
    /\ s.slabclass[id].slabs <= s.slabclass[id].list_size

\* Every chunk cut from a page is in exactly one place, and there once.
Partitioned(s, given, dropped) ==
  /\ given \cap dropped = {}
  /\ \A id \in Classes :
       LET free == Range(s.slabclass[id].slots)
           away == {c \in given \cup dropped : c[1] = id}
       IN  /\ Carved(s, id) = free \cup away
           /\ free \cap away = {}
           /\ IsInjective(s.slabclass[id].slots)
=============================================================================
