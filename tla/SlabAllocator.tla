---------------------------- MODULE SlabAllocator ----------------------------
(***************************************************************************)
(* The slab allocator as a component: slabs_alloc and slabs_free, each one *)
(* critical section of SlabAllocator::lock, called by a client that frees  *)
(* only chunks it was given.  Two history variables follow the chunks that *)
(* are no longer the allocator's: `out' maps every chunk a client holds to *)
(* the bytes it asked for, `lost' does the same for the chunks that        *)
(* do_slabs_free dropped because the free list could not grow.             *)
(***************************************************************************)
EXTENDS Slabs, SlabClasses

CONSTANTS
  Requests,        \* the request sizes that clients make
  initial_malloc,  \* mem_malloced after the constructor, which sets it only
                   \* from T_MEMD_INITIAL_MALLOC and else leaves it as it was
  AllSettings      \* settings that the constructor may be called with

ASSUME SlabAllocatorAssumption ==
  /\ Requests \subseteq Nat
  /\ initial_malloc \in Nat
  /\ \A s \in AllSettings : Grows(s)

VARIABLES slabs, out, lost

vars == <<slabs, out, lost>>

Init ==
  /\ slabs = InitSlabs(initial_malloc)
  /\ out = <<>>
  /\ lost = <<>>

With(f, c, v) == [x \in DOMAIN f \cup {c} |-> IF x = c THEN v ELSE f[x]]

slabs_alloc(bytes) ==
  LET id == slabs_clsid(bytes) IN
  /\ id # 0
  /\ \E o \in do_slabs_alloc(slabs, bytes, id) :
       /\ slabs' = o.s
       /\ out' = IF o.ret = NULL THEN out ELSE With(out, o.ret, bytes)
  /\ UNCHANGED lost

slabs_free(c) ==
  /\ \E t \in do_slabs_free(slabs, c, out[c], c[1]) :
       /\ slabs' = t
       /\ lost' = IF t = slabs THEN With(lost, c, out[c]) ELSE lost
  /\ out' = Restrict(out, DOMAIN out \ {c})

Next ==
  \/ \E bytes \in Requests : slabs_alloc(bytes)
  \/ \E c \in DOMAIN out : slabs_free(c)

Spec == Init /\ [][Next]_vars

-----------------------------------------------------------------------------

(***************************************************************************)
(* The types of the allocator's fields and of the two histories.           *)
(***************************************************************************)
TypeOK ==
  /\ slabs \in SlabState
  /\ DOMAIN out \subseteq Chunk
  /\ \A c \in DOMAIN out : out[c] \in Requests
  /\ DOMAIN lost \subseteq Chunk

(***************************************************************************)
(* The end-of-page pointer of a class (slabs.cpp:82-84, 132-133) is null   *)
(* exactly when no chunk is left in the newest page, and otherwise it is   *)
(* the first chunk of that page that was never handed out.                 *)
(***************************************************************************)
EndPageExact == EndPageOK(slabs)

(***************************************************************************)
(* No chunk is handed out twice, and none is mislaid: each chunk cut from  *)
(* a page is on the free list of its class once, or with a client, or was  *)
(* dropped by a failed free; never two of these (do_slabs_alloc,           *)
(* do_slabs_free).                                                         *)
(***************************************************************************)
ChunksPartitioned == Partitioned(slabs, DOMAIN out, DOMAIN lost)

(***************************************************************************)
(* slots[sl_curr++] and slab_list[slabs++] (slabs.cpp:114, 135) stay       *)
(* inside the arrays that realloc last sized.                              *)
(***************************************************************************)
ArraysInBounds == ArraysOK(slabs)

Started == {id \in Classes : slabs.slabclass[id].slabs > 0}

(***************************************************************************)
(* The memory limit (slabs.cpp:123-124): what has been malloced exceeds    *)
(* mem_limit, or what mem_malloced was at the start if that is more, by at *)
(* most one longest page for each class that has pages.                    *)
(***************************************************************************)
Ceiling == IF initial_malloc > mem_limit THEN initial_malloc ELSE mem_limit

MemoryBounded ==
  mem_limit # 0 =>
    slabs.mem_malloced <= Ceiling + item_size_max * Cardinality(Started)

(***************************************************************************)
(* What a client is given has room for what it asked for, and no smaller   *)
(* class has (slabs.hpp:65).                                               *)
(***************************************************************************)
TightestClass ==
  \A c \in DOMAIN out :
    /\ out[c] <= size[c[1]]
    /\ \A smaller \in Classes : smaller < c[1] => out[c] > size[smaller]

TablesFit == \A s \in AllSettings : Fits(s)

(***************************************************************************)
(* A chunk is of the first class with room for the request, and the        *)
(* constructor makes a table in which the first is the tightest, from any  *)
(* settings (slabs.cpp:20-35).                                             *)
(***************************************************************************)
ClassesFit == TablesFit /\ TightestClass

(***************************************************************************)
(* requested (slabs.cpp:88, 115) is the number of bytes that clients hold  *)
(* in the class, plus those of the chunks a failed free dropped.           *)
(***************************************************************************)
RequestedExact ==
  \A id \in Classes :
    slabs.slabclass[id].requested =
      SumFunctionOnSet(out, {c \in DOMAIN out : c[1] = id}) +
      SumFunctionOnSet(lost, {c \in DOMAIN lost : c[1] = id})
=============================================================================
