---------------------------- MODULE SlabClasses ----------------------------
(***************************************************************************)
(* The table of slab classes that the constructor of SlabAllocator         *)
(* computes (slabs.cpp:20-35), for settings with                           *)
(*   item:          sizeof(hash_item) + chunk_size,                        *)
(*   num, den:      the growth factor num/den, and                         *)
(*   item_size_max.                                                        *)
(***************************************************************************)
EXTENDS Integers

FirstClass == 1       \* POWER_SMALLEST
POWER_LARGEST == 200
Align == 8            \* CHUNK_ALIGN_BYTES

AlignedTo8(n) == IF n % Align = 0 THEN n ELSE n + Align - (n % Align)

\* Settings with which every turn makes a longer class: a factor of at least 5/4,
\* that adds 8 bytes to the first item or more, and a size that fits 32 bits.  The
\* factor of DataCache is 1.25, for 48 bytes and a header (datacache.hpp:23-24).
Grows(s) ==
  /\ {s.item, s.num, s.den, s.item_size_max} \subseteq Nat \ {0}
  /\ 4 * s.num >= 5 * s.den
  /\ s.item * (s.num - s.den) >= Align * s.den
  /\ s.item_size_max \div 65536 < 65536

\* What the loop does to size in one turn.
NextSize(s, n) == (AlignedTo8(n) * s.num) \div s.den

\* The variable size when the loop is tested for the class i.
SizeAt(s) ==
  LET at[i \in FirstClass .. POWER_LARGEST] ==
        IF i = FirstClass THEN s.item ELSE NextSize(s, at[i - 1])
  IN at

\* Mutant: the factor is left out of the test.
LoopEnds_NoFactor(s, i) ==
  i = POWER_LARGEST \/ SizeAt(s)[i] > s.item_size_max

LoopEnds(s, i) ==
  i = POWER_LARGEST \/ SizeAt(s)[i] * s.num > s.item_size_max * s.den

\* power_largest: the first class for which the loop ends.
Largest(s) ==
  CHOOSE i \in FirstClass .. POWER_LARGEST :
    LoopEnds(s, i) /\ \A j \in FirstClass .. i - 1 : ~LoopEnds(s, j)

ClassTable(s) ==
  LET n == Largest(s)
      at == SizeAt(s)
  IN [i \in FirstClass .. n |->
        IF i = n THEN [size |-> s.item_size_max, perslab |-> 1]
        ELSE [size |-> AlignedTo8(at[i]), perslab |-> s.item_size_max \div AlignedTo8(at[i])]]

-----------------------------------------------------------------------------

(***************************************************************************)
(* The table of settings s is what the allocator takes it for: sizes grow, *)
(* so that slabs_clsid finds the tightest class; a page has a chunk, and   *)
(* is no longer than item_size_max; and the last class leaves room in the  *)
(* arrays of LRU_Lists, which have POWER_LARGEST places (lru.cpp:20).      *)
(***************************************************************************)
Fits(s) ==
  LET t == ClassTable(s)
      n == Largest(s)
  IN /\ n < POWER_LARGEST
     /\ \A i \in FirstClass .. n :
          /\ t[i].size % Align = 0 \/ i = n
          /\ t[i].perslab > 0
          /\ t[i].size * t[i].perslab <= s.item_size_max
     /\ \A i \in FirstClass .. n - 1 : t[i].size < t[i + 1].size
=============================================================================
