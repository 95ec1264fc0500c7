--------------------------- MODULE MCSlabAllocator ---------------------------
(***************************************************************************)
(* A small instance of SlabAllocator: items of 8 bytes, pages of 16 and a  *)
(* factor of 2 make two classes, with two chunks in a page and with one.   *)
(***************************************************************************)
EXTENDS SlabAllocator

MCSettings == [item |-> 8, num |-> 2, den |-> 1, item_size_max |-> 16]
MClargest == Largest(MCSettings)
\* SubSeq, so that TLC computes the table once.
MCtable == SubSeq(ClassTable(MCSettings), 1, MClargest)
MCsize == SubSeq([i \in 1 .. MClargest |-> MCtable[i].size], 1, MClargest)
MCperslab == SubSeq([i \in 1 .. MClargest |-> MCtable[i].perslab], 1, MClargest)
MCRequests == {5, 8, 12}

\* The settings of DataCache, whose items have headers of 48 bytes, those of
\* this instance, and others near to them.
MCAllSettings ==
  {MCSettings} \cup
  [item : {64, 96, 97, 104}, num : {5}, den : {4}, item_size_max : {1000, 4096, 1048576}]
    \cup [item : {56, 96}, num : {13, 20}, den : {10}, item_size_max : {1000, 65536}]
=============================================================================
