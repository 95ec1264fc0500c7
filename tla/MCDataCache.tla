---------------------------- MODULE MCDataCache ----------------------------
(***************************************************************************)
(* Small instances of DataCache: two threads, one slab class.              *)
(***************************************************************************)
EXTENDS DataCache, TLC

MCsize == <<8>>
MCperslab == <<2>>
MCKeys == {1, 2}
MCHash == <<0, 1>>
MCSameBytes == {<<k, k>> : k \in MCKeys}
MCThreads == Permutations(Threads)
=============================================================================
