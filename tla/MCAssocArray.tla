---------------------------- MODULE MCAssocArray ----------------------------
(***************************************************************************)
(* Small instances of AssocArray: a table that starts with one bucket, so  *)
(* that two items expand it and four expand it again.                      *)
(***************************************************************************)
EXTENDS AssocArray

MCKeys == 1 .. 4

\* Keys 1 and 3 collide in every table; 2 and 4 part company at four buckets.
MCHash == <<1, 0, 1, 2>>

MCSameBytes == {<<k, k>> : k \in MCKeys}

\* Key 1 is a prefix of key 3, which has the same hash.
MCPrefix == MCSameBytes \cup {<<1, 3>>}

MCItems == 11 .. 14
=============================================================================
