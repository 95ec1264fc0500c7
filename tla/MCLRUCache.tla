----------------------------- MODULE MCLRUCache -----------------------------
(***************************************************************************)
(* A small instance of LRUCache: two clients, and one slab class with one  *)
(* page of three chunks.                                                   *)
(***************************************************************************)
EXTENDS LRUCache, TLC

MCsize == <<8>>
MCperslab == <<3>>

\* All keys are in one bucket, so that they are interchangeable.
MCHash == [k \in Keys |-> 0]
MCSameBytes == {<<k, k>> : k \in Keys}
MCSymmetry == Permutations(Clients) \cup Permutations(Keys)

\* What nothing reads before it is overwritten: the time of an item that is not
\* linked, and the key of a free chunk.
MCView ==
  <<[cache EXCEPT !.mem =
       [x \in DOMAIN @ |->
          [@[x] EXCEPT !.time = IF IsLinked(cache, x) THEN @ ELSE 0,
                       !.key = IF SLABBED \in cache.mem[x].iflag THEN NULL ELSE @]]],
    now, held>>

(***************************************************************************)
(* The pointers of the code's queues and the sequences of LRULists, from   *)
(* the empty queues of two classes, through every six calls of item_link_q *)
(* and item_unlink_q for three items; LRUListsProofs prove it of all.  The *)
(* pointers of items in no queue are garbage, at first of two kinds.       *)
(***************************************************************************)
Queues == INSTANCE ItemQueues

MCEmptyQueues ==
  {[lru |-> [id \in 0 .. 1 |-> <<>>],
    d |-> [heads |-> [id \in 0 .. 1 |-> NULL], tails |-> [id \in 0 .. 1 |-> NULL],
           prev |-> [x \in 1 .. 3 |-> y], next |-> [x \in 1 .. 3 |-> y]]] : y \in {NULL, 2}}

MCQueuesAfter(p) ==
  {[lru |-> [p.lru EXCEPT ![id] = <<x>> \o @], d |-> Queues!item_link_q(p.d, id, x)] :
     id \in 0 .. 1, x \in {y \in 1 .. 3 : \A jd \in 0 .. 1 : y \notin Range(p.lru[jd])}}
  \cup UNION
  {{[lru |-> [p.lru EXCEPT ![id] = RemoveFirst(@, x)], d |-> Queues!item_unlink_q(p.d, id, x)] :
     x \in Range(p.lru[id])} : id \in 0 .. 1}

MCQueues[n \in 0 .. 6] ==
  IF n = 0 THEN MCEmptyQueues ELSE UNION {MCQueuesAfter(p) : p \in MCQueues[n - 1]}

ASSUME PointersRepresent ==
  \A n \in 0 .. 6 : \A p \in MCQueues[n] : Queues!Represents(p.d, p.lru)
=============================================================================
