----------------------------- MODULE ItemQueues -----------------------------
(***************************************************************************)
(* The queues of LRU_Lists as the code has them: heads and tails of each   *)
(* class, and prev and next in every item (lru.cpp:17-63).  LRULists has a *)
(* sequence of items in place of each; what the two functions make of the  *)
(* pointers represents what those of LRULists make of the sequences        *)
(* (LinkedQueues in LRUListsProofs).                                       *)
(***************************************************************************)
EXTENDS Integers, Sequences

CONSTANT NULL

Links(Ids, Items) ==
  [heads : [Ids -> Items \cup {NULL}], tails : [Ids -> Items \cup {NULL}],
   prev : [Items -> Items \cup {NULL}], next : [Items -> Items \cup {NULL}]]

\* if (p) p->f = v
Write(f, p, v) == IF p = NULL THEN f ELSE [f EXCEPT ![p] = v]

LinkAsserts(d, id, x) ==
  x # d.heads[id] /\ (d.heads[id] = NULL <=> d.tails[id] = NULL)

item_link_q(d, id, x) ==
  LET head == d.heads[id] IN
  [heads |-> [d.heads EXCEPT ![id] = x],
   tails |-> IF d.tails[id] = NULL THEN [d.tails EXCEPT ![id] = x] ELSE d.tails,
   prev  |-> Write([d.prev EXCEPT ![x] = NULL], head, x),
   next  |-> [d.next EXCEPT ![x] = head]]

UnlinkAsserts(d, id, x) ==
  /\ d.heads[id] = x => d.prev[x] = NULL
  /\ d.tails[id] = x => d.next[x] = NULL
  /\ x \notin {d.next[x], d.prev[x]}

item_unlink_q(d, id, x) ==
  LET prev == d.prev[x]
      next == d.next[x]
  IN [heads |-> IF d.heads[id] = x THEN [d.heads EXCEPT ![id] = next] ELSE d.heads,
      tails |-> IF d.tails[id] = x THEN [d.tails EXCEPT ![id] = prev] ELSE d.tails,
      prev  |-> Write(d.prev, next, prev),
      next  |-> Write(d.next, prev, next)]

item_alloc_q(d, x) == [d EXCEPT !.prev[x] = NULL, !.next[x] = NULL]

\* What is behind the tail and before the head is NULL.
At(q, i) == IF i \in 1 .. Len(q) THEN q[i] ELSE NULL

\* Head and tail of a class and the pointers between them are those of q; the
\* pointers of items in no queue may be anything.
Represents(d, lru) ==
  \A id \in DOMAIN lru :
    LET q == lru[id] IN
    /\ d.heads[id] = At(q, 1) /\ d.tails[id] = At(q, Len(q))
    /\ \A i \in 1 .. Len(q) :
         d.prev[q[i]] = At(q, i - 1) /\ d.next[q[i]] = At(q, i + 1)
=============================================================================
