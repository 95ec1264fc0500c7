------------------------------ MODULE Executor ------------------------------
(***************************************************************************)
(* What a thread pool promises: jobs are begun in the order in which they  *)
(* were submitted, each by one worker; at most Capacity of them are there  *)
(* at a time, and none is begun after the pool has stopped.                *)
(***************************************************************************)
EXTENDS Integers, Sequences, FiniteSets

CONSTANTS Workers, Jobs, Capacity, NULL

VARIABLES pending, running, stopped

Init ==
  /\ pending = <<>>
  /\ running = [w \in Workers |-> NULL]
  /\ stopped = FALSE

Busy == {w \in Workers : running[w] # NULL}

Submit(j) ==
  /\ ~stopped
  /\ Len(pending) + Cardinality(Busy) < Capacity
  /\ pending' = Append(pending, j)
  /\ UNCHANGED <<running, stopped>>

Begin(w) ==
  /\ ~stopped
  /\ running[w] = NULL
  /\ pending # <<>>
  /\ running' = [running EXCEPT ![w] = Head(pending)]
  /\ pending' = Tail(pending)
  /\ UNCHANGED stopped

End(w) ==
  /\ running[w] # NULL
  /\ running' = [running EXCEPT ![w] = NULL]
  /\ UNCHANGED <<pending, stopped>>

Stop ==
  /\ ~stopped
  /\ stopped' = TRUE
  /\ UNCHANGED <<pending, running>>

Next ==
  \/ \E j \in Jobs : Submit(j)
  \/ \E w \in Workers : Begin(w) \/ End(w)
  \/ Stop

Spec == Init /\ [][Next]_<<pending, running, stopped>>
=============================================================================
