------------------------------ MODULE LossyMap ------------------------------
(***************************************************************************)
(* What DataCache promises to threads that share it: a map that may forget *)
(* a key, but only while a store looks for memory, and whose operations    *)
(* take effect at one instant between their call and their return.  A      *)
(* delete is also served when its key is unbound or rebound by another     *)
(* operation between its call and its return.                              *)
(***************************************************************************)
CONSTANTS Threads, Keys, Vals, NULL

VARIABLES
  map,    \* the value of every key, or NULL
  calls,  \* the call of every thread
  ret     \* what the last get of every thread returned, NULL for a miss

vars == <<map, calls, ret>>

Idle == [op |-> "idle", key |-> NULL, val |-> NULL]

Call(op, k, v) == [op |-> op, key |-> k, val |-> v]

Init ==
  /\ map = [k \in Keys |-> NULL]
  /\ calls = [t \in Threads |-> Idle]
  /\ ret = [t \in Threads |-> NULL]

\* The deletes waiting for one of the keys K: any of them may be served when
\* these keys are unbound or rebound.
Waiting(K) == {t \in Threads : calls[t].op = "delete" /\ calls[t].key \in K}

Serve(c, S) == [t \in Threads |-> IF t \in S THEN [c[t] EXCEPT !.op = "deleted"]
                                            ELSE c[t]]

Get(t, k) ==
  /\ calls[t] = Idle
  /\ IF map[k] = NULL
     THEN ret' = [ret EXCEPT ![t] = NULL] /\ UNCHANGED calls
     ELSE calls' = [calls EXCEPT ![t] = Call("get", k, map[k])] /\ UNCHANGED ret
  /\ UNCHANGED map

GetReturn(t) ==
  /\ calls[t].op = "get"
  /\ ret' = [ret EXCEPT ![t] = calls[t].val]
  /\ calls' = [calls EXCEPT ![t] = Idle]
  /\ UNCHANGED map

\* A store begins by looking for memory: it may forget keys, and it may fail.
Store(t, k, v) ==
  /\ calls[t] = Idle
  /\ \E K \in SUBSET Keys, S \in SUBSET Waiting(Keys) :
       /\ S \subseteq Waiting(K)
       /\ map' = [x \in Keys |-> IF x \in K THEN NULL ELSE map[x]]
       /\ \/ calls' = Serve([calls EXCEPT ![t] = Call("store", k, v)], S)
          \/ calls' = Serve(calls, S)
  /\ UNCHANGED ret

StoreTakesEffect(t) ==
  /\ calls[t].op = "store"
  /\ map' = [map EXCEPT ![calls[t].key] = calls[t].val]
  /\ \E S \in SUBSET Waiting({calls[t].key}) :
       calls' = Serve([calls EXCEPT ![t] = Idle], S)
  /\ UNCHANGED ret

Delete(t, k) ==
  /\ calls[t] = Idle
  /\ map[k] # NULL
  /\ calls' = [calls EXCEPT ![t] = Call("delete", k, NULL)]
  /\ UNCHANGED <<map, ret>>

DeleteTakesEffect(t) ==
  /\ calls[t].op = "delete"
  /\ map' = [map EXCEPT ![calls[t].key] = NULL]
  /\ \E S \in SUBSET Waiting({calls[t].key}) : calls' = Serve(calls, S \cup {t})
  /\ UNCHANGED ret

DeleteReturn(t) ==
  /\ calls[t].op = "deleted"
  /\ calls' = [calls EXCEPT ![t] = Idle]
  /\ UNCHANGED <<map, ret>>

Next ==
  \E t \in Threads :
    \/ \E k \in Keys : Get(t, k) \/ Delete(t, k)
    \/ \E k \in Keys, v \in Vals : Store(t, k, v)
    \/ GetReturn(t)
    \/ StoreTakesEffect(t)
    \/ DeleteTakesEffect(t)
    \/ DeleteReturn(t)

Spec == Init /\ [][Next]_vars
=============================================================================
