------------------------------- MODULE KeyMap -------------------------------
(***************************************************************************)
(* What a hash table is for: a partial map from keys to items, that binds  *)
(* one unbound key or unbinds one bound key at a time.                     *)
(***************************************************************************)
CONSTANTS Keys, Items, NULL

VARIABLE map

Init == map = [k \in Keys |-> NULL]

Bind(k, it) ==
  /\ map[k] = NULL
  /\ map' = [map EXCEPT ![k] = it]

Unbind(k) ==
  /\ map[k] # NULL
  /\ map' = [map EXCEPT ![k] = NULL]

Next ==
  \/ \E k \in Keys, it \in Items : Bind(k, it)
  \/ \E k \in Keys : Unbind(k)

Spec == Init /\ [][Next]_map
=============================================================================
