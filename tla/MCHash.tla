------------------------------- MODULE MCHash -------------------------------
(***************************************************************************)
(* Keys of every length up to two blocks and a bit, at addresses of every  *)
(* alignment, in two memories: bytes of all sizes, and all ones.           *)
(***************************************************************************)
EXTENDS Hash, Bitwise

MCMemories == {[i \in 0 .. 47 |-> (i * 89 + 57) % 256], [i \in 0 .. 47 |-> 255]}
MCAddresses == 4 .. 7

\* Xor16 is the operator ^ of C.
ASSUME XorIsXor ==
  /\ \A x, y \in 0 .. 15 : Xor4(x, y) = x ^^ y
  /\ \A x, y \in {(i * 8947 + 57) % Half : i \in 0 .. 30} : Xor16(x, y) = x ^^ y
=============================================================================
