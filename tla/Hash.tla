-------------------------------- MODULE Hash --------------------------------
(***************************************************************************)
(* The hash function of src/src/cache/hash.{c,h}, as a state machine that  *)
(* takes one block of 12 bytes a step.  It reads a key by words, halves or *)
(* bytes, depending on the address, and it depends on the key only: the    *)
(* cache hashes the same key in a request and in an item, at addresses     *)
(* that need not be aligned alike.                                         *)
(*                                                                         *)
(* A uint32_t is a pair of 16-bit halves, the high one first.  The machine *)
(* is little-endian, as the code of the first #if is for.                  *)
(***************************************************************************)
EXTENDS Integers

CONSTANTS
  Memories,   \* functions from addresses to bytes
  Addresses,  \* where a key may be
  MaxLength,  \* bound: the longest key
  initval

ASSUME HashAssumption ==
  /\ Addresses \subseteq Nat /\ MaxLength \in Nat /\ initval \in Nat
  /\ \A m \in Memories, p \in Addresses :
       \A i \in 0 .. MaxLength + 2 : m[p + i] \in 0 .. 255   \* the last word, too

VARIABLES mem, key, nkey, pc, k, length, abc

vars == <<mem, key, nkey, pc, k, length, abc>>

Half == 65536

Plus(x, y) ==
  <<(x[1] + y[1] + ((x[2] + y[2]) \div Half)) % Half, (x[2] + y[2]) % Half>>

Minus(x, y) ==
  <<(x[1] - y[1] - (IF x[2] < y[2] THEN 1 ELSE 0)) % Half, (x[2] - y[2]) % Half>>

\* ^ of two bits, and of numbers of n bits by their halves: nothing can be proved
\* from the recursion of Bitwise.
Xor1(x, y) == (x + y) % 2
Xor2(x, y) == 2 * Xor1(x \div 2, y \div 2) + Xor1(x % 2, y % 2)
Xor4(x, y) == 4 * Xor2(x \div 4, y \div 4) + Xor2(x % 4, y % 4)
Xor8(x, y) == 16 * Xor4(x \div 16, y \div 16) + Xor4(x % 16, y % 16)
Xor16(x, y) == 256 * Xor8(x \div 256, y \div 256) + Xor8(x % 256, y % 256)

Xor32(x, y) == <<Xor16(x[1], y[1]), Xor16(x[2], y[2])>>

\* x << n, n < 16, with the bits of y coming in from the right.
ShiftIn(x, y, n) == ((x * 2^n) % Half) + (y \div 2^(16 - n))

rot(x, n) ==
  IF n < 16 THEN <<ShiftIn(x[1], x[2], n), ShiftIn(x[2], x[1], n)>>
  ELSE <<ShiftIn(x[2], x[1], n - 16), ShiftIn(x[1], x[2], n - 16)>>

-----------------------------------------------------------------------------
(* hash.h *)

\* Mutant: the variable is combined with itself.
Round_Self(xyz, n) ==
  LET x == xyz[1]  y == xyz[2]  z == xyz[3]
  IN <<y, Plus(z, y), Xor32(Minus(x, z), rot(Minus(x, z), n))>>

\* A line of mix, x -= z; x ^= rot(z,n); z += y, with the variables of the next.
Round(xyz, n) ==
  LET x == xyz[1]  y == xyz[2]  z == xyz[3]
  IN <<y, Plus(z, y), Xor32(Minus(x, z), rot(z, n))>>

Rounds(xyz, l, m, n) == Round(Round(Round(xyz, l), m), n)

mix(s) == Rounds(Rounds(s, 4, 6, 8), 16, 19, 4)

\* A line of finalmix, x ^= y; x -= rot(y,n), with the variables of the next.
FinalRound(xyz, n) ==
  LET x == xyz[1]  y == xyz[2]  z == xyz[3]
  IN <<z, Minus(Xor32(x, y), rot(y, n)), y>>

FinalRounds(xyz, l, m, n) == FinalRound(FinalRound(FinalRound(xyz, l), m), n)

\* What c is after it.
finalmix(s) ==
  FinalRound(FinalRounds(FinalRounds(<<s[3], s[2], s[1]>>, 14, 11, 25), 16, 4, 14), 24)[2]

-----------------------------------------------------------------------------
(* What the three cases add to a, b and c for the n <= 12 bytes at p. *)

uint16(p) == mem[p] + 256 * mem[p + 1]

LowBytes(x, n) ==
  CASE n = 1 -> <<0, x[2] % 256>>
    [] n = 2 -> <<0, x[2]>>
    [] n = 3 -> <<x[1] % 256, x[2]>>
    [] OTHER -> x

\* An aligned word is read whole and masked.
Word(p, n) == IF n <= 0 THEN <<0, 0>> ELSE LowBytes(<<uint16(p + 2), uint16(p)>>, n)

\* Mutant: k8[2], k8[6] and k8[10] are not shifted.
Halves_NoShift(p, n) ==
  CASE n <= 0 -> <<0, 0>>
    [] n = 1 -> <<0, mem[p]>>
    [] n = 2 -> <<0, uint16(p)>>
    [] n = 3 -> Plus(<<0, mem[p + 2]>>, <<0, uint16(p)>>)
    [] OTHER -> <<uint16(p + 2), uint16(p)>>

Halves(p, n) ==
  CASE n <= 0 -> <<0, 0>>
    [] n = 1 -> <<0, mem[p]>>
    [] n = 2 -> <<0, uint16(p)>>
    [] n = 3 -> <<mem[p + 2], uint16(p)>>
    [] OTHER -> <<uint16(p + 2), uint16(p)>>

\* The cases fall through: the bytes up to the n-th.
Bytes(p, n) ==
  LET byte(i) == IF i < n THEN mem[p + i] ELSE 0
  IN Plus(Plus(<<0, byte(0)>>, <<0, 256 * byte(1)>>),
          Plus(<<byte(2), 0>>, <<256 * byte(3), 0>>))

Block(p, n) ==
  [i \in 1 .. 3 |->
     LET q == p + 4 * (i - 1)
         m == n - 4 * (i - 1)
     IN CASE key % 4 = 0 -> Word(q, m)
          [] key % 4 = 2 -> Halves(q, m)
          [] OTHER       -> Bytes(q, m)]

Add(s, ws) == <<Plus(s[1], ws[1]), Plus(s[2], ws[2]), Plus(s[3], ws[3])>>

\* 0xdeadbeef + length + initval
Start == LET x == Plus(Plus(<<57005, 48879>>, <<0, nkey>>), <<0, initval>>)
         IN <<x, x, x>>

-----------------------------------------------------------------------------

Init ==
  /\ mem \in Memories /\ key \in Addresses /\ nkey \in 0 .. MaxLength
  /\ pc = "loop" /\ k = key /\ length = nkey
  /\ abc = Start

loop ==
  /\ pc = "loop" /\ length > 12
  /\ abc' = mix(Add(abc, Block(k, 12)))
  /\ length' = length - 12
  /\ k' = k + 12
  /\ UNCHANGED <<mem, key, nkey, pc>>

last_block ==
  /\ pc = "loop" /\ length <= 12
  /\ abc' = IF length = 0 THEN abc
            ELSE <<abc[1], abc[2], finalmix(Add(abc, Block(k, length)))>>
  /\ pc' = "return"
  /\ UNCHANGED <<mem, key, nkey, k, length>>

Next == loop \/ last_block

Spec == Init /\ [][Next]_vars

-----------------------------------------------------------------------------

\* The key as words: byte after byte, zeros behind it.
KeyWord(j) ==
  LET byte(i) == IF i < nkey THEN mem[key + i] ELSE 0
  IN <<256 * byte(4 * j + 3) + byte(4 * j + 2), 256 * byte(4 * j + 1) + byte(4 * j)>>

KeyBlock(j) == <<KeyWord(3 * j), KeyWord(3 * j + 1), KeyWord(3 * j + 2)>>

Blocks == (nkey + 11) \div 12

\* a, b and c after j blocks.
Mixed ==
  LET s[j \in 0 .. Blocks] ==
        IF j = 0 THEN Start ELSE mix(Add(s[j - 1], KeyBlock(j - 1)))
  IN s

KeyHash ==
  IF nkey = 0 THEN Start[3]
  ELSE finalmix(Add(Mixed[Blocks - 1], KeyBlock(Blocks - 1)))

(***************************************************************************)
(* The hash of a key does not depend on where the key is, nor on what is   *)
(* behind it in the words that are read whole (hash.c:17-119).             *)
(***************************************************************************)
HashOfTheKey == pc = "return" => abc[3] = KeyHash

UndoRound(xyz, n) ==
  LET y == xyz[1]  z == Minus(xyz[2], y)  x == xyz[3]
  IN <<Plus(Xor32(x, rot(z, n)), z), y, z>>

UndoRounds(xyz, l, m, n) == UndoRound(UndoRound(UndoRound(xyz, n), m), l)

Unmix(s) == UndoRounds(UndoRounds(s, 16, 19, 4), 4, 6, 8)

(***************************************************************************)
(* "any information in (a,b,c) before mix() is still in (a,b,c) after      *)
(* mix()" (hash.h:12): the lines of mix can be undone, last first.         *)
(***************************************************************************)
MixIsReversible == Unmix(mix(abc)) = abc
=============================================================================
