----------------------------- MODULE Arithmetic -----------------------------
(***************************************************************************)
(* The double-word division of lib/arithmetic.c, on words of W bits (32 in *)
(* the code): operands have 2 * W bits and the machine divides a double    *)
(* word by a word.  W is a power of 2, as nlz needs.                       *)
(***************************************************************************)
EXTENDS Integers

CONSTANT W

Word == 2 ^ W
DWord == 2 ^ (2 * W)

(* The value of a signed variable of the given size that holds the bits x. *)
Signed(x, size) ==
  LET r == x % size IN IF r >= size \div 2 THEN r - size ELSE r

(* divl traps when the quotient does not fit in a word. *)
TRAP == -1
divl(n, d) == IF d # 0 /\ n \div d < Word THEN n \div d ELSE TRAP

(* nlz, for a step of k bits and the smaller ones: k is W/2, W/4, ..., 1. *)
RECURSIVE LeadingZeros(_, _)
LeadingZeros(x, k) ==
  IF k = 0 THEN 0
  ELSE IF x < 2 ^ (W - k) THEN k + LeadingZeros((x * 2 ^ k) % Word, k \div 2)
  ELSE LeadingZeros(x, k \div 2)
nlz(x) == LeadingZeros(x, W \div 2)

DivUncorrected(n, d) ==
  IF d \div Word = 0 THEN n \div d
  ELSE IF n < d THEN 0
  ELSE LET s == nlz(d \div Word)
       IN divl(n \div 2, ((d * 2 ^ s) % DWord) \div Word) \div 2 ^ (W - 1 - s)
udiv64(n, d) ==
  IF d \div Word = 0
  THEN LET n1 == n \div Word
           n0 == n % Word
           q == divl(Word * (n1 % d) + n0, d)
       IN IF q = TRAP THEN TRAP ELSE (q + Word * (n1 \div d)) % DWord
  ELSE IF n < d THEN 0
  ELSE LET s == nlz(d \div Word)
           e == divl(n \div 2, ((d * 2 ^ s) % DWord) \div Word)
           q == e \div 2 ^ (W - 1 - s)
       IN IF e = TRAP THEN TRAP
          ELSE IF (n - (q - 1) * d) % DWord < d THEN q - 1 ELSE q

(* umod64 and smod64 return a single word. *)
umod64(n, d) == (n - d * udiv64(n, d)) % Word

Abs(x) == IF x >= 0 THEN x ELSE (-x) % DWord
sdiv64(n, d) ==
  LET q == udiv64(Abs(n), Abs(d))
  IN IF q = TRAP THEN TRAP
     ELSE IF (n < 0) = (d < 0) THEN Signed(q, DWord) ELSE Signed(-Signed(q, DWord), DWord)
smod64(n, d) == Signed(n - d * sdiv64(n, d), Word)
=============================================================================
