------------------------------- MODULE Bitmap -------------------------------
(***************************************************************************)
(* The bit arrays of lib/kernel/bitmap.c, as words of ELEM_BITS bits (32   *)
(* in the code).  A bitmap is [bit_cnt, bits] with bits[i] the i-th word.  *)
(***************************************************************************)
EXTENDS Integers, Sequences, SequencesExt, FiniteSetsExt

CONSTANT ELEM_BITS

elem_idx(bit) == bit \div ELEM_BITS
bit_mask(bit) == 2 ^ (bit % ELEM_BITS)
elem_cnt(n) == (n + ELEM_BITS - 1) \div ELEM_BITS
last_mask(b) ==
  LET n == b.bit_cnt % ELEM_BITS IN IF n # 0 THEN 2 ^ n - 1 ELSE 2 ^ ELEM_BITS - 1

(* Of a word: is the bit of this mask set, and the word with it set, reset. *)
Has(word, mask) == (word \div mask) % 2 = 1
With(word, mask) == IF Has(word, mask) THEN word ELSE word + mask
Without(word, mask) == IF Has(word, mask) THEN word - mask ELSE word

bitmap_mark(b, i) == [b EXCEPT !.bits[elem_idx(i)] = With(@, bit_mask(i))]
bitmap_reset(b, i) == [b EXCEPT !.bits[elem_idx(i)] = Without(@, bit_mask(i))]
bitmap_set(b, i, value) == IF value THEN bitmap_mark(b, i) ELSE bitmap_reset(b, i)
bitmap_flip(b, i) ==
  IF Has(b.bits[elem_idx(i)], bit_mask(i)) THEN bitmap_reset(b, i) ELSE bitmap_mark(b, i)
bitmap_test(b, i) == Has(b.bits[elem_idx(i)], bit_mask(i))

bitmap_set_multiple(b, start, cnt, value) ==
  FoldLeft(LAMBDA x, i : bitmap_set(x, start + i - 1, value), b, [i \in 1 .. cnt |-> i])
bitmap_set_all(b, value) == bitmap_set_multiple(b, 0, b.bit_cnt, value)

(* bitmap_create: every word's bits are given by the allocation, and those *)
(* in use are cleared.                                                     *)
bitmap_create(n, garbage) ==
  bitmap_set_all([bit_cnt |-> n, bits |-> [i \in 0 .. elem_cnt(n) - 1 |-> garbage]], FALSE)

bitmap_count(b, start, cnt, value) ==
  FoldLeft(LAMBDA c, i : IF bitmap_test(b, start + i - 1) = value THEN c + 1 ELSE c, 0,
           [i \in 1 .. cnt |-> i])
bitmap_contains(b, start, cnt, value) ==
  \E i \in start .. start + cnt - 1 : bitmap_test(b, i) = value
bitmap_all(b, start, cnt) == ~bitmap_contains(b, start, cnt, FALSE)
bitmap_none(b, start, cnt) == ~bitmap_contains(b, start, cnt, TRUE)

BITMAP_ERROR == -1
bitmap_scan(b, start, cnt, value) ==
  LET fits == {i \in start .. b.bit_cnt - cnt : ~bitmap_contains(b, i, cnt, ~value)}
  IN IF cnt <= b.bit_cnt /\ fits # {} THEN Min(fits) ELSE BITMAP_ERROR

bitmap_scan_and_flip(b, start, cnt, value) ==
  LET i == bitmap_scan(b, start, cnt, value)
  IN <<IF i # BITMAP_ERROR THEN bitmap_set_multiple(b, i, cnt, ~value) ELSE b, i>>

(* bitmap_write stores every word; bitmap_read clears the bits past the    *)
(* last one.                                                               *)
bitmap_read(b, words) ==
  IF b.bit_cnt = 0 THEN b
  ELSE [b EXCEPT !.bits = [words EXCEPT ![elem_cnt(b.bit_cnt) - 1] = @ % (last_mask(b) + 1)]]
bitmap_write(b) == b.bits
=============================================================================
