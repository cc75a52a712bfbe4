------------------------------- MODULE Stdlib -------------------------------
(***************************************************************************)
(* The array algorithms of lib/stdlib.c and the number generator of        *)
(* lib/random.c.  Arrays are sequences of integers that compare as         *)
(* integers; the code indexes them from 1 in heapify and sort.             *)
(***************************************************************************)
EXTENDS Integers, Sequences, SequencesExt

do_swap(a, i, j) == [a EXCEPT ![i] = a[j], ![j] = a[i]]

(* The larger of the elements at i and at its children, in the first cnt. *)
Largest(a, i, cnt) ==
  LET l == IF 2 * i <= cnt /\ a[2 * i] > a[i] THEN 2 * i ELSE i
  IN IF 2 * i + 1 <= cnt /\ a[2 * i + 1] > a[l] THEN 2 * i + 1 ELSE l

RECURSIVE heapify(_, _, _)
heapify(a, i, cnt) ==
  LET max == Largest(a, i, cnt)
  IN IF max = i THEN a ELSE heapify(do_swap(a, i, max), max, cnt)

(* The numbers from n down to m. *)
Down(n, m) == [k \in 1 .. n - m + 1 |-> n + 1 - k]

(* sort, which qsort calls: build a heap, then take its top off. *)
sort(a) ==
  LET heap == FoldLeft(LAMBDA x, i : heapify(x, i, Len(a)), a, Down(Len(a) \div 2, 1))
  IN FoldLeft(LAMBDA x, i : heapify(do_swap(x, 1, i), 1, i - 1), heap, Down(Len(a), 2))

(* binary_search, which bsearch calls, in the elements from first up to    *)
(* last (exclusive, both from 0): the index of a match, or NOT_FOUND.      *)
NOT_FOUND == -1
RECURSIVE Between(_, _, _, _)
Between(a, key, first, last) ==
  IF first >= last THEN NOT_FOUND
  ELSE LET middle == first + (last - first) \div 2
       IN IF key < a[middle + 1] THEN Between(a, key, first, middle)
          ELSE IF key > a[middle + 1] THEN Between(a, key, middle + 1, last)
          ELSE middle
binary_search(a, key) == Between(a, key, 0, Len(a))

-----------------------------------------------------------------------------
(* random.c with n in place of 256: the state is [s, i, j], s a table of   *)
(* bytes indexed from 0.                                                   *)

swap_byte(s, i, j) == [s EXCEPT ![i] = s[j], ![j] = s[i]]

(* random_init, from the bytes of the seed. *)
random_init(n, seed) ==
  LET step(x, i) == LET j == (x.j + x.s[i] + seed[(i % Len(seed)) + 1]) % n
                    IN [x EXCEPT !.s = swap_byte(x.s, i, j), !.j = j]
      x == FoldLeft(step, [s |-> [i \in 0 .. n - 1 |-> i], j |-> 0], [i \in 1 .. n |-> i - 1])
  IN [s |-> x.s, i |-> 0, j |-> 0]

(* One byte of random_bytes: the new state, and the byte. *)
random_byte(n, x) ==
  LET i == (x.i + 1) % n
      j == (x.j + x.s[i]) % n
      s == swap_byte(x.s, i, j)
  IN <<[s |-> s, i |-> i, j |-> j], s[(s[i] + s[j]) % n]>>
=============================================================================
