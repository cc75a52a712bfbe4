------------------------------ MODULE Strings ------------------------------
(***************************************************************************)
(* lib/string.c on a small memory: m[p] is the byte at address p, and a    *)
(* string is the bytes from an address up to the first NUL.                *)
(***************************************************************************)
EXTENDS Integers, Sequences, SequencesExt

NUL == 0
NULL_PTR == -1

Upto(n) == [i \in 1 .. n |-> i - 1]

(* The first address from p on that satisfies Stop. *)
First(p, Stop(_)) ==
  LET RECURSIVE from(_)
      from(q) == IF Stop(q) THEN q ELSE from(q + 1)
  IN from(p)

memcpy(m, dst, src, size) ==
  FoldLeft(LAMBDA x, i : [x EXCEPT ![dst + i] = x[src + i]], m, Upto(size))

(* memmove: the memory after it, and the pointer it returns. *)
MoveForward(m, dst, src, size) == <<memcpy(m, dst, src, size), dst + size>>
memmove(m, dst, src, size) ==
  IF dst < src
  THEN <<memcpy(m, dst, src, size), dst + size>>
  ELSE <<FoldLeft(LAMBDA x, i : [x EXCEPT ![dst + i] = x[src + i]], m, Reverse(Upto(size))), dst>>

memset(m, dst, value, size) ==
  FoldLeft(LAMBDA x, i : [x EXCEPT ![dst + i] = value], m, Upto(size))

Sign(x, y) == IF x < y THEN -1 ELSE IF x > y THEN 1 ELSE 0

memcmp(m, a, b, size) ==
  LET i == First(0, LAMBDA k : IF k = size THEN TRUE ELSE m[a + k] # m[b + k])
  IN IF i = size THEN 0 ELSE Sign(m[a + i], m[b + i])

strlen(m, s) == First(s, LAMBDA p : m[p] = NUL) - s
strnlen(m, s, maxlen) == First(s, LAMBDA p : m[p] = NUL \/ p - s >= maxlen) - s

strcmp(m, a, b) ==
  LET i == First(0, LAMBDA k : m[a + k] = NUL \/ m[a + k] # m[b + k])
  IN Sign(m[a + i], m[b + i])

memchr(m, s, c, size) ==
  LET p == First(s, LAMBDA q : IF q = s + size THEN TRUE ELSE m[q] = c)
  IN IF p = s + size THEN NULL_PTR ELSE p

strchr(m, s, c) ==
  LET p == First(s, LAMBDA q : m[q] = c \/ m[q] = NUL)
  IN IF m[p] = c THEN p ELSE NULL_PTR

strrchr(m, s, c) ==
  FoldLeft(LAMBDA last, i : IF m[s + i] = c THEN s + i ELSE last, NULL_PTR, Upto(strlen(m, s)))

(* strspn and strcspn: the length of the start of s that is, or is not,    *)
(* made of the characters of another string.                               *)
strspn(m, s, skip) == First(s, LAMBDA p : m[p] = NUL \/ strchr(m, skip, m[p]) = NULL_PTR) - s
strcspn(m, s, stop) == First(s, LAMBDA p : m[p] = NUL \/ strchr(m, stop, m[p]) # NULL_PTR) - s
strpbrk(m, s, stop) ==
  LET p == s + strcspn(m, s, stop) IN IF m[p] = NUL THEN NULL_PTR ELSE p

strstr(m, haystack, needle) ==
  LET h == strlen(m, haystack)  n == strlen(m, needle)
      i == First(0, LAMBDA k : IF k > h - n THEN TRUE ELSE memcmp(m, haystack + k, needle, n) = 0)
  IN IF i > h - n THEN NULL_PTR ELSE haystack + i

(* strtok_r from position s: the memory, the token and the saved position. *)
strtok_r(m, s, delimiters) ==
  LET start == First(s, LAMBDA p : m[p] = NUL \/ strchr(m, delimiters, m[p]) = NULL_PTR)
      end == First(start, LAMBDA p : strchr(m, delimiters, m[p]) # NULL_PTR)
  IN IF m[start] = NUL THEN [mem |-> m, token |-> NULL_PTR, save |-> start]
     ELSE IF m[end] # NUL THEN [mem |-> [m EXCEPT ![end] = NUL], token |-> start, save |-> end + 1]
     ELSE [mem |-> m, token |-> start, save |-> end]

(* strlcpy and strlcat: the memory, and the length they tried to make. *)
strlcpy(m, dst, src, size) ==
  LET len == strlen(m, src)
      copied == IF len < size - 1 THEN len ELSE size - 1
  IN <<IF size = 0 THEN m ELSE [memcpy(m, dst, src, copied) EXCEPT ![dst + copied] = NUL], len>>

strlcat(m, dst, src, size) ==
  LET s == strlen(m, src)
      d == strlen(m, dst)
      copied == IF s < size - d - 1 THEN s ELSE size - d - 1
  IN <<IF size > 0 /\ d < size
       THEN [memcpy(m, dst + d, src, copied) EXCEPT ![dst + d + copied] = NUL] ELSE m, s + d>>
=============================================================================
