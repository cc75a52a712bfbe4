---------------------------- MODULE PriorityList ----------------------------
(***************************************************************************)
(* The kernel's linked lists of threads (lib/kernel/list.c) as sequences,  *)
(* kept in order of decreasing priority by list_compare_priority           *)
(* (threads/thread.c).  `pri' is the function from threads to priorities.  *)
(***************************************************************************)
EXTENDS Integers, Sequences, Functions

(* The place before the first element of equal or lower priority. *)
InsertPosFront(s, t, pri) ==
  CHOOSE i \in 1 .. Len(s) + 1 :
    /\ \A j \in 1 .. i - 1 : pri[s[j]] > pri[t]
    /\ i <= Len(s) => pri[s[i]] <= pri[t]

(* The place list_insert_ordered stops at: the first element of lower      *)
(* priority than t, or the list's tail.  Equal priorities stay in front,   *)
(* which is what makes the run queue round-robin.                          *)
InsertPos(s, t, pri) ==
  CHOOSE i \in 1 .. Len(s) + 1 :
    /\ \A j \in 1 .. i - 1 : pri[s[j]] >= pri[t]
    /\ i <= Len(s) => pri[s[i]] < pri[t]

list_insert_ordered(s, t, pri) ==
  LET i == InsertPos(s, t, pri)
  IN  SubSeq(s, 1, i - 1) \o <<t>> \o SubSeq(s, i, Len(s))

(* s is in the order list_compare_priority asks for. *)
Ordered(s, pri) ==
  \A i, j \in 1 .. Len(s) : i < j => pri[s[i]] >= pri[s[j]]

(* No thread is on s twice. *)
NoDuplicates(s) ==
  \A i, j \in 1 .. Len(s) : s[i] = s[j] => i = j

(* The ways to renumber s in order of decreasing priority, threads of one  *)
(* priority keeping their order: what a stable sort has to find.           *)
StableOrders(s, pri) ==
  {p \in Bijection(1 .. Len(s), 1 .. Len(s)) :
     \A i, j \in 1 .. Len(s) : i < j =>
       \/ pri[s[p[i]]] > pri[s[p[j]]]
       \/ pri[s[p[i]]] = pri[s[p[j]]] /\ p[i] < p[j]}

(* The list left as it is. *)
list_unsorted(s, pri) == {s}

(* What list_sort (a merge sort of adjacent runs) makes of s; there is     *)
(* exactly one such list.                                                  *)
list_sort(s, pri) ==
  {[i \in 1 .. Len(s) |-> s[p[i]]] : p \in StableOrders(s, pri)}
=============================================================================
