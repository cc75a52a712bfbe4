----------------------------- MODULE LinkedList -----------------------------
(***************************************************************************)
(* The doubly linked lists of lib/kernel/list.c, pointer by pointer: two   *)
(* lists over the same elements, as their callers use them.  An operation  *)
(* is an operator on the links, the prev and next fields of every element  *)
(* and header; an action applies one.  Sequences, as callers think of the  *)
(* lists, are the abstract state (ListSpec).                               *)
(***************************************************************************)
EXTENDS Integers, Sequences, FiniteSets, SequencesExt, TLC

CONSTANTS
  Elem,      \* list elements
  Key,       \* what "less" compares; numbers
  NULL

List == {"a", "b"}
list_head(l) == <<l, "head">>
list_end(l) == <<l, "tail">>
Node == Elem \cup {list_head(l) : l \in List} \cup {list_end(l) : l \in List}

VARIABLES
  links,     \* [prev, next]: the two pointers of every node
  key,       \* of every element
  returned,  \* what the last operation returned
  call       \* and which it was
vars == <<links, key, returned, call>>

-----------------------------------------------------------------------------
(* Pointers. *)

is_head(m, e) == e # NULL /\ m.prev[e] = NULL /\ m.next[e] # NULL
is_interior(m, e) == e # NULL /\ m.prev[e] # NULL /\ m.next[e] # NULL
is_tail(m, e) == e # NULL /\ m.prev[e] # NULL /\ m.next[e] = NULL

list_init(m, l) ==
  [m EXCEPT !.prev[list_head(l)] = NULL, !.next[list_head(l)] = list_end(l),
            !.prev[list_end(l)] = list_head(l), !.next[list_end(l)] = NULL]

list_begin(m, l) == m.next[list_head(l)]
list_rbegin(m, l) == m.prev[list_end(l)]
list_empty(m, l) == list_begin(m, l) = list_end(l)
list_next(m, e) == m.next[e]
list_prev(m, e) == m.prev[e]

list_insert(m, before, e) ==
  LET p == m.prev[before] IN
  [prev |-> [m.prev EXCEPT ![e] = p, ![before] = e],
   next |-> [m.next EXCEPT ![e] = before, ![p] = e]]

list_remove(m, e) ==
  [prev |-> [m.prev EXCEPT ![m.next[e]] = m.prev[e]],
   next |-> [m.next EXCEPT ![m.prev[e]] = m.next[e]]]

(* The four assignments read the pointers as the ones before left them. *)
list_splice(m, before, first, end) ==
  IF first = end THEN m
  ELSE LET last == m.prev[end]
           cut == [prev |-> [m.prev EXCEPT ![m.next[last]] = m.prev[first]],
                   next |-> [m.next EXCEPT ![m.prev[first]] = m.next[last]]]
           p == cut.prev[before]
       IN [prev |-> [cut.prev EXCEPT ![first] = p, ![before] = last],
           next |-> [[cut.next EXCEPT ![last] = before] EXCEPT ![p] = first]]

Swapped(m, e) == [prev |-> [m.prev EXCEPT ![e] = m.next[e]],
                  next |-> [m.next EXCEPT ![e] = m.prev[e]]]

(* list_reverse: every element's pointers are swapped on the way, then the *)
(* headers', then those of the new ends toward the headers.                *)
list_reverse(m, l) ==
  LET RECURSIVE walk(_, _)
      walk(n, e) == IF e = list_end(l) THEN n ELSE walk(Swapped(n, e), Swapped(n, e).prev[e])
      turned == walk(m, list_begin(m, l))
      front == turned.prev[list_end(l)]
      back == turned.next[list_head(l)]
      headers == [prev |-> [turned.prev EXCEPT ![list_end(l)] = back],
                  next |-> [turned.next EXCEPT ![list_head(l)] = front]]
  IN IF list_empty(m, l) THEN m
     ELSE [prev |-> [headers.prev EXCEPT ![front] = headers.next[back]],
           next |-> [headers.next EXCEPT ![back] = headers.prev[front]]]

-----------------------------------------------------------------------------
(* Ordered lists; less(a, b) is key[a] < key[b]. *)

RECURSIVE is_sorted(_, _, _)
is_sorted(m, a, b) ==
  IF a = b \/ m.next[a] = b THEN TRUE
  ELSE key[m.next[a]] >= key[a] /\ is_sorted(m, m.next[a], b)

RECURSIVE find_end_of_run(_, _, _)
find_end_of_run(m, a, b) ==
  LET n == m.next[a]
  IN IF n # b /\ key[n] >= key[a] THEN find_end_of_run(m, n, b) ELSE n

RECURSIVE inplace_merge(_, _, _, _)
inplace_merge(m, a0, a1b0, b1) ==
  IF a0 = a1b0 \/ a1b0 = b1 THEN m
  ELSE IF key[a1b0] >= key[a0] THEN inplace_merge(m, m.next[a0], a1b0, b1)
  ELSE LET n == m.next[a1b0] IN inplace_merge(list_splice(m, a0, a1b0, n), a0, n, b1)

(* One pass of list_sort from a0 on: the links, and the runs it output. *)
RECURSIVE Pass(_, _, _, _)
Pass(m, l, a0, runs) ==
  IF a0 = list_end(l) THEN <<m, runs>>
  ELSE LET a1b0 == find_end_of_run(m, a0, list_end(l))
           b1 == find_end_of_run(m, a1b0, list_end(l))
       IN IF a1b0 = list_end(l) THEN <<m, runs + 1>>
          ELSE Pass(inplace_merge(m, a0, a1b0, b1), l, b1, runs + 1)

RECURSIVE list_sort(_, _)
list_sort(m, l) ==
  LET p == Pass(m, l, list_begin(m, l), 0) IN IF p[2] > 1 THEN list_sort(p[1], l) ELSE p[1]

(* The first element from e on that an element of key k goes before. *)
RECURSIVE BeforeEquals(_, _, _, _)
BeforeEquals(m, l, e, k) ==
  IF e = list_end(l) \/ k <= key[e] THEN e ELSE BeforeEquals(m, l, m.next[e], k)
RECURSIVE Position(_, _, _, _)
Position(m, l, e, k) ==
  IF e = list_end(l) \/ k < key[e] THEN e ELSE Position(m, l, m.next[e], k)
list_insert_ordered(m, l, e) == list_insert(m, Position(m, l, list_begin(m, l), key[e]), e)

(* list_unique, with the duplicates moved to list d. *)
list_unique(m, l, d) ==
  LET RECURSIVE from(_, _)
      from(n, e) ==
        LET x == n.next[e] IN
        IF x = list_end(l) THEN n
        ELSE IF key[x] = key[e] THEN from(list_insert(list_remove(n, x), list_end(d), x), e)
        ELSE from(n, x)
  IN IF list_empty(m, l) THEN m ELSE from(m, list_begin(m, l))

-----------------------------------------------------------------------------
(* What a walk over a list sees, from the front and from the back. *)
Forward(m, l) ==
  LET RECURSIVE from(_)
      from(e) == IF e = list_end(l) THEN <<>> ELSE <<e>> \o from(m.next[e])
  IN from(list_begin(m, l))
Backward(m, l) ==
  LET RECURSIVE from(_)
      from(e) == IF e = list_head(l) THEN <<>> ELSE <<e>> \o from(m.prev[e])
  IN from(list_rbegin(m, l))
list_size(m, l) == Len(Forward(m, l))

(* list_max and list_min: the earliest of the largest, of the smallest. *)
list_max(m, l) ==
  IF list_empty(m, l) THEN list_end(l)
  ELSE FoldLeft(LAMBDA max, e : IF key[max] < key[e] THEN e ELSE max, list_begin(m, l),
                Tail(Forward(m, l)))
list_min(m, l) ==
  IF list_empty(m, l) THEN list_end(l)
  ELSE FoldLeft(LAMBDA min, e : IF key[e] < key[min] THEN e ELSE min, list_begin(m, l),
                Tail(Forward(m, l)))

Listed(l) == ToSet(Forward(links, l))
Loose == Elem \ UNION {Listed(l) : l \in List}

(* Every element outside the lists keeps the pointers it was left with;    *)
(* no operation reads them, and they are forgotten here.                   *)
Forget(m) ==
  LET in == UNION {ToSet(Forward(m, l)) : l \in List}
  IN [prev |-> [e \in Node |-> IF e \in Elem \ in THEN NULL ELSE m.prev[e]],
      next |-> [e \in Node |-> IF e \in Elem \ in THEN NULL ELSE m.next[e]]]

(* An operation: the links it leaves, what it returns, and the call. *)
Do(m, e, c) == links' = Forget(m) /\ returned' = e /\ call' = c /\ UNCHANGED key
Call(o, l, e) == [op |-> o, list |-> l, elem |-> e]

Init ==
  /\ links = list_init(list_init([prev |-> [n \in Node |-> NULL], next |-> [n \in Node |-> NULL]],
                                 "a"), "b")
  /\ key \in [Elem -> Key]
  /\ returned = NULL /\ call = Call("init", "a", NULL)

PushFront(l) ==
  \E e \in Loose : Do(list_insert(links, list_begin(links, l), e), NULL, Call("push_front", l, e))
PushBack(l) ==
  \E e \in Loose : Do(list_insert(links, list_end(l), e), NULL, Call("push_back", l, e))
Insert(l) ==
  \E e \in Loose, b \in Listed(l) :
    Do(list_insert(links, b, e), NULL, Call("insert", l, e) @@ [before |-> b])
InsertOrdered(l) ==
  /\ is_sorted(links, list_begin(links, l), list_end(l))
  /\ \E e \in Loose : Do(list_insert_ordered(links, l, e), NULL, Call("insert_ordered", l, e))
Removal(l) ==
  \E e \in Listed(l) : Do(list_remove(links, e), list_next(links, e), Call("remove", l, e))
list_pop_front(l) ==
  LET e == list_begin(links, l)
  IN ~list_empty(links, l) /\ Do(list_remove(links, e), e, Call("pop_front", l, NULL))
list_pop_back(l) ==
  LET e == list_rbegin(links, l)
  IN ~list_empty(links, l) /\ Do(list_remove(links, e), e, Call("pop_back", l, NULL))
Reversal(l) == Do(list_reverse(links, l), NULL, Call("reverse", l, NULL))
Sort(l) == Do(list_sort(links, l), NULL, Call("sort", l, NULL))
Unique(l, d) ==
  l # d /\ Do(list_unique(links, l, d), NULL, Call("unique", l, NULL) @@ [to |-> d])
Largest(l) == Do(links, list_max(links, l), Call("max", l, NULL))
Smallest(l) == Do(links, list_min(links, l), Call("min", l, NULL))

(* The elements from position i up to position j of a list, to before an   *)
(* element or the tail of either list, outside that range.                 *)
Splice(l, d) ==
  LET s == Append(Forward(links, l), list_end(l)) IN
  \E i, j \in DOMAIN s :
    /\ i <= j
    /\ \E b \in Listed(d) \cup {list_end(d)} :
         /\ b \notin {s[x] : x \in i .. j - 1}
         /\ Do(list_splice(links, b, s[i], s[j]), NULL,
               Call("splice", l, s[i]) @@ [to |-> d, before |-> b, length |-> j - i])

Next ==
  \/ \E l \in List : \/ PushFront(l) \/ PushBack(l) \/ InsertOrdered(l) \/ Insert(l)
                     \/ Removal(l) \/ list_pop_front(l) \/ list_pop_back(l) \/ Reversal(l)
                     \/ Sort(l) \/ Largest(l) \/ Smallest(l)
  \/ \E l, d \in List : Unique(l, d) \/ Splice(l, d)

Spec == Init /\ [][Next]_vars

-----------------------------------------------------------------------------
(* Properties. *)

(* Whatever operations came before, the two directions of a list agree and *)
(* no element is in both lists: list_insert, list_splice and list_reverse  *)
(* set the pointers of the elements and of both headers in the right order.*)
LinksAgree ==
  /\ \A l \in List : /\ Backward(links, l) = Reverse(Forward(links, l))
                     /\ is_head(links, list_head(l)) /\ is_tail(links, list_end(l))
                     /\ \A e \in Listed(l) : is_interior(links, e)
  /\ Listed("a") \cap Listed("b") = {}

S == INSTANCE ListSpec WITH lists <- [l \in List |-> Forward(links, l)]

(* The pointer operations do to the lists what their names say of          *)
(* sequences: insertion at a place, removal, moving a range, reversal, a   *)
(* stable sort (list_sort), ordered insertion behind the elements that are *)
(* equal, dropping adjacent duplicates; list_max and list_min find the     *)
(* earliest extreme.                                                       *)
ImplementsSequences == S!Spec
=============================================================================
