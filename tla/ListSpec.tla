------------------------------ MODULE ListSpec ------------------------------
(* What list.h promises: the lists are sequences of elements, and each     *)
(* call changes them as this table says.                                   *)
EXTENDS Integers, Sequences, SequencesExt

CONSTANTS Elem, Key, NULL

VARIABLES lists, key, returned, call
vars == <<lists, key, returned, call>>

List == {"a", "b"}
End(l) == <<l, "tail">>

Init ==
  /\ lists = [l \in List |-> <<>>]
  /\ key \in [Elem -> Key] /\ returned = NULL
  /\ call = [op |-> "init", list |-> "a", elem |-> NULL]

(* The position of an element of a sequence; the tail is after them all. *)
Position(s, e) == IF e \in ToSet(s) THEN CHOOSE i \in DOMAIN s : s[i] = e ELSE Len(s) + 1
Nth(l, s, i) == IF i \in DOMAIN s THEN s[i] ELSE End(l)
Before(s, e, b) == InsertAt(s, Position(s, b), e)

(* Sorted, and equal elements keep their order. *)
StablySorted(s) ==
  SortSeq(s, LAMBDA x, y : \/ key[x] < key[y]
                           \/ key[x] = key[y] /\ Position(s, x) < Position(s, y))

(* The elements that do not differ from the one before them. *)
Repeats(s) == {i \in 2 .. Len(s) : key[s[i]] = key[s[i - 1]]}
Pick(s, I) == [n \in 1 .. Cardinality(I) |->
                 s[CHOOSE i \in I : Cardinality({j \in I : j < i}) = n - 1]]

(* The first element that no other exceeds, or is below. *)
First(l, s, Best(_)) ==
  Nth(l, s, IF s = <<>> THEN 1
            ELSE CHOOSE i \in DOMAIN s : Best(i) /\ \A j \in DOMAIN s : Best(j) => i <= j)

(* The lists after a call, and its result; list_init made them empty. *)
After(c) ==
  LET l == c.list  s == lists[l]  set(t) == [lists EXCEPT ![l] = t] IN
  CASE c.op = "init" -> <<lists, NULL>>
    [] c.op = "push_front" -> <<set(<<c.elem>> \o s), NULL>>
    [] c.op = "push_back" -> <<set(Append(s, c.elem)), NULL>>
    [] c.op = "insert" -> <<set(Before(s, c.elem, c.before)), NULL>>
    [] c.op = "insert_ordered" ->
         <<set(InsertAt(s, 1 + Cardinality({i \in DOMAIN s : key[s[i]] <= key[c.elem]}), c.elem)),
           NULL>>
    [] c.op = "remove" ->
         <<set(RemoveAt(s, Position(s, c.elem))), Nth(l, s, Position(s, c.elem) + 1)>>
    [] c.op = "pop_front" -> <<set(Tail(s)), s[1]>>
    [] c.op = "pop_back" -> <<set(Front(s)), s[Len(s)]>>
    [] c.op = "reverse" -> <<set(Reverse(s)), NULL>>
    [] c.op = "sort" -> <<set(StablySorted(s)), NULL>>
    [] c.op = "unique" ->
         <<[set(Pick(s, DOMAIN s \ Repeats(s))) EXCEPT ![c.to] = @ \o Pick(s, Repeats(s))], NULL>>
    [] c.op = "max" ->
         <<lists, First(l, s, LAMBDA i : \A j \in DOMAIN s : key[s[j]] <= key[s[i]])>>
    [] c.op = "min" ->
         <<lists, First(l, s, LAMBDA i : \A j \in DOMAIN s : key[s[j]] >= key[s[i]])>>
    [] c.op = "splice" ->
         LET i == Position(s, c.elem)
             rest == set(SubSeq(s, 1, i - 1) \o SubSeq(s, i + c.length, Len(s)))
             k == Position(rest[c.to], c.before)
         IN <<[rest EXCEPT ![c.to] = SubSeq(@, 1, k - 1) \o SubSeq(s, i, i + c.length - 1)
                                     \o SubSeq(@, k, Len(@))], NULL>>

Next == UNCHANGED key /\ <<lists', returned'>> = After(call')

Spec == Init /\ [][Next]_vars
=============================================================================
