----------------------------- MODULE HashTable -----------------------------
(***************************************************************************)
(* The hash table of lib/kernel/hash.c: chained buckets, resized after     *)
(* each insertion and deletion when memory allows.  A bucket is a list     *)
(* (LinkedList), taken here as the sequence it implements.  Elements of    *)
(* equal key are equal for the table's less function; the hash is a        *)
(* function of the key.                                                    *)
(***************************************************************************)
EXTENDS Integers, Sequences, FiniteSets, SequencesExt

CONSTANTS
  Item,                    \* hash elements
  KeyOf,                   \* KeyOf[e]: what less compares and hash hashes
  Hash,                    \* Hash[k]: the hash value of a key
  MIN_BUCKETS,             \* 4 in the code
  BEST_ELEMS_PER_BUCKET,   \* 2 in the code
  NONE

VARIABLES
  buckets,    \* buckets[i], for i from 0 to bucket_cnt - 1
  elem_cnt,
  old         \* what the last operation returned
vars == <<buckets, elem_cnt, old>>

bucket_cnt(bs) == Cardinality(DOMAIN bs)
Empty(n) == [i \in 0 .. n - 1 |-> <<>>]

(* find_bucket: the count is a power of 2, so "& (count - 1)" is a remainder. *)
find_bucket(bs, e) == Hash[KeyOf[e]] % bucket_cnt(bs)

(* find_elem: the first element of the bucket that is equal to e. *)
find_elem(bs, e) ==
  LET b == bs[find_bucket(bs, e)]
      equal == SelectSeq(b, LAMBDA x : KeyOf[x] = KeyOf[e])
  IN IF equal = <<>> THEN NONE ELSE equal[1]

insert_elem(bs, e) == [bs EXCEPT ![find_bucket(bs, e)] = <<e>> \o @]
remove_elem(bs, e) ==
  [bs EXCEPT ![find_bucket(bs, e)] = SelectSeq(@, LAMBDA x : x # e)]

(* turn_off_least_1bit, applied until one bit is left: the largest power   *)
(* of 2 that is not above x.                                               *)
RECURSIVE PowerOf2(_)
PowerOf2(x) == IF x = 1 THEN 1 ELSE 2 * PowerOf2(x \div 2)

BucketsFor(cnt) ==
  LET n == cnt \div BEST_ELEMS_PER_BUCKET
  IN PowerOf2(IF n < MIN_BUCKETS THEN MIN_BUCKETS ELSE n)

(* hash_next, repeated from hash_first: the elements in iteration order. *)
Iterate(bs) == FlattenSeq([i \in 1 .. bucket_cnt(bs) |-> bs[i - 1]])

(* rehash: move every element, in iteration order, to the front of its new *)
(* bucket.  When the allocation fails the buckets stay as they are.        *)
rehash(bs, cnt, allocated) ==
  LET n == BucketsFor(cnt)
  IN IF n = bucket_cnt(bs) \/ ~allocated THEN bs
     ELSE FoldLeft(LAMBDA new, e : insert_elem(new, e), Empty(n), Iterate(bs))

Init == buckets = Empty(MIN_BUCKETS) /\ elem_cnt = 0 /\ old = NONE

InTable == ToSet(Iterate(buckets))

(* hash_insert.  An element is in the table at most once. *)
hash_insert(e) ==
  LET o == find_elem(buckets, e)
      bs == IF o = NONE THEN insert_elem(buckets, e) ELSE buckets
      cnt == IF o = NONE THEN elem_cnt + 1 ELSE elem_cnt
  IN /\ e \notin InTable
     /\ \E allocated \in BOOLEAN : buckets' = rehash(bs, cnt, allocated)
     /\ elem_cnt' = cnt /\ old' = o

hash_replace(e) ==
  LET o == find_elem(buckets, e)
      bs == IF o = NONE THEN buckets ELSE remove_elem(buckets, o)
      cnt == IF o = NONE THEN elem_cnt + 1 ELSE elem_cnt
  IN /\ e \notin InTable
     /\ \E allocated \in BOOLEAN : buckets' = rehash(insert_elem(bs, e), cnt, allocated)
     /\ elem_cnt' = cnt /\ old' = o

hash_find(e) == old' = find_elem(buckets, e) /\ UNCHANGED <<buckets, elem_cnt>>

hash_delete(e) ==
  LET o == find_elem(buckets, e)
  IN /\ IF o = NONE THEN UNCHANGED <<buckets, elem_cnt>>
        ELSE /\ elem_cnt' = elem_cnt - 1
             /\ \E allocated \in BOOLEAN :
                  buckets' = rehash(remove_elem(buckets, o), elem_cnt - 1, allocated)
     /\ old' = o

(* hash_clear: the bucket count stays. *)
hash_clear == buckets' = Empty(bucket_cnt(buckets)) /\ elem_cnt' = 0 /\ old' = NONE

Next ==
  \/ \E e \in Item : hash_insert(e) \/ hash_replace(e) \/ hash_find(e) \/ hash_delete(e)
  \/ hash_clear

Spec == Init /\ [][Next]_vars

-----------------------------------------------------------------------------
(* Properties. *)

(* However the table was resized or failed to be, elem_cnt counts the      *)
(* elements, none of two equal ones is lost or doubled, each is where      *)
(* find_bucket looks for it, an iteration meets each once, and the number  *)
(* of buckets is a power of 2 that is at least the minimum.                *)
TableSound ==
  /\ elem_cnt = Len(Iterate(buckets)) /\ IsInjective(Iterate(buckets))
  /\ \A e, f \in InTable : KeyOf[e] = KeyOf[f] => e = f
  /\ \A e \in InTable : find_elem(buckets, e) = e
  /\ bucket_cnt(buckets) >= MIN_BUCKETS /\ PowerOf2(bucket_cnt(buckets)) = bucket_cnt(buckets)

(* The element of a key, as a dictionary would hold it. *)
Lookup(k) == IF \E e \in InTable : KeyOf[e] = k THEN CHOOSE e \in InTable : KeyOf[e] = k ELSE NONE

(* The table is a dictionary: a step changes the element of at most one    *)
(* key, except hash_clear, which removes them all; the operation returns   *)
(* the element that was there, and only hash_replace overwrites one.       *)
IsDictionary ==
  LET keys == {KeyOf[e] : e \in Item}
      changed == {k \in keys : Lookup(k)' # Lookup(k)}
  IN \/ InTable' = {} /\ old' = NONE
     \/ /\ Cardinality(changed) <= 1
        /\ \A k \in changed : old' = Lookup(k)
        /\ changed = {} => old' = NONE \/ old' = Lookup(KeyOf[old'])
DictionarySteps == [][IsDictionary]_vars
=============================================================================
