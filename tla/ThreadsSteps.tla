---------------------------- MODULE ThreadsSteps ----------------------------
(***************************************************************************)
(* The steps of module Threads, first half: what the list operations keep, *)
(* what the scheduler's operations do to the lists, and that sema_up, the  *)
(* lock operations, the timer interrupt and thread_yield preserve the      *)
(* inductive invariant, for any number of threads, locks and semaphores,   *)
(* any priorities and both builds of the kernel.                           *)
(***************************************************************************)
EXTENDS Threads, SequenceTheorems, WellFoundedInduction, TLAPS

-----------------------------------------------------------------------------
(* What the list operations of module PriorityList keep: the threads on    *)
(* the list, the absence of duplicates, and the order.                     *)

(* A non-empty set of natural numbers has a least element. *)
LEMMA LeastElement ==
  ASSUME NEW S \in SUBSET Nat, S # {}
  PROVE  \E n \in S : \A m \in S : n <= m
<1>1. IsWellFoundedOn(OpToRel(<, Nat), Nat)
  BY Zenon, NatLessThanWellFounded
<1>2. PICK n \in S : \A m \in S : ~ (<<m, n>> \in OpToRel(<, Nat))
  BY Zenon, <1>1, WFMin
<1>3. \A m \in S : ~ (m < n)
  BY Zenon, <1>2 DEF OpToRel
<1> QED BY <1>3

(* list_insert_ordered's loop stops: every list has a place for t. *)
LEMMA InsertPosExists ==
  ASSUME NEW T, NEW pri \in [T -> Int], NEW s \in Seq(T), NEW t \in T
  PROVE  LET i == InsertPos(s, t, pri)
         IN  /\ i \in 1 .. Len(s) + 1
             /\ \A j \in 1 .. i - 1 : pri[s[j]] >= pri[t]
             /\ i <= Len(s) => pri[s[i]] < pri[t]
<1> DEFINE Stop == {i \in 1 .. Len(s) + 1 : i <= Len(s) => pri[s[i]] < pri[t]}
           P(i) == /\ \A j \in 1 .. i - 1 : pri[s[j]] >= pri[t]
                   /\ i <= Len(s) => pri[s[i]] < pri[t]
<1>1. Stop \in SUBSET Nat /\ Len(s) + 1 \in Stop
  OBVIOUS
<1>2. PICK n \in Stop : \A m \in Stop : n <= m
  BY Zenon, <1>1, LeastElement
<1>3. ASSUME NEW j \in 1 .. n - 1
      PROVE  pri[s[j]] >= pri[t]
  <2>1. j \in 1 .. Len(s) + 1 /\ j \notin Stop
    BY <1>2, <1>3
  <2>2. j <= Len(s) /\ ~(pri[s[j]] < pri[t])
    BY Zenon, <2>1
  <2>3. s[j] \in T
    BY <2>1, <2>2
  <2> QED BY <2>2, <2>3
<1>4. \E i \in 1 .. Len(s) + 1 : P(i)
  BY Zenon, <1>2, <1>3
<1> HIDE DEF P
<1>5. LET i == CHOOSE i \in 1 .. Len(s) + 1 : P(i)
      IN  i \in 1 .. Len(s) + 1 /\ P(i)
  BY Zenon, <1>4
<1> QED BY Zenon, <1>5 DEF P, InsertPos

(* r is s with t put in at place i. *)
Inserted(r, s, t, i) ==
  /\ Len(r) = Len(s) + 1
  /\ \A k \in 1 .. i - 1 : r[k] = s[k]
  /\ r[i] = t
  /\ \A k \in i + 1 .. Len(s) + 1 : r[k] = s[k - 1]

(* The list that list_insert_ordered makes, element by element. *)
LEMMA InsertShape ==
  ASSUME NEW T, NEW pri \in [T -> Int], NEW s \in Seq(T), NEW t \in T
  PROVE  /\ list_insert_ordered(s, t, pri) \in Seq(T)
         /\ Inserted(list_insert_ordered(s, t, pri), s, t, InsertPos(s, t, pri))
<1> DEFINE i == InsertPos(s, t, pri)
           a == SubSeq(s, 1, i - 1)
           b == SubSeq(s, i, Len(s))
           m == a \o <<t>>
<1>1. i \in 1 .. Len(s) + 1
  BY Zenon, InsertPosExists
<1> HIDE DEF i
<1>2. /\ a \in Seq(T) /\ Len(a) = i - 1
      /\ \A k \in 1 .. i - 1 : a[k] = s[k]
  BY <1>1
<1>3. /\ b \in Seq(T) /\ Len(b) = Len(s) - i + 1
      /\ \A k \in 1 .. Len(s) - i + 1 : b[k] = s[i + k - 1]
  BY <1>1
<1> HIDE DEF a, b
<1>4. /\ m \in Seq(T) /\ Len(m) = i
      /\ \A k \in 1 .. i - 1 : m[k] = a[k]
      /\ m[i] = t
  BY <1>1, <1>2
<1> HIDE DEF m
<1>5. /\ m \o b \in Seq(T)
      /\ Len(m \o b) = Len(m) + Len(b)
      /\ \A k \in 1 .. Len(m) + Len(b) :
           (m \o b)[k] = IF k <= Len(m) THEN m[k] ELSE b[k - Len(m)]
  BY Zenon, <1>3, <1>4, ConcatProperties
<1> DEFINE r == m \o b
<1> HIDE DEF r
<1>6. i \in Int /\ Len(s) \in Nat /\ Len(m) + Len(b) = Len(s) + 1
  BY <1>1, <1>3, <1>4
<1>7. \A k \in 1 .. i - 1 : r[k] = s[k]
  <2> TAKE k \in 1 .. i - 1
  <2>1. k \in 1 .. Len(m) + Len(b) /\ k <= Len(m)
    BY <1>1, <1>4, <1>6
  <2> QED BY Zenon, <1>2, <1>4, <1>5, <2>1 DEF r
<1>8. r[i] = t
  <2>1. i \in 1 .. Len(m) + Len(b) /\ i <= Len(m)
    BY <1>1, <1>4, <1>6
  <2> QED BY Zenon, <1>4, <1>5, <2>1 DEF r
<1>9. \A k \in i + 1 .. Len(s) + 1 : r[k] = s[k - 1]
  <2> TAKE k \in i + 1 .. Len(s) + 1
  <2>1. k \in 1 .. Len(m) + Len(b) /\ ~(k <= Len(m)) /\ k - Len(m) = k - i
    BY <1>1, <1>4, <1>6
  <2>2. r[k] = b[k - i]
    BY Zenon, <1>5, <2>1 DEF r
  <2>3. k - i \in 1 .. Len(s) - i + 1 /\ i + (k - i) - 1 = k - 1
    BY <1>6
  <2> QED BY Zenon, <1>3, <2>2, <2>3
<1>10. list_insert_ordered(s, t, pri) = r
  BY Zenon DEF list_insert_ordered, i, a, b, m, r
<1>11. r \in Seq(T) /\ Len(r) = Len(s) + 1
  BY Zenon, <1>5, <1>6 DEF r
<1> QED BY Zenon, <1>7, <1>8, <1>9, <1>10, <1>11 DEF i, Inserted

(* list_insert_ordered adds t to the list and nothing else, keeps the list *)
(* free of duplicates, and keeps an ordered list ordered.                  *)
LEMMA InsertProperties ==
  ASSUME NEW T, NEW pri \in [T -> Int], NEW s \in Seq(T), NEW t \in T
  PROVE  LET r == list_insert_ordered(s, t, pri)
         IN  /\ r \in Seq(T)
             /\ Range(r) = Range(s) \cup {t}
             /\ NoDuplicates(s) /\ t \notin Range(s) => NoDuplicates(r)
             /\ Ordered(s, pri) => Ordered(r, pri)
<1> DEFINE r == list_insert_ordered(s, t, pri)
           i == InsertPos(s, t, pri)
<1>1. /\ r \in Seq(T)
      /\ Len(r) = Len(s) + 1
      /\ \A k \in 1 .. i - 1 : r[k] = s[k]
      /\ r[i] = t
      /\ \A k \in i + 1 .. Len(s) + 1 : r[k] = s[k - 1]
  <2>1. r \in Seq(T) /\ Inserted(r, s, t, i)
    BY Zenon, InsertShape
  <2> QED BY Zenon, <2>1 DEF Inserted
<1>2. /\ i \in 1 .. Len(s) + 1
      /\ \A j \in 1 .. i - 1 : pri[s[j]] >= pri[t]
      /\ i <= Len(s) => pri[s[i]] < pri[t]
  BY Zenon, InsertPosExists
<1> HIDE DEF r, i
<1>0. /\ Range(r) = {r[k] : k \in 1 .. Len(s) + 1}
      /\ Range(s) = {s[k] : k \in 1 .. Len(s)}
  BY <1>1, RangeEquality
<1>3. i \in Int /\ Len(s) \in Nat
  BY <1>2
<1>4. \A k \in 1 .. Len(s) + 1 :
        /\ k < i => r[k] = s[k] /\ k \in 1 .. Len(s)
        /\ k = i => r[k] = t
        /\ k > i => r[k] = s[k - 1] /\ k - 1 \in 1 .. Len(s)
  <2> TAKE k \in 1 .. Len(s) + 1
  <2>1. k < i => k \in 1 .. i - 1 /\ k \in 1 .. Len(s)
    BY <1>2
  <2>2. k > i => k \in i + 1 .. Len(s) + 1 /\ k - 1 \in 1 .. Len(s)
    BY <1>2
  <2> QED BY Zenon, <1>1, <2>1, <2>2
<1>5. Range(r) = Range(s) \cup {t}
  <2>1. ASSUME NEW k \in 1 .. Len(s) + 1
        PROVE  r[k] \in Range(s) \cup {t}
    <3>1. k < i \/ k = i \/ k > i
      BY <1>3
    <3> QED BY Zenon, <1>0, <1>4, <3>1
  <2>2. ASSUME NEW k \in 1 .. Len(s)
        PROVE  s[k] \in Range(r)
    <3>1. CASE k < i
      <4>1. k \in 1 .. Len(s) + 1
        OBVIOUS
      <4>2. r[k] = s[k]
        BY Zenon, <1>4, <3>1, <4>1
      <4> QED BY Zenon, <1>0, <4>1, <4>2
    <3>2. CASE k >= i
      <4>1. k + 1 \in 1 .. Len(s) + 1 /\ k + 1 > i /\ (k + 1) - 1 = k
        BY <1>3, <3>2
      <4>2. r[k + 1] = s[k]
        BY Zenon, <1>4, <4>1
      <4> QED BY Zenon, <1>0, <4>1, <4>2
    <3> QED BY <1>3, <3>1, <3>2
  <2>3. t \in Range(r)
    BY Zenon, <1>0, <1>1, <1>2
  <2> QED BY Zenon, <1>0, <2>1, <2>2, <2>3
<1>6. ASSUME NoDuplicates(s), t \notin Range(s)
      PROVE  NoDuplicates(r)
  <2>1. \A k \in 1 .. Len(s) : s[k] # t
    BY <1>6 DEF Range
  <2> SUFFICES ASSUME NEW k \in 1 .. Len(s) + 1, NEW l \in 1 .. Len(s) + 1, r[k] = r[l]
               PROVE  k = l
    BY Zenon, <1>1 DEF NoDuplicates
  <2>2. \A m, n \in 1 .. Len(s) : s[m] = s[n] => m = n
    BY Zenon, <1>6 DEF NoDuplicates
  <2>3. CASE k < i
    <3>1. r[k] = s[k] /\ k \in 1 .. Len(s)
      BY Zenon, <1>4, <2>3
    <3>2. CASE l < i
      <4>1. r[l] = s[l] /\ l \in 1 .. Len(s)
        BY Zenon, <1>4, <3>2
      <4> QED BY Zenon, <2>2, <3>1, <4>1
    <3>3. CASE l = i
      BY Zenon, <1>4, <2>1, <3>1, <3>3
    <3>4. CASE l > i
      <4>1. r[l] = s[l - 1] /\ l - 1 \in 1 .. Len(s)
        BY Zenon, <1>4, <3>4
      <4>2. k = l - 1
        BY Zenon, <2>2, <3>1, <4>1
      <4> QED BY <1>3, <2>3, <3>4, <4>2
    <3> QED BY <1>3, <3>2, <3>3, <3>4
  <2>4. CASE k = i
    <3>1. r[k] = t
      BY Zenon, <1>4, <2>4
    <3>2. CASE l < i
      BY Zenon, <1>4, <2>1, <3>1, <3>2
    <3>3. CASE l > i
      BY Zenon, <1>4, <2>1, <3>1, <3>3
    <3> QED BY <1>3, <2>4, <3>2, <3>3
  <2>5. CASE k > i
    <3>1. r[k] = s[k - 1] /\ k - 1 \in 1 .. Len(s)
      BY Zenon, <1>4, <2>5
    <3>2. CASE l < i
      <4>1. r[l] = s[l] /\ l \in 1 .. Len(s)
        BY Zenon, <1>4, <3>2
      <4>2. k - 1 = l
        BY Zenon, <2>2, <3>1, <4>1
      <4> QED BY <1>3, <2>5, <3>2, <4>2
    <3>3. CASE l = i
      BY Zenon, <1>4, <2>1, <3>1, <3>3
    <3>4. CASE l > i
      <4>1. r[l] = s[l - 1] /\ l - 1 \in 1 .. Len(s)
        BY Zenon, <1>4, <3>4
      <4>2. k - 1 = l - 1
        BY Zenon, <2>2, <3>1, <4>1
      <4> QED BY <4>2
    <3> QED BY <1>3, <3>2, <3>3, <3>4
  <2> QED BY <1>3, <2>3, <2>4, <2>5
<1>7. ASSUME Ordered(s, pri)
      PROVE  Ordered(r, pri)
  <2> SUFFICES ASSUME NEW k \in 1 .. Len(s) + 1, NEW l \in 1 .. Len(s) + 1, k < l
               PROVE  pri[r[k]] >= pri[r[l]]
    BY Zenon, <1>1 DEF Ordered
  <2>1. \A m \in 1 .. Len(s) : pri[s[m]] \in Int
    OBVIOUS
  <2>2. \A m, n \in 1 .. Len(s) : m < n => pri[s[m]] >= pri[s[n]]
    BY Zenon, <1>7 DEF Ordered
  <2>3. CASE l < i
    <3>1. k < i /\ l < i
      BY <1>3, <2>3
    <3>2. r[k] = s[k] /\ r[l] = s[l] /\ k \in 1 .. Len(s) /\ l \in 1 .. Len(s)
      BY Zenon, <1>4, <3>1
    <3>3. pri[s[k]] >= pri[s[l]]
      BY Zenon, <2>2, <3>2
    <3> QED BY Zenon, <3>2, <3>3
  <2>4. CASE l = i
    <3>1. k < i /\ k \in 1 .. i - 1
      BY <1>3, <2>4
    <3>2. r[k] = s[k] /\ r[l] = t
      BY Zenon, <1>4, <2>4, <3>1
    <3>3. pri[s[k]] >= pri[t]
      BY Zenon, <1>2, <3>1
    <3> QED BY Zenon, <3>2, <3>3
  <2>5. CASE i < l /\ k < i
    <3>1. r[l] = s[l - 1] /\ r[k] = s[k] /\ l - 1 \in 1 .. Len(s) /\ k \in 1 .. Len(s)
      BY Zenon, <1>3, <1>4, <2>5
    <3>2. k < l - 1
      BY <1>3, <2>5
    <3> QED BY Zenon, <2>2, <3>1, <3>2
  <2>6. CASE i < l /\ k = i
    <3>1. r[l] = s[l - 1] /\ r[k] = t /\ l - 1 \in 1 .. Len(s)
      BY Zenon, <1>3, <1>4, <2>6
    <3>2. i \in 1 .. Len(s) /\ i <= l - 1
      BY <1>2, <1>3, <2>6
    <3>3. pri[s[i]] < pri[t]
      BY <1>2, <3>2
    <3>5. i = l - 1 \/ pri[s[i]] >= pri[s[l - 1]]
      <4>1. CASE i < l - 1
        BY Zenon, <2>2, <3>1, <3>2, <4>1
      <4> QED BY <1>3, <3>2, <4>1
    <3>4. pri[t] \in Int /\ pri[s[i]] \in Int /\ pri[s[l - 1]] \in Int
      BY Zenon, <2>1, <3>1, <3>2
    <3> QED BY <3>1, <3>3, <3>4, <3>5
  <2>7. CASE i < l /\ i < k
    <3>1. /\ r[k] = s[k - 1] /\ r[l] = s[l - 1]
          /\ k - 1 \in 1 .. Len(s) /\ l - 1 \in 1 .. Len(s) /\ k - 1 < l - 1
      BY <1>4, <2>7
    <3>2. pri[s[k - 1]] >= pri[s[l - 1]]
      BY Zenon, <2>2, <3>1
    <3> QED BY Zenon, <3>1, <3>2
  <2> QED BY <1>3, <2>3, <2>4, <2>5, <2>6, <2>7
<1> QED BY Zenon, <1>1, <1>5, <1>6, <1>7 DEF r

(* list_pop_front takes the first element off and keeps the rest. *)
LEMMA TailProperties ==
  ASSUME NEW T, NEW pri, NEW s \in Seq(T), s # <<>>, NoDuplicates(s)
  PROVE  /\ Head(s) \in Range(s)
         /\ Tail(s) \in Seq(T)
         /\ Range(Tail(s)) = Range(s) \ {Head(s)}
         /\ NoDuplicates(Tail(s))
         /\ Ordered(s, pri) => Ordered(Tail(s), pri)
<1>1. /\ Tail(s) \in Seq(T) /\ Len(s) \in Nat /\ Len(s) > 0 /\ Head(s) = s[1]
      /\ Len(Tail(s)) = Len(s) - 1
      /\ \A k \in 1 .. Len(s) - 1 : Tail(s)[k] = s[k + 1]
  OBVIOUS
<1>2. /\ Range(s) = {s[k] : k \in 1 .. Len(s)}
      /\ Range(Tail(s)) = {Tail(s)[k] : k \in 1 .. Len(s) - 1}
  <2>1. Range(s) = {s[k] : k \in 1 .. Len(s)}
    BY Zenon, RangeEquality
  <2>2. Range(Tail(s)) = {Tail(s)[k] : k \in 1 .. Len(Tail(s))}
    BY Zenon, <1>1, RangeEquality
  <2> QED BY Zenon, <1>1, <2>1, <2>2
<1>3. \A k, l \in 1 .. Len(s) : s[k] = s[l] => k = l
  BY Zenon DEF NoDuplicates
<1>4. Range(Tail(s)) = Range(s) \ {Head(s)}
  <2>1. ASSUME NEW k \in 1 .. Len(s) - 1
        PROVE  Tail(s)[k] \in Range(s) \ {Head(s)}
    <3>1. k + 1 \in 1 .. Len(s) /\ 1 \in 1 .. Len(s) /\ k + 1 # 1
      BY <1>1
    <3>2. Tail(s)[k] = s[k + 1] /\ s[k + 1] # s[1]
      BY Zenon, <1>1, <1>3, <3>1
    <3> QED BY Zenon, <1>1, <1>2, <3>1, <3>2
  <2>2. ASSUME NEW k \in 1 .. Len(s), s[k] # Head(s)
        PROVE  s[k] \in Range(Tail(s))
    <3>1. k - 1 \in 1 .. Len(s) - 1 /\ (k - 1) + 1 = k
      BY <1>1, <2>2
    <3>2. Tail(s)[k - 1] = s[k]
      BY Zenon, <1>1, <3>1
    <3> QED BY Zenon, <1>2, <3>1, <3>2
  <2> QED BY Zenon, <1>2, <2>1, <2>2
<1>5. NoDuplicates(Tail(s))
  <2> SUFFICES ASSUME NEW k \in 1 .. Len(s) - 1, NEW l \in 1 .. Len(s) - 1,
                      Tail(s)[k] = Tail(s)[l]
               PROVE  k = l
    BY Zenon, <1>1 DEF NoDuplicates
  <2>1. k + 1 \in 1 .. Len(s) /\ l + 1 \in 1 .. Len(s)
    BY <1>1
  <2>2. s[k + 1] = s[l + 1]
    BY Zenon, <1>1
  <2>3. k + 1 = l + 1
    BY Zenon, <1>3, <2>1, <2>2
  <2> QED BY <2>3
<1>6. ASSUME Ordered(s, pri)
      PROVE  Ordered(Tail(s), pri)
  <2> SUFFICES ASSUME NEW k \in 1 .. Len(s) - 1, NEW l \in 1 .. Len(s) - 1, k < l
               PROVE  pri[Tail(s)[k]] >= pri[Tail(s)[l]]
    BY Zenon, <1>1 DEF Ordered
  <2>1. k + 1 \in 1 .. Len(s) /\ l + 1 \in 1 .. Len(s) /\ k + 1 < l + 1
    BY <1>1
  <2>2. pri[s[k + 1]] >= pri[s[l + 1]]
    BY Zenon, <1>6, <2>1 DEF Ordered
  <2> QED BY Zenon, <1>1, <2>2
<1>7. Head(s) \in Range(s)
  BY <1>1, <1>2
<1> QED BY Zenon, <1>1, <1>4, <1>5, <1>6, <1>7

(* An interval from 1 determines its end. *)
LEMMA SameUpTo ==
  ASSUME NEW a \in Nat, NEW b \in Nat, 1 .. a = 1 .. b
  PROVE  a = b
<1>1. a <= b
  <2>1. a = 0 \/ a \in 1 .. b
    OBVIOUS
  <2> QED BY <2>1
<1>2. b <= a
  <2>1. b = 0 \/ b \in 1 .. a
    OBVIOUS
  <2> QED BY <2>1
<1> QED BY <1>1, <1>2

(* A function on the first n numbers is a sequence of length n. *)
LEMMA FunctionIsSeq ==
  ASSUME NEW T, NEW n \in Nat, NEW r \in [1 .. n -> T]
  PROVE  r \in Seq(T) /\ Len(r) = n
<1>1. r \in UNION {[1 .. k -> T] : k \in Nat}
  BY Zenon
<1>2. r \in Seq(T)
  BY Zenon, <1>1, SeqDef
<1>3. Len(r) \in Nat /\ DOMAIN r = 1 .. Len(r)
  BY Zenon, <1>2, LenProperties
<1>4. DOMAIN r = 1 .. n
  BY Zenon
<1> QED BY Zenon, <1>2, <1>3, <1>4, SameUpTo

(* list_sort keeps the threads of the list, adds no duplicates, and leaves *)
(* the list in order.                                                      *)
LEMMA SortProperties ==
  ASSUME NEW T, NEW pri \in [T -> Int], NEW s \in Seq(T), NEW r \in list_sort(s, pri)
  PROVE  /\ r \in Seq(T)
         /\ Range(r) = Range(s)
         /\ NoDuplicates(s) => NoDuplicates(r)
         /\ Ordered(r, pri)
<1>1. PICK p \in StableOrders(s, pri) : r = [i \in 1 .. Len(s) |-> s[p[i]]]
  BY Zenon DEF list_sort
<1>2. /\ p \in [1 .. Len(s) -> 1 .. Len(s)]
      /\ \A i, j \in 1 .. Len(s) : p[i] = p[j] => i = j
      /\ \A k \in 1 .. Len(s) : \E i \in 1 .. Len(s) : p[i] = k
      /\ \A i, j \in 1 .. Len(s) : i < j =>
           \/ pri[s[p[i]]] > pri[s[p[j]]]
           \/ pri[s[p[i]]] = pri[s[p[j]]] /\ p[i] < p[j]
  BY Zenon DEF StableOrders, Bijection, Injection, Surjection, IsInjective
<1>3. \A i \in 1 .. Len(s) : p[i] \in 1 .. Len(s) /\ s[p[i]] \in T
  <2> TAKE i \in 1 .. Len(s)
  <2>1. p[i] \in 1 .. Len(s)
    BY Zenon, <1>2
  <2> QED BY Zenon, <2>1, ElementOfSeq
<1>4. /\ r \in Seq(T) /\ Len(r) = Len(s)
      /\ \A i \in 1 .. Len(s) : r[i] = s[p[i]]
  <2>1. r \in [1 .. Len(s) -> T] /\ Len(s) \in Nat
    BY <1>1, <1>3
  <2>2. r \in Seq(T)
    BY Zenon, <2>1, FunctionIsSeq
  <2>3. Len(r) = Len(s)
    BY Zenon, <2>1, FunctionIsSeq
  <2> QED BY Zenon, <1>1, <2>2, <2>3
<1>5. /\ Range(s) = {s[k] : k \in 1 .. Len(s)}
      /\ Range(r) = {r[k] : k \in 1 .. Len(s)}
  <2>1. Range(s) = {s[k] : k \in 1 .. Len(s)}
    BY Zenon, RangeEquality
  <2>0. r \in Seq(T)
    BY Zenon, <1>4
  <2>2. Range(r) = {r[k] : k \in 1 .. Len(r)}
    BY Zenon, <2>0, RangeEquality
  <2> QED BY Zenon, <1>4, <2>1, <2>2
<1>6. Range(r) = Range(s)
  <2>1. \A i \in 1 .. Len(s) : r[i] \in Range(s)
    BY Zenon, <1>3, <1>4, <1>5
  <2>2. ASSUME NEW k \in 1 .. Len(s)
        PROVE  s[k] \in Range(r)
    <3>1. PICK i \in 1 .. Len(s) : p[i] = k
      BY Zenon, <1>2
    <3>2. r[i] = s[k]
      BY Zenon, <1>4, <3>1
    <3> QED BY Zenon, <1>5, <3>2
  <2> QED BY Zenon, <1>5, <2>1, <2>2
<1>7. ASSUME NoDuplicates(s)
      PROVE  NoDuplicates(r)
  <2> SUFFICES ASSUME NEW i \in 1 .. Len(s), NEW j \in 1 .. Len(s), r[i] = r[j]
               PROVE  i = j
    BY Zenon, <1>4 DEF NoDuplicates
  <2>1. s[p[i]] = s[p[j]]
    BY Zenon, <1>4
  <2>2. p[i] = p[j]
    BY Zenon, <1>3, <1>7, <2>1 DEF NoDuplicates
  <2> QED BY Zenon, <1>2, <2>2
<1>8. Ordered(r, pri)
  <2> SUFFICES ASSUME NEW i \in 1 .. Len(s), NEW j \in 1 .. Len(s), i < j
               PROVE  pri[r[i]] >= pri[r[j]]
    BY Zenon, <1>4 DEF Ordered
  <2>1. r[i] = s[p[i]] /\ r[j] = s[p[j]]
    BY Zenon, <1>4
  <2>2. pri[s[p[i]]] \in Int /\ pri[s[p[j]]] \in Int
    BY Zenon, <1>3
  <2>3. pri[s[p[i]]] > pri[s[p[j]]] \/ pri[s[p[i]]] = pri[s[p[j]]]
    BY Zenon, <1>2
  <2> QED BY <2>1, <2>2, <2>3
<1> QED BY Zenon, <1>4, <1>6, <1>7, <1>8

USE ConstantsAssumption

-----------------------------------------------------------------------------
(* What the scheduler's operations do to the lists.  Other invariants look *)
(* at a status only to ask whether a thread is blocked and whether it is   *)
(* alive, and switching threads changes neither.                           *)

SameKind(st) ==
  \A t \in Thread \ {Idle} :
    /\ status'[t] = "BLOCKED" <=> st[t] = "BLOCKED"
    /\ status'[t] \in {"FREE", "DYING"} <=> st[t] \in {"FREE", "DYING"}

SchedType ==
  /\ cur \in Thread
  /\ status \in [Thread -> Status]
  /\ ready_list \in Seq(Thread)
  /\ thread_ticks \in 0 .. TIME_SLICE

(* schedule() turns a consistent run queue into a consistent one. *)
LEMMA ScheduleStep ==
  ASSUME SchedType, NEW rl \in Seq(Thread), NEW st \in [Thread -> Status],
         NoDuplicates(rl), Idle \notin Range(rl),
         \A t \in Thread \ {Idle} : t \in Range(rl) <=> st[t] = "READY",
         \A t \in Thread : st[t] # "RUNNING",
         st[Idle] \notin {"FREE", "DYING"},
         schedule(rl, st)
  PROVE  SchedType' /\ SchedInv' /\ thread_ticks' = 0 /\ SameKind(st)
<1> DEFINE next == next_thread_to_run(rl)
           rest == IF rl = <<>> THEN rl ELSE Tail(rl)
           swept == IF st[cur] = "DYING" /\ cur # Main
                    THEN [st EXCEPT ![cur] = "FREE"] ELSE st
<1>1. /\ cur' = next /\ ready_list' = rest
      /\ status' = [swept EXCEPT ![next] = "RUNNING"] /\ thread_ticks' = 0
  BY Zenon DEF schedule
<1>2. /\ next \in Thread /\ rest \in Seq(Thread)
      /\ NoDuplicates(rest)
      /\ Range(rest) = Range(rl) \ {next}
      /\ next = Idle \/ next \in Range(rl)
  <2>1. CASE rl = <<>>
    BY <2>1 DEF next_thread_to_run, Range
  <2>2. CASE rl # <<>>
    <3>1. Head(rl) \in Range(rl) /\ Range(Tail(rl)) = Range(rl) \ {Head(rl)}
          /\ NoDuplicates(Tail(rl)) /\ Tail(rl) \in Seq(Thread)
      BY Zenon, <2>2, TailProperties
    <3>2. Head(rl) \in Thread
      BY <2>2
    <3> QED BY Zenon, <2>2, <3>1, <3>2 DEF next_thread_to_run
  <2> QED BY Zenon, <2>1, <2>2
<1> HIDE DEF next, rest
<1>3. /\ swept \in [Thread -> Status]
      /\ \A t \in Thread :
           swept[t] = IF t = cur /\ st[cur] = "DYING" /\ cur # Main THEN "FREE" ELSE st[t]
  BY Zenon DEF SchedType, Status
<1> HIDE DEF swept
<1>4. /\ status' \in [Thread -> Status]
      /\ \A t \in Thread : status'[t] = IF t = next THEN "RUNNING" ELSE swept[t]
  BY Zenon, <1>1, <1>2, <1>3 DEF Status
<1>5. SchedType'
  BY <1>1, <1>2, <1>4 DEF SchedType
<1>6. next # Idle => st[next] = "READY"
  BY Zenon, <1>2
<1>7. SameKind(st)
  BY Zenon, <1>3, <1>4, <1>6 DEF SameKind
<1>8. SchedInv'
  <2>1. NoDuplicates(ready_list') /\ Idle \notin Range(ready_list')
    BY Zenon, <1>1, <1>2
  <2>2. \A t \in Thread \ {Idle} : t \in Range(ready_list') <=> status'[t] = "READY"
    BY Zenon, <1>1, <1>2, <1>3, <1>4
  <2>3. \A t \in Thread : status'[t] = "RUNNING" <=> t = cur'
    BY Zenon, <1>1, <1>3, <1>4
  <2>4. Live(Idle)'
    BY Zenon, <1>3, <1>4 DEF Live
  <2> QED BY Zenon, <2>1, <2>2, <2>3, <2>4 DEF SchedInv
<1> QED BY Zenon, <1>1, <1>5, <1>7, <1>8

(* Priorities are integers, as the facts about lists have it. *)
LEMMA PriorityInt ==
  ASSUME priority \in [Thread -> Priority]
  PROVE  priority \in [Thread -> Int]
<1>1. Priority \subseteq Int
  OBVIOUS
<1> HIDE ConstantsAssumption
<1> QED BY Zenon, <1>1

(* thread_block *)
LEMMA BlockStep ==
  ASSUME SchedType, SchedInv, thread_block
  PROVE  /\ SchedType' /\ SchedInv' /\ thread_ticks' = 0
         /\ SameKind([status EXCEPT ![cur] = "BLOCKED"])
<1> DEFINE st == [status EXCEPT ![cur] = "BLOCKED"]
<1>1. st \in [Thread -> Status] /\ \A t \in Thread : st[t] = IF t = cur THEN "BLOCKED" ELSE status[t]
  BY Zenon DEF SchedType, Status
<1>2. schedule(ready_list, st)
  BY Zenon DEF thread_block
<1> HIDE DEF st
<1>3. ready_list \in Seq(Thread) /\ NoDuplicates(ready_list) /\ Idle \notin Range(ready_list)
  BY Zenon DEF SchedType, SchedInv
<1>4. /\ \A t \in Thread \ {Idle} : t \in Range(ready_list) <=> st[t] = "READY"
      /\ \A t \in Thread : st[t] # "RUNNING"
      /\ st[Idle] \notin {"FREE", "DYING"}
  BY Zenon, <1>1 DEF SchedType, SchedInv, Live
<1>5. SchedType' /\ SchedInv' /\ thread_ticks' = 0 /\ SameKind(st)
  BY Zenon, <1>1, <1>2, <1>3, <1>4, ScheduleStep
<1> QED BY Zenon, <1>5 DEF st

(* thread_yield *)
LEMMA YieldStep ==
  ASSUME SchedType, SchedInv, priority \in [Thread -> Priority], thread_yield
  PROVE  SchedType' /\ SchedInv' /\ thread_ticks' = 0 /\ SameKind(status)
<1> DEFINE st == [status EXCEPT ![cur] = "READY"]
           rl == IF cur = Idle THEN ready_list ELSE list_insert_ordered(ready_list, cur, priority)
<1>1. st \in [Thread -> Status] /\ \A t \in Thread : st[t] = IF t = cur THEN "READY" ELSE status[t]
  BY Zenon DEF SchedType, Status
<1>2. schedule(rl, st)
  BY Zenon DEF thread_yield
<1>3. /\ rl \in Seq(Thread) /\ NoDuplicates(rl)
      /\ Range(rl) = IF cur = Idle THEN Range(ready_list) ELSE Range(ready_list) \cup {cur}
  <2>1. ready_list \in Seq(Thread) /\ NoDuplicates(ready_list) /\ cur \in Thread
    BY Zenon DEF SchedType, SchedInv
  <2>2. cur # Idle => cur \notin Range(ready_list)
    BY Zenon DEF SchedType, SchedInv
  <2>3. priority \in [Thread -> Int]
    BY Zenon, PriorityInt
  <2>4. CASE cur # Idle
    <3> DEFINE r == list_insert_ordered(ready_list, cur, priority)
    <3>1. r \in Seq(Thread) /\ Range(r) = Range(ready_list) \cup {cur} /\ NoDuplicates(r)
      BY <2>1, <2>2, <2>3, <2>4, InsertProperties
    <3> QED BY Zenon, <3>1, <2>4
  <2> QED BY Zenon, <2>1, <2>4
<1> HIDE DEF st, rl
<1>4. /\ Idle \notin Range(rl)
      /\ \A t \in Thread \ {Idle} : t \in Range(rl) <=> st[t] = "READY"
      /\ \A t \in Thread : st[t] # "RUNNING"
      /\ st[Idle] \notin {"FREE", "DYING"}
  BY <1>1, <1>3 DEF SchedType, SchedInv, Live
<1>5. SchedType' /\ SchedInv' /\ thread_ticks' = 0 /\ SameKind(st)
  BY Zenon, <1>1, <1>2, <1>3, <1>4, ScheduleStep
<1>6. SameKind(status)
  BY Zenon, <1>1, <1>5 DEF SameKind, SchedInv, SchedType
<1> QED BY Zenon, <1>5, <1>6

(* thread_unblock *)
LEMMA UnblockStep ==
  ASSUME SchedType, SchedInv, priority \in [Thread -> Priority],
         NEW t \in Thread \ {Idle}, status[t] = "BLOCKED", thread_unblock(t)
  PROVE  /\ SchedType' /\ SchedInv' /\ UNCHANGED <<cur, thread_ticks>>
         /\ SameKind([status EXCEPT ![t] = "READY"])
<1>1. /\ status' \in [Thread -> Status]
      /\ \A u \in Thread : status'[u] = IF u = t THEN "READY" ELSE status[u]
      /\ status' = [status EXCEPT ![t] = "READY"]
  BY Zenon DEF thread_unblock, SchedType, Status
<1>2. /\ ready_list' \in Seq(Thread) /\ NoDuplicates(ready_list')
      /\ Range(ready_list') = Range(ready_list) \cup {t}
  <2>1. ready_list \in Seq(Thread) /\ NoDuplicates(ready_list) /\ t \notin Range(ready_list)
    BY Zenon DEF SchedType, SchedInv
  <2>2. priority \in [Thread -> Int]
    BY Zenon, PriorityInt
  <2> DEFINE r == list_insert_ordered(ready_list, t, priority)
  <2>3. r \in Seq(Thread) /\ Range(r) = Range(ready_list) \cup {t} /\ NoDuplicates(r)
    BY <2>1, <2>2, InsertProperties
  <2> QED BY Zenon, <2>3 DEF thread_unblock
<1>3. UNCHANGED <<cur, thread_ticks>>
  BY Zenon DEF thread_unblock
<1>4. SchedType'
  BY Zenon, <1>1, <1>2, <1>3 DEF SchedType
<1>5. SchedInv'
  BY Zenon, <1>1, <1>2, <1>3 DEF SchedInv, SchedType, Live
<1> QED BY Zenon, <1>1, <1>3, <1>4, <1>5 DEF SameKind

-----------------------------------------------------------------------------
(* The rest of the invariant, by what a step changes. *)

(* What BlockedInv, WaitInv and LabelInv say is about the labels, the       *)
(* lists and the kinds of status.                                          *)
WhereInv == BlockedInv /\ WaitInv /\ LabelInv

TypeRest ==
  /\ priority \in [Thread -> Priority]
  /\ blocked_list \in SUBSET Thread
  /\ value \in [Object -> Nat]
  /\ waiters \in [Object -> Seq(Thread)]
  /\ holder \in [Lock -> Thread \cup {NULL}]
  /\ pc \in [Thread -> Label]
  /\ obj \in [Thread -> Object \cup Thread \cup {NULL}]
  /\ irq \in {"none", "block_check", "return", "panic"}
  /\ yield_on_return \in BOOLEAN

(* The two halves of the type invariant. *)
LEMMA TypeParts == TypeOK <=> SchedType /\ TypeRest
BY Zenon DEF TypeOK, SchedType, TypeRest

(* Nothing but the running thread and the order of the run queue changes. *)
LEMMA WhereFrame ==
  ASSUME TypeOK, SchedInv, WhereInv, SchedInv', SameKind(status),
         UNCHANGED <<pc, obj, waiters, blocked_list, holder>>
  PROVE  WhereInv'
<1>1. \A t \in Thread : ~Live(t)' <=> ~Live(t)
  BY Zenon DEF SameKind, SchedInv, Live
<1>2. BlockedInv'
  BY Zenon DEF SameKind, WhereInv, BlockedInv
<1>3. WaitInv'
  BY DEF SameKind, WhereInv, WaitInv, WaitersInv, SleepersInv, CreatorsInv, TypeOK, Range
<1>4. LabelInv'
  BY Zenon, <1>1 DEF SameKind, WhereInv, LabelInv, SchedInv, Live, WaitInv, WaitersInv, SleepersInv,
     CreatorsInv
<1> QED BY Zenon, <1>2, <1>3, <1>4 DEF WhereInv

(* A step changes the owner of at most one lock, and then it is the        *)
(* running thread that takes a free lock or lets go of one of its own.     *)
OwnersChange ==
  \/ \A l \in Lock, t \in Thread : Owns(t, l)' <=> Owns(t, l)
  \/ \E o \in Lock :
       /\ \A t \in Thread : ~Owns(t, o)
       /\ \A l \in Lock, t \in Thread : Owns(t, l)' <=> Owns(t, l) \/ (l = o /\ t = cur)
  \/ \E o \in Lock :
       /\ Owns(cur, o)
       /\ \A l \in Lock, t \in Thread : Owns(t, l)' <=> Owns(t, l) /\ (l = o => t # cur)

(* The owners of the locks stay what they are. *)
LEMMA OwnersFrame ==
  ASSUME MutualExclusion,
         \A l \in Lock : value'[l] = value[l] /\ \A t \in Thread : Owns(t, l)' <=> Owns(t, l)
  PROVE  MutualExclusion' /\ OwnersChange
BY Zenon DEF MutualExclusion, OwnersChange

(* The running thread moves between two labels at which it owns nothing by *)
(* its label and is found on no list.                                      *)
LEMMA WhereGoto ==
  ASSUME TypeOK, SchedInv, WhereInv, SchedInv', SameKind(status),
         UNCHANGED <<waiters, blocked_list, holder>>,
         NEW l \in {"run", "yield"}, cur # Idle, pc[cur] \in {"run", "yield", "asleep"},
         Goto(l, NULL)
  PROVE  WhereInv'
<1>1. /\ cur \in Thread /\ status[cur] = "RUNNING"
      /\ \A t \in Thread : /\ pc'[t] = IF t = cur THEN l ELSE pc[t]
                           /\ obj'[t] = IF t = cur THEN NULL ELSE obj[t]
  BY Zenon DEF Goto, TypeOK, SchedInv
<1>2. \A t \in Thread : ~Live(t)' <=> ~Live(t)
  BY Zenon DEF SameKind, SchedInv, Live
<1>3. cur \notin blocked_list /\ \A o \in Object : cur \notin Range(waiters[o])
  BY Zenon, <1>1 DEF WhereInv, WaitInv, WaitersInv, SleepersInv, CreatorsInv
<1>4. BlockedInv'
  BY <1>1 DEF SameKind, WhereInv, BlockedInv
<1>5. WaitInv'
  <2>1. WaitersInv'
    BY <1>1, <1>3 DEF SameKind, WhereInv, WaitInv, WaitersInv, TypeOK, Range
  <2>2. SleepersInv'
    BY Zenon, <1>1, <1>3 DEF SameKind, WhereInv, WaitInv, SleepersInv, TypeOK
  <2>3. CreatorsInv'
    BY <1>1 DEF SameKind, WhereInv, WaitInv, CreatorsInv
  <2> QED BY Zenon, <2>1, <2>2, <2>3 DEF WaitInv
<1>6. LabelInv'
  BY <1>1, <1>2 DEF SameKind, WhereInv, LabelInv, SchedInv, Live
<1> QED BY Zenon, <1>4, <1>5, <1>6 DEF WhereInv

-----------------------------------------------------------------------------
(* The invariant holds at the start of main. *)
LEMMA InitIInv == Init => IInv
<1> SUFFICES ASSUME Init PROVE IInv
  BY Zenon
<1>1. TypeOK
  <2>1. priority \in [Thread -> Priority]
    BY Zenon DEF Init
  <2>2. SchedType
    BY DEF Init, SchedType, Status
  <2>3. /\ value \in [Object -> Nat] /\ waiters \in [Object -> Seq(Thread)]
        /\ holder \in [Lock -> Thread \cup {NULL}]
    BY DEF Init
  <2>4. /\ pc \in [Thread -> Label] /\ obj \in [Thread -> Object \cup Thread \cup {NULL}]
        /\ irq \in {"none", "block_check", "return", "panic"} /\ blocked_list \in SUBSET Thread
    BY Zenon DEF Init, Label
  <2>5. yield_on_return \in BOOLEAN
    BY Zenon DEF Init
  <2> QED BY Zenon, <2>1, <2>2, <2>3, <2>4, <2>5, TypeParts DEF TypeRest
<1>2. SchedInv
  BY DEF Init, SchedInv, Live, NoDuplicates, Range
<1>3. TickInv
  BY DEF Init, TickInv
<1>4. BlockedInv
  BY Zenon DEF Init, BlockedInv
<1>5. WaitInv
  BY DEF Init, WaitInv, WaitersInv, SleepersInv, CreatorsInv, NoDuplicates, Range
<1>6. LabelInv
  BY Zenon DEF Init, LabelInv, Live
<1>7. MutualExclusion
  BY DEF Init, MutualExclusion, Owns, Object
<1> QED BY Zenon, <1>1, <1>2, <1>3, <1>4, <1>5, <1>6, <1>7 DEF IInv

-----------------------------------------------------------------------------
(* sema_up wakes a set W of at most one thread, and W leaves every list. *)
LEMMA SemaUpStep ==
  ASSUME TypeOK, SchedInv, WhereInv, NEW o \in Object, sema_up(o)
  PROVE  /\ SchedType' /\ SchedInv' /\ UNCHANGED <<cur, thread_ticks>>
         /\ value' \in [Object -> Nat] /\ waiters' \in [Object -> Seq(Thread)]
         /\ value' = [value EXCEPT ![o] = @ + 1]
         /\ \E W \in SUBSET Range(waiters[o]) :
              /\ \A p \in Object : /\ NoDuplicates(waiters'[p])
                                   /\ Range(waiters'[p]) = Range(waiters[p]) \ W
              /\ \A t \in Thread \ {Idle} :
                   /\ status'[t] = "BLOCKED" <=> status[t] = "BLOCKED" /\ t \notin W
                   /\ Live(t)' <=> Live(t)
<1>1. value' \in [Object -> Nat] /\ value' = [value EXCEPT ![o] = @ + 1]
  BY DEF sema_up, TypeOK
<1>2. SchedType /\ priority \in [Thread -> Priority] /\ waiters \in [Object -> Seq(Thread)]
  BY Zenon, TypeParts DEF TypeRest
<1>3. CASE waiters[o] = <<>>
  <2>1. UNCHANGED <<cur, status, ready_list, thread_ticks, waiters>>
    BY Zenon, <1>3 DEF sema_up, schedVars
  <2>2. SchedType' /\ SchedInv'
    BY Zenon, <2>1, <1>2 DEF SchedType, SchedInv, Live
  <2>3. \A p \in Object : NoDuplicates(waiters'[p]) /\ Range(waiters'[p]) = Range(waiters[p]) \ {}
    BY Zenon, <2>1 DEF WhereInv, WaitInv, WaitersInv
  <2>4. \A t \in Thread \ {Idle} :
                   /\ status'[t] = "BLOCKED" <=> status[t] = "BLOCKED" /\ t \notin {}
                   /\ Live(t)' <=> Live(t)
    BY Zenon, <2>1 DEF Live
  <2> QED BY Zenon, <1>1, <1>2, <2>1, <2>2, <2>3, <2>4
<1>4. CASE waiters[o] # <<>>
  <2> DEFINE h == Head(waiters[o])
  <2>1. /\ h \in Range(waiters[o]) /\ Tail(waiters[o]) \in Seq(Thread)
        /\ Range(Tail(waiters[o])) = Range(waiters[o]) \ {h} /\ NoDuplicates(Tail(waiters[o]))
    <3>1. waiters[o] \in Seq(Thread) /\ NoDuplicates(waiters[o])
      BY Zenon, <1>2 DEF WhereInv, WaitInv, WaitersInv
    <3>2. priority \in [Thread -> Int]
      BY Zenon, <1>2, PriorityInt
    <3> QED BY Zenon, <1>4, <3>1, <3>2, TailProperties
  <2>2. h \in Thread \ {Idle} /\ status[h] = "BLOCKED" /\ obj[h] = o
    <3>1. waiters[o] \in Seq(Thread)
      BY Zenon, <1>2
    <3>2. h \in Thread
      BY <1>4, <3>1
    <3> QED BY Zenon, <2>1, <3>2 DEF WhereInv, WaitInv, WaitersInv
  <2>3. thread_unblock(h) /\ waiters' = [waiters EXCEPT ![o] = Tail(@)]
    BY Zenon, <1>4 DEF sema_up
  <2> HIDE DEF h
  <2>4. SchedType' /\ SchedInv' /\ UNCHANGED <<cur, thread_ticks>>
    BY Zenon, <1>2, <2>2, <2>3, UnblockStep
  <2>5. \A t \in Thread \ {Idle} :
          /\ status'[t] = "BLOCKED" <=> status[t] = "BLOCKED" /\ t \notin {h}
          /\ Live(t)' <=> Live(t)
    BY Zenon, <1>2, <2>2, <2>3 DEF thread_unblock, Live, SchedType
  <2>6. \A p \in Object : waiters'[p] = IF p = o THEN Tail(waiters[o]) ELSE waiters[p]
    BY Zenon, <1>2, <2>3
  <2>7. waiters' \in [Object -> Seq(Thread)]
    BY Zenon, <1>2, <2>1, <2>3
  <2>8. \A p \in Object : NoDuplicates(waiters'[p]) /\ Range(waiters'[p]) = Range(waiters[p]) \ {h}
    <3> SUFFICES ASSUME NEW p \in Object
                 PROVE  NoDuplicates(waiters'[p]) /\ Range(waiters'[p]) = Range(waiters[p]) \ {h}
      BY Zenon
    <3>1. CASE p = o
      BY Zenon, <2>1, <2>6, <3>1
    <3>2. CASE p # o
      <4>1. h \notin Range(waiters[p])
        BY Zenon, <2>2, <3>2 DEF WhereInv, WaitInv, WaitersInv
      <4>2. waiters'[p] = waiters[p] /\ NoDuplicates(waiters[p])
        BY Zenon, <2>6, <3>2 DEF WhereInv, WaitInv, WaitersInv
      <4> QED BY Zenon, <4>1, <4>2
    <3> QED BY Zenon, <3>1, <3>2
  <2>9. {h} \in SUBSET Range(waiters[o])
    BY Zenon, <2>1
  <2> QED BY Zenon, <1>1, <2>4, <2>5, <2>7, <2>8, <2>9
<1> QED BY Zenon, <1>3, <1>4

-----------------------------------------------------------------------------
(* The steps of the timer interrupt and of the idle thread. *)

(* The steps of the timer interrupt and of the idle thread keep the invariant. *)
LEMMA TimerSteps ==
  ASSUME IInv, TimerInterrupt \/ BlockCheckDone \/ IdleBlock \/ IntrReturn
  PROVE  IInv' /\ OwnersChange
<1> USE DEF IInv
<1>1. SchedType /\ TypeRest
  BY Zenon, TypeParts
<1>2. UNCHANGED <<pc, obj, waiters, blocked_list, holder, value, priority>>
  BY Zenon DEF TimerInterrupt, BlockCheckDone, IdleBlock, IntrReturn, syncVars, intrVars
<1>3. SchedType' /\ SchedInv' /\ TickInv' /\ SameKind(status)
      /\ irq' \in {"none", "block_check", "return", "panic"} /\ yield_on_return' \in BOOLEAN
  <2>1. CASE TimerInterrupt
    <3>1. UNCHANGED <<cur, status, ready_list>> /\ irq = "none" /\ irq' = "block_check"
          /\ thread_ticks' = thread_ticks + 1
          /\ yield_on_return' = (thread_ticks + 1 >= TIME_SLICE)
      BY Zenon, <2>1 DEF TimerInterrupt
    <3>2. SchedInv' /\ SameKind(status)
      BY Zenon, <3>1 DEF SchedInv, SameKind, Live
    <3>3. thread_ticks' \in 0 .. TIME_SLICE
      BY <3>1, <1>1 DEF TickInv, SchedType
    <3>4. SchedType'
      BY Zenon, <3>1, <3>3, <1>1 DEF SchedType
    <3>5. TickInv'
      BY Zenon, <3>1, <1>1 DEF TickInv, SchedType
    <3> QED BY <3>1, <3>2, <3>4, <3>5
  <2>2. CASE BlockCheckDone
    <3>1. UNCHANGED <<cur, status, ready_list, thread_ticks, yield_on_return>>
          /\ irq = "block_check" /\ irq' = "return"
      BY Zenon, <2>2 DEF BlockCheckDone, schedVars
    <3>2. SchedInv' /\ SchedType' /\ SameKind(status)
      BY Zenon, <3>1, <1>1 DEF SchedInv, SchedType, SameKind, Live
    <3>3. TickInv'
      BY Zenon, <3>1 DEF TickInv
    <3> QED BY Zenon, <3>1, <3>2, <3>3, <1>1 DEF TypeRest
  <2>3. CASE IdleBlock
    <3>1. thread_block /\ cur = Idle /\ irq = "none" /\ UNCHANGED <<irq, yield_on_return>>
      BY Zenon, <2>3 DEF IdleBlock, intrVars
    <3>2. SchedType' /\ SchedInv' /\ thread_ticks' = 0 /\ SameKind([status EXCEPT ![cur] = "BLOCKED"])
      BY Zenon, <3>1, <1>1, BlockStep
    <3>3. SameKind(status)
      BY Zenon, <3>1, <3>2, <1>1 DEF SameKind, SchedType
    <3>4. TickInv'
      BY <3>1, <3>2 DEF TickInv
    <3> QED BY Zenon, <3>1, <3>2, <3>3, <3>4, <1>1 DEF TypeRest
  <2>4. CASE IntrReturn
    <3>1. irq = "return" /\ irq' = "none" /\ yield_on_return' = FALSE
      BY Zenon, <2>4 DEF IntrReturn
    <3>2. CASE yield_on_return
      <4>1. thread_yield
        BY Zenon, <2>4, <3>2 DEF IntrReturn
      <4>2. SchedType' /\ SchedInv' /\ thread_ticks' = 0 /\ SameKind(status)
        BY Zenon, <4>1, <1>1, YieldStep DEF TypeRest
      <4>3. TickInv'
        BY <3>1, <4>2 DEF TickInv
      <4> QED BY Zenon, <3>1, <4>2, <4>3
    <3>3. CASE ~yield_on_return
      <4>1. UNCHANGED <<cur, status, ready_list, thread_ticks>>
        BY Zenon, <2>4, <3>3 DEF IntrReturn, schedVars
      <4>2. SchedInv' /\ SchedType' /\ SameKind(status)
        BY Zenon, <4>1, <1>1 DEF SchedInv, SchedType, SameKind, Live
      <4>3. TickInv'
        BY <3>1, <3>3, <4>1, <1>1 DEF TickInv, SchedType
      <4> QED BY Zenon, <3>1, <4>2, <4>3
    <3> QED BY Zenon, <3>2, <3>3
  <2> QED BY Zenon, <2>1, <2>2, <2>3, <2>4
<1>4. TypeRest'
  BY Zenon, <1>1, <1>2, <1>3 DEF TypeRest
<1>5. TypeOK'
  BY Zenon, <1>3, <1>4 DEF TypeOK, SchedType, TypeRest
<1>6. WhereInv'
  BY Zenon, <1>2, <1>3, WhereFrame DEF WhereInv
<1>7. MutualExclusion' /\ OwnersChange
  BY Zenon, <1>2, OwnersFrame DEF Owns
<1> QED BY Zenon, <1>3, <1>5, <1>6, <1>7 DEF WhereInv

(* calculate_priority *)
LEMMA PriorityStep ==
  ASSUME IInv, NEW pri \in [Thread -> Priority], CalculatePriority(pri)
  PROVE  IInv' /\ OwnersChange
<1> USE DEF IInv
<1>1. SchedType /\ TypeRest
  BY Zenon, TypeParts
<1>2. UNCHANGED <<cur, status, thread_ticks, pc, obj, waiters, blocked_list, holder, value>>
  BY Zenon DEF CalculatePriority, syncVars
<1>3. /\ priority' \in [Thread -> Priority]
      /\ irq = "block_check" /\ irq' = "return"
      /\ ready_list' \in list_sort(ready_list, priority')
  BY Zenon, <1>1 DEF CalculatePriority, TypeRest
<1>4. yield_on_return => yield_on_return'
  BY Zenon DEF CalculatePriority
<1>5. yield_on_return' \in BOOLEAN
  BY Zenon DEF CalculatePriority
<1>6. /\ ready_list' \in Seq(Thread) /\ NoDuplicates(ready_list')
      /\ Range(ready_list') = Range(ready_list)
  <2>1. Priority \subseteq Int
    OBVIOUS
  <2>2. priority' \in [Thread -> Int]
    BY Zenon, <1>3, <2>1
  <2>3. ready_list \in Seq(Thread) /\ NoDuplicates(ready_list)
    BY Zenon, <1>1 DEF SchedType, SchedInv
  <2> QED BY <1>3, <2>2, <2>3, SortProperties
<1>7. SchedType' /\ SchedInv' /\ SameKind(status)
  BY Zenon, <1>1, <1>2, <1>6 DEF SchedType, SchedInv, SameKind, Live
<1>8. TickInv'
  BY Zenon, <1>2, <1>3, <1>4 DEF TickInv
<1>9. TypeRest'
  BY Zenon, <1>1, <1>2, <1>3, <1>5 DEF TypeRest
<1>10. TypeOK'
  BY Zenon, <1>7, <1>9 DEF TypeOK, SchedType, TypeRest
<1>11. WhereInv'
  BY Zenon, <1>2, <1>7, WhereFrame DEF WhereInv
<1>12. MutualExclusion' /\ OwnersChange
  BY Zenon, <1>2, OwnersFrame DEF Owns
<1> QED BY Zenon, <1>7, <1>8, <1>10, <1>11, <1>12 DEF WhereInv

-----------------------------------------------------------------------------
(* The steps in which the running thread changes only its own place. *)
LEMMA GotoSteps ==
  ASSUME IInv, ThreadYield \/ SleepReturn \/ \E p \in Priority : ThreadSetPriority(p)
  PROVE  IInv' /\ OwnersChange
<1> USE DEF IInv
<1>1. SchedType /\ TypeRest
  BY Zenon, TypeParts
<1>2. /\ UNCHANGED <<waiters, blocked_list, holder, value, irq, yield_on_return>>
      /\ irq = "none" /\ cur # Idle /\ pc[cur] \in {"run", "yield", "asleep"}
  BY Zenon DEF ThreadYield, SleepReturn, ThreadSetPriority, At, syncVars, intrVars
<1>3. PICK l \in {"run", "yield"} : Goto(l, NULL)
  BY Zenon DEF ThreadYield, SleepReturn, ThreadSetPriority, YieldIf
<1>4. priority' \in [Thread -> Priority]
  BY Zenon, <1>1 DEF ThreadYield, SleepReturn, ThreadSetPriority, TypeRest
<1>5. SchedType' /\ SchedInv' /\ SameKind(status) /\ TickInv'
  <2>1. CASE ThreadYield
    <3>1. SchedType' /\ SchedInv' /\ thread_ticks' = 0 /\ SameKind(status)
      BY Zenon, <2>1, <1>1, YieldStep DEF ThreadYield, TypeRest
    <3> QED BY <3>1, <1>2 DEF TickInv
  <2>2. CASE ~ThreadYield
    <3>1. UNCHANGED <<cur, status, ready_list, thread_ticks>>
      BY Zenon, <2>2 DEF SleepReturn, ThreadSetPriority, schedVars
    <3> QED BY Zenon, <1>1, <1>2, <3>1 DEF SchedType, SchedInv, SameKind, Live, TickInv
  <2> QED BY Zenon, <2>1, <2>2
<1>6. /\ pc' \in [Thread -> Label] /\ obj' \in [Thread -> Object \cup Thread \cup {NULL}]
      /\ \A t \in Thread : /\ pc'[t] = IF t = cur THEN l ELSE pc[t]
                           /\ obj'[t] = IF t = cur THEN NULL ELSE obj[t]
  BY Zenon, <1>1, <1>3 DEF Goto, TypeRest, Label
<1>7. TypeRest'
  BY Zenon, <1>1, <1>2, <1>4, <1>6 DEF TypeRest
<1>8. TypeOK'
  BY Zenon, <1>5, <1>7 DEF TypeOK, SchedType, TypeRest
<1>9. WhereInv'
  BY Zenon, <1>2, <1>3, <1>5, WhereGoto DEF WhereInv
<1>10. MutualExclusion' /\ OwnersChange
  <2>1. \A k \in Lock, t \in Thread : Owns(t, k)' <=> Owns(t, k)
    BY Zenon, <1>2, <1>6 DEF Owns
  <2> QED BY Zenon, <1>2, <2>1, OwnersFrame
<1> QED BY Zenon, <1>5, <1>8, <1>9, <1>10 DEF WhereInv

-----------------------------------------------------------------------------
(* The steps of semaphores and locks that neither block nor wake a thread. *)

(* The running thread goes on, and every thread stays where it is. *)
LEMMA PlaceStep ==
  ASSUME TypeOK, SchedInv, WhereInv,
         UNCHANGED <<cur, status, waiters, blocked_list>>,
         cur # Idle, pc[cur] # "create",
         NEW l \in Label \ {"create", "start"}, NEW o \in Object \cup {NULL}, Goto(l, o)
  PROVE  /\ BlockedInv' /\ WaitInv'
         /\ cur \in Thread /\ status[cur] = "RUNNING"
         /\ pc' \in [Thread -> Label] /\ obj' \in [Thread -> Object \cup Thread \cup {NULL}]
         /\ \A t \in Thread : /\ pc'[t] = IF t = cur THEN l ELSE pc[t]
                              /\ obj'[t] = IF t = cur THEN o ELSE obj[t]
<1>1. /\ cur \in Thread /\ status[cur] = "RUNNING"
      /\ pc' \in [Thread -> Label] /\ obj' \in [Thread -> Object \cup Thread \cup {NULL}]
      /\ \A t \in Thread : /\ pc'[t] = IF t = cur THEN l ELSE pc[t]
                           /\ obj'[t] = IF t = cur THEN o ELSE obj[t]
  BY Zenon DEF Goto, TypeOK, SchedInv
<1>2. cur \notin blocked_list /\ \A p \in Object : cur \notin Range(waiters[p])
  BY Zenon, <1>1 DEF WhereInv, WaitInv, WaitersInv, SleepersInv, CreatorsInv
<1>3. BlockedInv'
  BY <1>1 DEF WhereInv, BlockedInv
<1>4. WaitInv'
  <2>1. \A p \in Object : \A t \in Range(waiters[p]) : t \in Thread /\ t # cur
    <3>1. \A p \in Object : waiters[p] \in Seq(Thread)
      BY Zenon DEF TypeOK
    <3> QED BY <1>2, <3>1 DEF Range
  <2>2. WaitersInv'
    <3> SUFFICES ASSUME NEW p \in Object
                 PROVE  /\ NoDuplicates(waiters[p])
                        /\ \A t \in Range(waiters[p]) :
                             t # Idle /\ status[t] = "BLOCKED" /\ pc'[t] = "down" /\ obj'[t] = p
      BY Zenon DEF WaitersInv
    <3>1. \A t \in Range(waiters[p]) : pc'[t] = pc[t] /\ obj'[t] = obj[t]
      BY Zenon, <1>1, <2>1
    <3> QED BY Zenon, <3>1 DEF WhereInv, WaitInv, WaitersInv
  <2>3. SleepersInv'
    <3>1. \A t \in blocked_list : t \in Thread /\ t # cur
      BY Zenon, <1>2 DEF TypeOK
    <3> QED BY Zenon, <1>1, <3>1 DEF WhereInv, WaitInv, SleepersInv
  <2>4. CreatorsInv'
    <3>1. \A w \in Thread : pc'[w] = "create" => w # cur /\ pc[w] = "create" /\ obj'[w] = obj[w]
      BY Zenon, <1>1
    <3>2. \A t \in Thread : status[t] = "BLOCKED" => t # cur /\ pc'[t] = pc[t]
      BY Zenon, <1>1
    <3> SUFFICES ASSUME NEW u \in Thread, pc'[u] = "create"
                 PROVE  /\ obj'[u] \in Thread \ {Idle}
                        /\ status[obj'[u]] = "BLOCKED" /\ pc'[obj'[u]] = "start"
                        /\ \A w \in Thread : pc'[w] = "create" /\ obj'[w] = obj'[u] => w = u
      BY Zenon DEF CreatorsInv
    <3>3. /\ obj[u] \in Thread \ {Idle}
          /\ status[obj[u]] = "BLOCKED" /\ pc[obj[u]] = "start"
          /\ \A w \in Thread : pc[w] = "create" /\ obj[w] = obj[u] => w = u
      BY Zenon, <3>1 DEF WhereInv, WaitInv, CreatorsInv
    <3> QED BY Zenon, <3>1, <3>2, <3>3
  <2> QED BY Zenon, <2>2, <2>3, <2>4 DEF WaitInv
<1> QED BY Zenon, <1>1, <1>3, <1>4

LocalChange ==
  /\ UNCHANGED <<cur, status, ready_list, thread_ticks, priority, blocked_list,
                 waiters, irq, yield_on_return>>
  /\ irq = "none" /\ cur # Idle

(* The running thread's own steps keep the invariant. *)
LEMMA LocalSteps ==
  ASSUME IInv, LocalChange,
         value' \in [Object -> Nat], holder' \in [Lock -> Thread \cup {NULL}],
         NEW l \in Label \ {"create", "start"}, NEW o \in Object \cup {NULL}, Goto(l, o),
         pc[cur] # "create", LabelInv', MutualExclusion'
  PROVE  IInv'
<1> USE DEF IInv
<1>1. SchedType /\ TypeRest
  BY Zenon, TypeParts
<1>2. SchedType' /\ SchedInv' /\ TickInv'
  BY Zenon, <1>1 DEF LocalChange, SchedType, SchedInv, TickInv, Live
<1>3. /\ BlockedInv' /\ WaitInv'
      /\ pc' \in [Thread -> Label] /\ obj' \in [Thread -> Object \cup Thread \cup {NULL}]
  BY Zenon, PlaceStep DEF LocalChange, WhereInv
<1>4. TypeRest'
  BY Zenon, <1>1, <1>3 DEF TypeRest, LocalChange
<1>5. TypeOK'
  BY Zenon, <1>2, <1>4 DEF TypeOK, SchedType, TypeRest
<1> QED BY Zenon, <1>2, <1>3, <1>5

(* The steps of sema_down keep it. *)
LEMMA DownSteps ==
  ASSUME IInv, \/ \E s \in Sema : SemaDown(s)
               \/ \E l \in Lock : LockAcquire(l)
  PROVE  IInv' /\ OwnersChange
<1> USE DEF IInv
<1>1. PICK o \in Object : Goto("down", o)
  BY Zenon DEF SemaDown, LockAcquire, Object
<1>2. LocalChange /\ UNCHANGED <<value, holder>> /\ pc[cur] = "run"
  BY Zenon DEF SemaDown, LockAcquire, LocalChange, At, schedVars, syncVars, intrVars
<1>3. /\ cur \in Thread /\ status[cur] = "RUNNING"
      /\ \A t \in Thread : /\ pc'[t] = IF t = cur THEN "down" ELSE pc[t]
                           /\ obj'[t] = IF t = cur THEN o ELSE obj[t]
  BY Zenon, <1>1, <1>2, PlaceStep DEF LocalChange, WhereInv, Label
<1>4. LabelInv'
  BY Zenon, <1>2, <1>3 DEF LabelInv, LocalChange, Live
<1>5. MutualExclusion' /\ OwnersChange
  <2>1. \A k \in Lock, t \in Thread : Owns(t, k)' <=> Owns(t, k)
    BY Zenon, <1>2, <1>3 DEF Owns
  <2> QED BY Zenon, <1>2, <2>1, OwnersFrame
<1>6. value' \in [Object -> Nat] /\ holder' \in [Lock -> Thread \cup {NULL}]
  BY Zenon, <1>2 DEF TypeOK
<1> QED BY Zenon, <1>1, <1>2, <1>4, <1>5, <1>6, LocalSteps DEF Label

(* sema_down gets a unit, or sema_try_down does. *)
LEMMA TakeSteps ==
  ASSUME IInv, DownTake \/ \E o \in Object : TryDown(o)
  PROVE  IInv' /\ OwnersChange
<1> USE DEF IInv
<1> DEFINE after(o) == IF o \in Lock THEN "set_holder" ELSE "run"
           kept(o) == IF o \in Lock THEN o ELSE NULL
<1>1. PICK o \in Object : value[o] > 0 /\ value' = [value EXCEPT ![o] = @ - 1]
                          /\ Goto(after(o), kept(o))
  <2>1. CASE DownTake
    <3>1. obj[cur] \in Object
      BY Zenon, <2>1 DEF DownTake, At, LabelInv, TypeOK
    <3> QED BY Zenon, <2>1, <3>1 DEF DownTake
  <2>2. CASE \E o \in Object : TryDown(o)
    BY Zenon, <2>2 DEF TryDown
  <2> QED BY Zenon, <2>1, <2>2
<1>2. LocalChange /\ UNCHANGED holder /\ pc[cur] \in {"run", "down"}
  BY Zenon DEF DownTake, TryDown, LocalChange, At, schedVars, intrVars
<1>3. /\ cur \in Thread /\ status[cur] = "RUNNING"
      /\ \A t \in Thread : /\ pc'[t] = IF t = cur THEN after(o) ELSE pc[t]
                           /\ obj'[t] = IF t = cur THEN kept(o) ELSE obj[t]
  <2>1. after(o) \in Label \ {"create", "start"} /\ kept(o) \in Object \cup {NULL}
    BY Zenon DEF Label, Object
  <2> HIDE DEF after, kept
  <2> QED BY Zenon, <1>1, <1>2, <2>1, PlaceStep DEF LocalChange, WhereInv
<1>4. /\ value' \in [Object -> Nat] /\ value[o] \in Nat
      /\ \A p \in Object : value'[p] = IF p = o THEN value[p] - 1 ELSE value[p]
  BY <1>1 DEF TypeOK
<1>5. o \in Lock => value[o] = 1 /\ holder[o] = NULL /\ \A t \in Thread : ~Owns(t, o)
  BY <1>1, <1>4 DEF MutualExclusion, Owns, TypeOK
<1>6. LabelInv'
  BY SMTT(30), <1>2, <1>3, <1>5 DEF LabelInv, LocalChange, Live
<1>7. MutualExclusion' /\ OwnersChange
  <2>1. \A k \in Lock, t \in Thread : Owns(t, k)' <=> Owns(t, k) \/ (k = o /\ t = cur)
    BY Zenon, <1>2, <1>3 DEF Owns
  <2>2. \A k \in Lock : k \in Object
    BY Zenon DEF Object
  <2>3. OwnersChange
    BY SMTT(30), <1>5, <2>1 DEF OwnersChange
  <2>4. ASSUME NEW k \in Lock
        PROVE  /\ \A t, u \in Thread : Owns(t, k)' /\ Owns(u, k)' => t = u
               /\ value'[k] \in {0, 1}
               /\ value'[k] = 0 <=> \E t \in Thread : Owns(t, k)'
    <3>1. CASE k = o
      <4>1. \A t \in Thread : Owns(t, k)' <=> t = cur
        BY Zenon, <1>5, <2>1, <3>1
      <4>2. value'[k] = 0
        BY <1>4, <1>5, <2>2, <3>1
      <4> QED BY Zenon, <1>3, <4>1, <4>2
    <3>2. CASE k # o
      <4>1. (\A t \in Thread : Owns(t, k)' <=> Owns(t, k)) /\ value'[k] = value[k]
        BY Zenon, <1>4, <2>1, <2>2, <3>2
      <4> QED BY Zenon, <4>1 DEF MutualExclusion
    <3> QED BY Zenon, <3>1, <3>2
  <2> QED BY Zenon, <2>3, <2>4 DEF MutualExclusion
<1>8. after(o) \in Label \ {"create", "start"} /\ kept(o) \in Object \cup {NULL}
  BY Zenon DEF Label, Object
<1>9. holder' \in [Lock -> Thread \cup {NULL}]
  BY Zenon, <1>2 DEF TypeOK
<1> HIDE DEF after, kept
<1> QED BY Zenon, <1>1, <1>2, <1>4, <1>6, <1>7, <1>8, <1>9, LocalSteps

(* The end of lock_acquire. *)
LEMMA SetHolderStep ==
  ASSUME IInv, SetHolder
  PROVE  IInv' /\ OwnersChange
<1> USE DEF IInv
<1>1. PICK l \in Lock : /\ pc[cur] = "set_holder" /\ obj[cur] = l
                        /\ holder' = [holder EXCEPT ![l] = cur] /\ Goto("run", NULL)
  BY Zenon DEF SetHolder, At, LabelInv, TypeOK
<1>2. LocalChange /\ UNCHANGED value
  BY Zenon DEF SetHolder, LocalChange, At, schedVars, intrVars
<1>3. /\ cur \in Thread /\ status[cur] = "RUNNING"
      /\ \A t \in Thread : /\ pc'[t] = IF t = cur THEN "run" ELSE pc[t]
                           /\ obj'[t] = IF t = cur THEN NULL ELSE obj[t]
  <2>1. "run" \in Label \ {"create", "start"} /\ NULL \in Object \cup {NULL}
    BY Zenon DEF Label, Object
  <2> QED BY Zenon, <1>1, <1>2, <2>1, PlaceStep DEF LocalChange, WhereInv
<1>4. /\ holder' \in [Lock -> Thread \cup {NULL}]
      /\ \A k \in Lock : holder'[k] = IF k = l THEN cur ELSE holder[k]
  BY Zenon, <1>1, <1>3 DEF TypeOK
<1>5. Owns(cur, l) /\ (\A t \in Thread : Owns(t, l) => t = cur) /\ l # NULL
  BY SMTT(30), <1>1, <1>3 DEF MutualExclusion, Owns
<1>6. \A t \in Thread : pc[t] \in {"set_holder", "release"} /\ t # cur =>
         obj[t] \in Lock /\ holder[obj[t]] = NULL /\ obj[t] # l
  BY Zenon, <1>5 DEF LabelInv, Owns
<1>7. \A k \in Lock, t \in Thread : Owns(t, k)' <=> Owns(t, k)
  <2> SUFFICES ASSUME NEW k \in Lock, NEW t \in Thread PROVE Owns(t, k)' <=> Owns(t, k)
    BY Zenon
  <2>1. CASE k = l
    <3>1. Owns(t, l) <=> t = cur
      BY Zenon, <1>5
    <3>2. Owns(t, l)' <=> t = cur
      BY Zenon, <1>1, <1>3, <1>4, <1>5, <1>6 DEF Owns
    <3> QED BY Zenon, <2>1, <3>1, <3>2
  <2>2. CASE k # l
    BY Zenon, <2>2, <1>1, <1>3, <1>4, <1>5 DEF Owns
  <2> QED BY Zenon, <2>1, <2>2
<1>8. MutualExclusion' /\ OwnersChange
  BY Zenon, <1>2, <1>7, OwnersFrame
<1>9. LabelInv'
  <2>1. pc'[Idle] = "run"
    BY Zenon, <1>2, <1>3 DEF LabelInv, LocalChange
  <2>2. \A t \in Thread : /\ pc'[t] = "down" => obj'[t] \in Object
                          /\ pc'[t] = "start" => status'[t] = "BLOCKED"
                          /\ ~Live(t)' => pc'[t] = "run"
    BY Zenon, <1>2, <1>3 DEF LabelInv, LocalChange, Live
  <2>3. (\A k \in Lock : holder[k] \in Thread => holder[k] # Idle /\ Live(holder[k]))'
    <3>1. \A k \in Lock : holder'[k] = holder[k] \/ holder'[k] = cur
      BY Zenon, <1>4
    <3>2. \A t \in Thread : Live(t)' <=> Live(t)
      BY Zenon, <1>2 DEF LocalChange, Live
    <3>3. cur # Idle /\ Live(cur)
      BY Zenon, <1>2, <1>3 DEF LocalChange, Live
    <3> QED BY Zenon, <3>1, <3>2, <3>3 DEF LabelInv, Live
  <2>4. \A t \in Thread : pc'[t] \in {"set_holder", "release"} =>
                            obj'[t] \in Lock /\ holder'[obj'[t]] = NULL
    <3>1. \A t \in Thread : pc'[t] \in {"set_holder", "release"} =>
                              t # cur /\ pc[t] \in {"set_holder", "release"} /\ obj'[t] = obj[t]
      BY Zenon, <1>3
    <3> QED BY Zenon, <3>1, <1>4, <1>6
  <2> QED BY Zenon, <2>1, <2>2, <2>3, <2>4 DEF LabelInv
<1>10. /\ value' \in [Object -> Nat] /\ pc[cur] # "create"
       /\ "run" \in Label \ {"create", "start"} /\ NULL \in Object \cup {NULL}
  BY Zenon, <1>1, <1>2 DEF TypeOK, Label, Object
<1> QED BY Zenon, <1>1, <1>2, <1>4, <1>8, <1>9, <1>10, LocalSteps

(* The start of lock_release. *)
LEMMA LockReleaseStep ==
  ASSUME IInv, NEW l \in Lock, LockRelease(l)
  PROVE  IInv' /\ OwnersChange
<1> USE DEF IInv
<1>1. /\ l \in Lock /\ pc[cur] = "run" /\ holder[l] = cur
      /\ holder' = [holder EXCEPT ![l] = NULL] /\ Goto("release", l)
  BY Zenon DEF LockRelease, At
<1>2. LocalChange /\ UNCHANGED value
  BY Zenon DEF LockRelease, LocalChange, At, schedVars, intrVars
<1>3. /\ cur \in Thread /\ status[cur] = "RUNNING"
      /\ \A t \in Thread : /\ pc'[t] = IF t = cur THEN "release" ELSE pc[t]
                           /\ obj'[t] = IF t = cur THEN l ELSE obj[t]
  <2>1. "release" \in Label \ {"create", "start"} /\ l \in Object \cup {NULL}
    BY Zenon DEF Label, Object
  <2> QED BY Zenon, <1>1, <1>2, <2>1, PlaceStep DEF LocalChange, WhereInv
<1>4. /\ holder' \in [Lock -> Thread \cup {NULL}]
      /\ \A k \in Lock : holder'[k] = IF k = l THEN NULL ELSE holder[k]
  BY Zenon, <1>1, <1>3 DEF TypeOK
<1>5. Owns(cur, l) /\ (\A t \in Thread : Owns(t, l) => t = cur) /\ l # NULL
  BY SMTT(30), <1>1, <1>3 DEF MutualExclusion, Owns
<1>6. \A t \in Thread : pc[t] \in {"set_holder", "release"} /\ t # cur =>
         obj[t] \in Lock /\ holder[obj[t]] = NULL /\ obj[t] # l
  BY Zenon, <1>5 DEF LabelInv, Owns
<1>7. \A k \in Lock, t \in Thread : Owns(t, k)' <=> Owns(t, k)
  <2> SUFFICES ASSUME NEW k \in Lock, NEW t \in Thread PROVE Owns(t, k)' <=> Owns(t, k)
    BY Zenon
  <2>1. CASE k = l
    <3>1. Owns(t, l) <=> t = cur
      BY Zenon, <1>5
    <3>2. Owns(t, l)' <=> t = cur
      BY Zenon, <1>1, <1>3, <1>4, <1>5, <1>6 DEF Owns
    <3> QED BY Zenon, <2>1, <3>1, <3>2
  <2>2. CASE k # l
    BY <2>2, <1>1, <1>3, <1>4, <1>5 DEF Owns
  <2> QED BY Zenon, <2>1, <2>2
<1>8. MutualExclusion' /\ OwnersChange
  BY Zenon, <1>2, <1>7, OwnersFrame
<1>9. LabelInv'
  <2>1. pc'[Idle] = "run"
    BY Zenon, <1>2, <1>3 DEF LabelInv, LocalChange
  <2>2. \A t \in Thread : /\ pc'[t] = "down" => obj'[t] \in Object
                          /\ pc'[t] = "start" => status'[t] = "BLOCKED"
                          /\ ~Live(t)' => pc'[t] = "run"
    BY Zenon, <1>2, <1>3 DEF LabelInv, LocalChange, Live
  <2>3. (\A k \in Lock : holder[k] \in Thread => holder[k] # Idle /\ Live(holder[k]))'
    <3>1. \A k \in Lock : holder'[k] \in Thread => holder'[k] = holder[k]
      BY Zenon, <1>4, ConstantsAssumption
    <3>2. \A t \in Thread : Live(t)' <=> Live(t)
      BY Zenon, <1>2 DEF LocalChange, Live
    <3> QED BY Zenon, <3>1, <3>2 DEF LabelInv, Live
  <2>4. \A t \in Thread : pc'[t] \in {"set_holder", "release"} =>
                            obj'[t] \in Lock /\ holder'[obj'[t]] = NULL
    <3>1. obj'[cur] \in Lock /\ holder'[obj'[cur]] = NULL
      BY Zenon, <1>3, <1>4
    <3>2. \A t \in Thread : t # cur => pc'[t] = pc[t] /\ obj'[t] = obj[t]
      BY Zenon, <1>3
    <3> QED BY Zenon, <3>1, <3>2, <1>4, <1>6
  <2> QED BY Zenon, <2>1, <2>2, <2>3, <2>4 DEF LabelInv
<1>10. /\ value' \in [Object -> Nat] /\ pc[cur] # "create"
       /\ "release" \in Label \ {"create", "start"} /\ l \in Object \cup {NULL}
  BY Zenon, <1>1, <1>2 DEF TypeOK, Label, Object
<1> QED BY Zenon, <1>1, <1>2, <1>4, <1>8, <1>9, <1>10, LocalSteps

-----------------------------------------------------------------------------
(* The steps that wake a thread. *)

(* sema_up, by a thread (X = {cur}, which goes on to label l) or by an      *)
(* interrupt handler (X = {}).                                             *)
LEMMA WakeFrame ==
  ASSUME TypeOK, SchedInv, WhereInv, NEW o \in Object, sema_up(o),
         UNCHANGED <<blocked_list, holder>>,
         NEW l \in {"run", "yield"}, NEW X \in SUBSET {cur},
         X # {} => cur # Idle /\ pc[cur] \in {"run", "release"},
         \A t \in Thread : /\ pc'[t] = IF t \in X THEN l ELSE pc[t]
                           /\ obj'[t] = IF t \in X THEN NULL ELSE obj[t]
  PROVE  WhereInv'
<1>1. PICK W \in SUBSET Range(waiters[o]) :
              /\ \A p \in Object : /\ NoDuplicates(waiters'[p])
                                   /\ Range(waiters'[p]) = Range(waiters[p]) \ W
              /\ \A t \in Thread \ {Idle} :
                   /\ status'[t] = "BLOCKED" <=> status[t] = "BLOCKED" /\ t \notin W
                   /\ Live(t)' <=> Live(t)
  BY Zenon, SemaUpStep
<1>2. SchedInv'
  BY Zenon, SemaUpStep
<1>3. \A t \in W : pc[t] = "down"
  BY Zenon DEF WhereInv, WaitInv, WaitersInv
<1>4. \A p \in Object : \A t \in Range(waiters[p]) : t \in Thread
  <2>1. \A p \in Object : waiters[p] \in Seq(Thread)
    BY Zenon DEF TypeOK
  <2> QED BY <2>1 DEF Range
<1>5. \A t \in Thread : pc[t] = "down" => obj[t] \in Object
  BY Zenon DEF WhereInv, LabelInv
<1>6. \A t \in X : t \in Thread /\ t # Idle /\ status[t] = "RUNNING" /\ pc[t] \in {"run", "release"}
  BY Zenon DEF SchedInv, TypeOK
<1>a. \A t \in Thread : t \notin X => pc'[t] = pc[t] /\ obj'[t] = obj[t]
  BY Zenon
<1>7. BlockedInv'
  <2> SUFFICES ASSUME NEW t \in Thread \ {Idle}, status'[t] = "BLOCKED"
               PROVE  (\/ pc[t] = "down" /\ t \in Range(waiters[obj[t]])
                       \/ pc[t] = "asleep" /\ t \in blocked_list
                       \/ pc[t] = "start" /\ \E u \in Thread : pc[u] = "create" /\ obj[u] = t)'
    BY Zenon DEF BlockedInv
  <2>1. status[t] = "BLOCKED" /\ t \notin W /\ t \notin X
    BY Zenon, <1>1, <1>6
  <2>2. pc'[t] = pc[t] /\ obj'[t] = obj[t]
    BY Zenon, <2>1, <1>a
  <2>3. CASE pc[t] = "down" /\ t \in Range(waiters[obj[t]])
    BY Zenon, <2>1, <2>2, <2>3, <1>1, <1>5
  <2>4. CASE pc[t] = "asleep" /\ t \in blocked_list
    BY Zenon, <2>2, <2>4
  <2>5. CASE pc[t] = "start" /\ \E u \in Thread : pc[u] = "create" /\ obj[u] = t
    <3>1. PICK u \in Thread : pc[u] = "create" /\ obj[u] = t
      BY Zenon, <2>5
    <3>2. u \notin X
      BY Zenon, <3>1, <1>6
    <3>3. pc'[u] = "create" /\ obj'[u] = t
      BY Zenon, <3>1, <3>2, <1>a
    <3> QED BY Zenon, <2>2, <2>5, <3>3
  <2> QED BY Zenon, <2>1, <2>3, <2>4, <2>5 DEF WhereInv, BlockedInv
<1>8. WaitInv'
  <2>1. WaitersInv'
    <3> SUFFICES ASSUME NEW p \in Object
                 PROVE  /\ NoDuplicates(waiters'[p])
                        /\ \A t \in Range(waiters'[p]) :
                             t # Idle /\ status'[t] = "BLOCKED" /\ pc'[t] = "down" /\ obj'[t] = p
      BY Zenon DEF WaitersInv
    <3> SUFFICES ASSUME NEW t \in Range(waiters'[p])
                 PROVE  t # Idle /\ status'[t] = "BLOCKED" /\ pc'[t] = "down" /\ obj'[t] = p
      BY Zenon, <1>1
    <3>1. t \in Range(waiters[p]) /\ t \notin W /\ t \in Thread
      BY Zenon, <1>1, <1>4
    <3>2. t # Idle /\ status[t] = "BLOCKED" /\ pc[t] = "down" /\ obj[t] = p
      BY Zenon, <3>1 DEF WhereInv, WaitInv, WaitersInv
    <3>3. t \notin X
      BY Zenon, <3>2, <1>6
    <3> QED BY Zenon, <3>1, <3>2, <3>3, <1>1, <1>a
  <2>2. SleepersInv'
    <3>1. blocked_list \subseteq Thread
      BY Zenon DEF TypeOK
    <3> SUFFICES ASSUME NEW t \in blocked_list
                 PROVE  t # Idle /\ status'[t] = "BLOCKED" /\ pc'[t] = "asleep"
      BY Zenon DEF SleepersInv
    <3>2. t \in Thread /\ t # Idle /\ status[t] = "BLOCKED" /\ pc[t] = "asleep"
      BY Zenon, <3>1 DEF WhereInv, WaitInv, SleepersInv
    <3>3. t \notin X /\ t \notin W
      BY Zenon, <3>2, <1>3, <1>6
    <3> QED BY Zenon, <3>2, <3>3, <1>1, <1>a
  <2>3. CreatorsInv'
    <3> SUFFICES ASSUME NEW u \in Thread, pc'[u] = "create"
                 PROVE  (/\ obj[u] \in Thread \ {Idle}
                         /\ status[obj[u]] = "BLOCKED" /\ pc[obj[u]] = "start"
                         /\ \A w \in Thread : pc[w] = "create" /\ obj[w] = obj[u] => w = u)'
      BY Zenon DEF CreatorsInv
    <3>1. \A w \in Thread : pc'[w] = "create" => pc[w] = "create" /\ obj'[w] = obj[w]
      BY Zenon, <1>a
    <3>2. /\ obj[u] \in Thread \ {Idle}
          /\ status[obj[u]] = "BLOCKED" /\ pc[obj[u]] = "start"
          /\ \A w \in Thread : pc[w] = "create" /\ obj[w] = obj[u] => w = u
      BY Zenon, <3>1 DEF WhereInv, WaitInv, CreatorsInv
    <3>3. obj[u] \notin X /\ obj[u] \notin W
      BY Zenon, <3>2, <1>3, <1>6
    <3>4. status'[obj[u]] = "BLOCKED" /\ pc'[obj[u]] = "start"
      BY Zenon, <3>2, <3>3, <1>1, <1>a
    <3> QED BY Zenon, <3>1, <3>2, <3>4
  <2> QED BY Zenon, <2>1, <2>2, <2>3 DEF WaitInv
<1>9. LabelInv'
  <2>1. \A t \in Thread : Live(t)' <=> Live(t)
    BY Zenon, <1>1, <1>2 DEF SchedInv
  <2>2. \A t \in Thread : pc'[t] = "start" => status'[t] = "BLOCKED"
    BY Zenon, <1>1, <1>3 DEF WhereInv, LabelInv
  <2>3. \A t \in X : Live(t)
    BY Zenon, <1>6 DEF Live
  <2>4. \A t \in Thread : ~Live(t)' => pc'[t] = "run"
    BY Zenon, <2>1, <2>3 DEF WhereInv, LabelInv
  <2>5. (\A k \in Lock : holder[k] \in Thread => holder[k] # Idle /\ Live(holder[k]))'
    BY Zenon, <2>1 DEF WhereInv, LabelInv, Live
  <2>6. pc'[Idle] = "run"
    BY Zenon, <1>6 DEF WhereInv, LabelInv
  <2>7. \A t \in Thread : /\ pc'[t] = "down" => obj'[t] \in Object
                          /\ pc'[t] \in {"set_holder", "release"} =>
                               obj'[t] \in Lock /\ holder'[obj'[t]] = NULL
    BY Zenon DEF WhereInv, LabelInv
  <2> QED BY Zenon, <2>2, <2>4, <2>5, <2>6, <2>7 DEF LabelInv
<1> QED BY Zenon, <1>7, <1>8, <1>9 DEF WhereInv

(* sema_up on a semaphore, and the last step of lock_release. *)
LEMMA UpSteps ==
  ASSUME IInv, ReleaseUp \/ \E s \in Sema : SemaUp(s)
  PROVE  IInv' /\ OwnersChange
<1> USE DEF IInv
<1>1. SchedType /\ TypeRest
  BY Zenon, TypeParts
<1>2. PICK o \in Object : /\ sema_up(o)
                          /\ o \in Lock => pc[cur] = "release" /\ obj[cur] = o
                          /\ o \notin Lock => pc[cur] = "run"
  <2>1. CASE ReleaseUp
    <3>1. obj[cur] \in Lock /\ pc[cur] = "release" /\ sema_up(obj[cur])
      BY Zenon, <2>1, <1>1 DEF ReleaseUp, At, LabelInv, SchedType
    <3> QED BY Zenon, <3>1 DEF Object
  <2>2. CASE \E s \in Sema : SemaUp(s)
    BY Zenon, <2>2 DEF SemaUp, At, Object
  <2> QED BY Zenon, <2>1, <2>2
<1>3. PICK l \in {"run", "yield"} : Goto(l, NULL)
  BY Zenon DEF ReleaseUp, SemaUp, AfterUp
<1>4. /\ UNCHANGED <<priority, blocked_list, holder, irq, yield_on_return>>
      /\ irq = "none" /\ cur # Idle
  BY Zenon DEF ReleaseUp, SemaUp, At, intrVars
<1>5. /\ pc' \in [Thread -> Label] /\ obj' \in [Thread -> Object \cup Thread \cup {NULL}]
      /\ \A t \in Thread : /\ pc'[t] = IF t \in {cur} THEN l ELSE pc[t]
                           /\ obj'[t] = IF t \in {cur} THEN NULL ELSE obj[t]
  BY Zenon, <1>1, <1>3 DEF Goto, TypeRest, Label
<1>6. /\ SchedType' /\ SchedInv' /\ UNCHANGED <<cur, thread_ticks>>
      /\ value' \in [Object -> Nat] /\ waiters' \in [Object -> Seq(Thread)]
      /\ value' = [value EXCEPT ![o] = @ + 1]
  BY Zenon, <1>2, SemaUpStep DEF WhereInv
<1>7. WhereInv'
  <2>1. {cur} \in SUBSET {cur}
    BY Zenon
  <2> QED BY Zenon, <1>2, <1>4, <1>5, <2>1, WakeFrame DEF WhereInv
<1>8. TickInv'
  BY Zenon, <1>4, <1>6 DEF TickInv
<1>9. TypeRest'
  BY Zenon, <1>1, <1>4, <1>5, <1>6 DEF TypeRest
<1>10. TypeOK'
  BY Zenon, <1>6, <1>9 DEF TypeOK, SchedType, TypeRest
<1>11. MutualExclusion' /\ OwnersChange
  <2>1. cur \in Thread
    BY Zenon, <1>1 DEF SchedType
  <2>2. \A k \in Lock, t \in Thread : Owns(t, k)' <=> Owns(t, k) /\ (k = o => t # cur)
    <3> SUFFICES ASSUME NEW k \in Lock, NEW t \in Thread
                 PROVE  Owns(t, k)' <=> Owns(t, k) /\ (k = o => t # cur)
      BY Zenon
    <3>1. k = o => holder[k] = NULL
      BY Zenon, <1>2, <2>1 DEF LabelInv
    <3>2. NULL \notin Thread
      BY Zenon
    <3> QED BY Zenon, <1>2, <1>4, <1>5, <3>1, <3>2 DEF Owns
  <2>3. o \in Lock => Owns(cur, o)
    BY Zenon, <1>2 DEF Owns
  <2>4. \A k \in Lock : k \in Object /\ value'[k] = IF k = o THEN value[k] + 1 ELSE value[k]
    BY Zenon, <1>1, <1>6 DEF TypeRest, Object
  <2>5. OwnersChange
    BY <2>2, <2>3 DEF OwnersChange
  <2> QED BY SMTT(30), <2>1, <2>2, <2>3, <2>4, <2>5 DEF MutualExclusion
<1> QED BY Zenon, <1>6, <1>7, <1>8, <1>10, <1>11 DEF WhereInv

(* A device's interrupt handler ups a semaphore. *)
LEMMA DeviceStep ==
  ASSUME IInv, NEW s \in IrqSema, DeviceInterrupt(s)
  PROVE  IInv' /\ OwnersChange
<1> USE DEF IInv
<1>1. SchedType /\ TypeRest /\ s \in Object /\ s \notin Lock
  BY Zenon, TypeParts DEF Object
<1>2. /\ sema_up(s) /\ UNCHANGED <<priority, blocked_list, holder, pc, obj>>
      /\ irq = "none" /\ irq' \in {"none", "panic"} /\ yield_on_return' = FALSE
  BY Zenon DEF DeviceInterrupt
<1>3. /\ SchedType' /\ SchedInv' /\ UNCHANGED <<cur, thread_ticks>>
      /\ value' \in [Object -> Nat] /\ waiters' \in [Object -> Seq(Thread)]
      /\ value' = [value EXCEPT ![s] = @ + 1]
  BY Zenon, <1>1, <1>2, SemaUpStep DEF WhereInv
<1>4. WhereInv'
  <2>1. /\ {} \in SUBSET {cur} /\ "run" \in {"run", "yield"}
        /\ \A t \in Thread : /\ pc'[t] = IF t \in {} THEN "run" ELSE pc[t]
                             /\ obj'[t] = IF t \in {} THEN NULL ELSE obj[t]
    BY Zenon, <1>2
  <2> QED BY Zenon, <1>1, <1>2, <2>1, WakeFrame DEF WhereInv
<1>5. TickInv'
  BY Zenon, <1>2, <1>3 DEF TickInv
<1>6. yield_on_return' \in BOOLEAN
  BY Zenon, <1>2
<1>7. TypeRest'
  BY Zenon, <1>1, <1>2, <1>3, <1>6 DEF TypeRest
<1>8. TypeOK'
  BY Zenon, <1>3, <1>7 DEF TypeOK, SchedType, TypeRest
<1>9. MutualExclusion' /\ OwnersChange
  <2>1. \A k \in Lock : value'[k] = value[k]
    BY Zenon, <1>1, <1>3 DEF TypeRest, Object
  <2>2. \A k \in Lock, t \in Thread : Owns(t, k)' <=> Owns(t, k)
    BY Zenon, <1>2 DEF Owns
  <2> QED BY Zenon, <2>1, <2>2, OwnersFrame
<1> QED BY Zenon, <1>3, <1>4, <1>5, <1>8, <1>9 DEF WhereInv

=============================================================================
