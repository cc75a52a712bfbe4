------------------------ MODULE VirtualMemoryProofs ------------------------
(***************************************************************************)
(* The theorems of VirtualMemory: memory is private, nothing leaks before  *)
(* a process ends, and paging is invisible, for any number of processes,   *)
(* pages, frames and swap slots.                                           *)
(***************************************************************************)
EXTENDS VirtualMemorySteps, FiniteSetTheorems, TLAPS

-----------------------------------------------------------------------------
(* p gives up, without a new entry in the table. *)
LEMMA GiveUpKeeps ==
  ASSUME IInv, NEW p \in Proc, NEW f, NEW list \in Seq(Entry),
         frame_list' = list, pc' = [pc EXCEPT ![p] = "fail"], pc[p] # "dead",
         UNCHANGED <<pte, page, kpage>>, victim' = NULL,
         \A g \in used : g # f => g \in used',
         \A q \in Proc : (q # p => ~Fills(q, f)) /\ \A v \in Page : pte[q][v] # f,
         HashedOnce(list),
         \A j \in DOMAIN list : /\ list[j].hashed => ~Fills(p, list[j].kpage)
                                /\ list[j] # victim
                                /\ \E k \in DOMAIN frame_list : list[j] = frame_list[k]
  PROVE  EntryInv' /\ MappedInv' /\ FillInv' /\ TableKept'
<1>1. \A q \in Proc : \A g \in Frame : /\ Fills(q, g)' <=> Fills(q, g) /\ q # p
                                       /\ Bringing(q, g)' <=> Bringing(q, g) /\ q # p
  BY Zenon DEF IInv, Types, Fills, Bringing
<1>2. EntryInv'
  <2> SUFFICES ASSUME NEW j \in DOMAIN list PROVE EntryOK(frame_list[j])'
    BY Zenon DEF EntryInv
  <2>1. PICK k \in DOMAIN frame_list : list[j] = frame_list[k]
    BY Zenon
  <2>2. EntryOK(list[j]) /\ list[j] # victim
    BY Zenon DEF IInv, EntryInv
  <2>3. list[j].owner \in Proc /\ list[j].upage \in Page /\ list[j].kpage \in Frame
    BY Zenon, Listed
  <2>4. pc'[list[j].owner] # "dead" <=> pc[list[j].owner] # "dead"
    BY <2>3
  <2>5. list[j].hashed /\ pc'[list[j].owner] # "dead" =>
          \/ pte'[list[j].owner][list[j].upage] = list[j].kpage
          \/ Fills(list[j].owner, list[j].kpage)' /\ page'[list[j].owner] = list[j].upage
    BY <1>1, <2>2, <2>3 DEF EntryOK, Holds
  <2>6. ~list[j].pinned /\ pc'[list[j].owner] # "dead" => ~Bringing(list[j].owner, list[j].kpage)'
    BY <1>1, <2>2, <2>3 DEF EntryOK
  <2>7. list[j].hashed \/ list[j].pinned
    BY Zenon, <2>2 DEF EntryOK
  <2> QED
    BY Zenon, <2>5, <2>6, <2>7 DEF EntryOK, Holds
<1>3. MappedInv'
  BY <1>1 DEF IInv, Types, TypeOK, MappedInv
<1>4. FillInv'
  BY Zenon DEF IInv, Types, FillInv, Fills
<1>5. TableKept'
  BY Zenon DEF IInv, Types, TableKept, AllAlive
<1> QED
  BY Zenon, <1>2, <1>3, <1>4, <1>5

(* The page cannot be brought in, and its frame is freed. *)
LEMMA FillFailsStep ==
  ASSUME NEW p \in Proc, IInv, FillFails(p)
  PROVE  IInv'
<1> DEFINE f == kpage[p]
           R == Removed(f)
<1>1. /\ pc[p] \in {"fill", "map"} /\ frame_lock = NULL /\ victim = NULL /\ f \in Frame
      /\ Mapped(f) # {} /\ Fills(p, f) /\ frame_list' = R /\ clock_ptr' = ClockAfter(f)
      /\ used' = used \ {f} /\ pc' = [pc EXCEPT ![p] = "fail"]
      /\ UNCHANGED <<pte, writable, accessed, supt, contents, page, kpage, frame_lock, victim, slot,
                     panicked, swap_available, swap>>
  BY Zenon DEF IInv, Types, TypeOK, TableInv, FillFails, At, Goto, Fills, tables, swapVars
<1>2. /\ R \in Seq(Entry) /\ ClockAfter(f) \in {FREED} \cup 0 .. Len(R)
      /\ \E i \in Mapped(f) : Without(R, i)
  BY Zenon, <1>1, RemovedIs
<1> HIDE DEF R
<1>3. PICK i \in Mapped(f) : Without(R, i)
  BY Zenon, <1>2
<1>4. \A q \in Proc : (q # p => ~Fills(q, f)) /\ \A v \in Page : pte[q][v] # f
  BY <1>1 DEF IInv, FillInv, MappedInv, Frame
<1>5. ASSUME NEW j \in DOMAIN R
      PROVE  /\ R[j].hashed => ~Fills(p, R[j].kpage)
             /\ R[j] # victim
             /\ \E k \in DOMAIN frame_list : R[j] = frame_list[k]
  <2>1. PICK k \in DOMAIN frame_list : k # i /\ R[j] = frame_list[k]
    BY Zenon, <1>3 DEF Without
  <2>2. R[j].hashed => R[j].kpage # f
    BY Zenon, <2>1 DEF IInv, EntryInv, HashedOnce, Mapped
  <2> QED
    BY Zenon, <1>1, <2>1, <2>2, Listed DEF Fills
<1>6. EntryInv' /\ MappedInv' /\ FillInv' /\ TableKept'
  <2>1. HashedOnce(R) /\ (\A g \in used : g # f => g \in used') /\ pc[p] # "dead"
    BY Zenon, <1>1, <1>3 DEF Without
  <2> HIDE DEF f
  <2> QED
    BY Zenon, <1>1, <1>2, <1>4, <1>5, <2>1, GiveUpKeeps
<1>7. Types'
  BY Zenon, <1>1, <1>2 DEF IInv, Types, TypeOK, Label
<1>8. TableInv'
  BY <1>1 DEF IInv, TableInv
<1>9. VictimInv'
  BY Zenon, <1>1 DEF VictimInv
<1>10. SlotInv' /\ SlotsKept'
  <2>1. \A q \in Proc : \A w \in Page : Waits(q, w)' => Waits(q, w)
    BY <1>1 DEF Waits
  <2>2. ~AllAlive'
    BY Zenon, <1>1 DEF IInv, Types, AllAlive
  <2>3. \A q \in Proc : pc'[q] = "replace" <=> pc[q] = "replace"
    BY <1>1
  <2> QED
    BY <1>1, <2>1, <2>2, WaitsKept
<1> QED
  BY Zenon, <1>6, <1>7, <1>8, <1>9, <1>10 DEF IInv

(* The rest of frame_allocate, after swap_out. *)
LEMMA ReplaceStep ==
  ASSUME NEW p \in Proc, IInv, Replace(p)
  PROVE  IInv'
<1> DEFINE f == victim.kpage
           o == victim.owner
           u == victim.upage
           R == Removed(f)
           c == ClockAfter(f)
<1>1. /\ victim \in Entry /\ victim # NULL
      /\ f \in Frame /\ f # 0 /\ o \in Proc /\ u \in Page /\ slot \in Slot \ swap_available
  <2>1. pc[p] = "replace"
    BY Zenon DEF Replace, At
  <2>2. victim # NULL
    BY Zenon, <2>1, Locked
  <2> QED
    BY <2>1, <2>2 DEF IInv, Types, SlotInv, Entry, Frame
<1>2. /\ pc[p] = "replace" /\ pc[o] # "dead" /\ Mapped(f) # {}
      /\ supt' = [supt EXCEPT ![o][u] = Spte("ON_SWAP", slot)]
      /\ Insert(p, f, R, c) \/ NoBlock(p, f, R, c)
      /\ frame_lock' = NULL /\ victim' = NULL /\ slot' = -1
      /\ UNCHANGED <<pte, writable, accessed, contents, page, panicked, swap_available, swap>>
  BY Zenon DEF Replace, At, supt_set_swap, tables, swapVars
<1>3. R \in Seq(Entry) /\ c \in {FREED} \cup 0 .. Len(R) /\ \E i \in Mapped(f) : Without(R, i)
  BY Zenon, <1>2, RemovedIs
<1>4. /\ \A q \in Proc : ~Fills(q, f) /\ \A v \in Page : pte[q][v] # f
      /\ f \in used /\ supt[o][u].status = "ON_FRAME" /\ pte[o][u] = 0
  BY Zenon, <1>1, <1>2 DEF IInv, VictimInv
<1> HIDE DEF R, c
<1>5. PICK i \in Mapped(f) : Without(R, i)
  BY Zenon, <1>3
<1>6. frame_list[i] = victim /\ victim.hashed
  <2>1. PICK k \in DOMAIN frame_list : frame_list[k] = victim
    BY Zenon, <1>1 DEF IInv, VictimInv
  <2>2. victim.hashed
    BY Zenon, <1>1 DEF IInv, VictimInv, EntryInv, EntryOK
  <2>3. k = i
    BY Zenon, <2>1, <2>2 DEF IInv, EntryInv, HashedOnce, Mapped
  <2> QED
    BY Zenon, <2>1, <2>2, <2>3
<1>7. ASSUME NEW j \in DOMAIN R
      PROVE  /\ R[j] # victim /\ \E k \in DOMAIN frame_list : R[j] = frame_list[k]
             /\ AllAlive => R[j].kpage # f
  <2>1. PICK k \in DOMAIN frame_list : k # i /\ R[j] = frame_list[k]
    BY Zenon, <1>5 DEF Without
  <2>2. R[j] # victim
    BY Zenon, <1>6, <2>1 DEF IInv, EntryInv, HashedOnce, Mapped
  <2>3. AllAlive => R[j].kpage # f
    BY Zenon, <2>1 DEF IInv, TableKept, KpageOnce, Mapped
  <2> QED
    BY Zenon, <2>1, <2>2, <2>3
<1>8. \A q \in Proc : \A w \in Page :
        supt'[q][w] = IF q = o /\ w = u THEN Spte("ON_SWAP", slot) ELSE supt[q][w]
  BY Zenon, <1>2 DEF IInv, Types, TypeOK
<1>9. /\ Spte("ON_SWAP", slot).status = "ON_SWAP" /\ Spte("ON_SWAP", slot).swap_index = slot
      /\ Spte("ON_SWAP", slot) \in [status : {"none", "ALL_ZERO", "ON_FRAME", "ON_SWAP", "FROM_FILESYS"},
                                    swap_index : Slot \cup {-1}]
  BY Zenon, <1>1 DEF Spte
<1>10. supt' \in [Proc -> [Page -> [status : {"none", "ALL_ZERO", "ON_FRAME", "ON_SWAP", "FROM_FILESYS"},
                                    swap_index : Slot \cup {-1}]]]
  BY Zenon, <1>2, <1>9 DEF IInv, Types, TypeOK
<1>11. slot' \notin Slot /\ \A q \in Proc : pc[q] = "replace" => q = p
  BY <1>2 DEF IInv, Types, TypeOK, Slot
<1>12. VictimInv'
  BY Zenon, <1>2 DEF VictimInv
<1>13. CASE Insert(p, f, R, c)
  <2>0. /\ pc' = [pc EXCEPT ![p] = "fill"] /\ kpage' = [kpage EXCEPT ![p] = f]
        /\ used' = used \cup {f}
    BY Zenon, <1>13 DEF Insert, Goto
  <2>1. EntryInv' /\ MappedInv' /\ FillInv' /\ TableKept'
    <3>1. AllAlive => used \cup {f} = {R[j].kpage : j \in DOMAIN R} \cup {f}
      BY <1>5, <1>6 DEF IInv, TableKept, Without
    <3>2. HashedOnce(R) /\ (KpageOnce(frame_list) => KpageOnce(R))
      BY Zenon, <1>5 DEF Without
    <3> HIDE DEF f
    <3> QED
      BY Zenon, <1>1, <1>2, <1>3, <1>4, <1>7, <1>13, <3>1, <3>2, InsertKeeps
  <2>2. Types'
    <3>1. frame_list' \in Seq(Entry) /\ clock_ptr' \in {FREED} \cup 0 .. Len(frame_list')
      <4> HIDE DEF f
      <4> QED
        BY Zenon, <1>1, <1>3, <1>13, InsertIs
    <3> QED
      BY Zenon, <1>1, <1>2, <1>10, <2>0, <3>1, ConstantsAssumption DEF IInv, Types, TypeOK, Label
  <2>3. TableInv'
    BY <1>1, <1>2, <1>4, <1>8, <1>9, <2>0 DEF IInv, Types, TypeOK, TableInv
  <2>4. \A q \in Proc : \A w \in Page :
          /\ Waits(q, w)' => Waits(q, w) \/ (q = o /\ w = u)
          /\ Waits(q, w) => Waits(q, w)' /\ ~(q = o /\ w = u)
          /\ AllAlive /\ q = o /\ w = u => Waits(q, w)'
    <3>1. \A q \in Proc : /\ pc[q] \notin {"fail", "dead"} <=> pc'[q] \notin {"fail", "dead"}
                          /\ pc[q] = "map" <=> pc'[q] = "map"
      BY <1>2, <2>0
    <3>2. ~(pc[o] = "map" /\ page[o] = u)
      BY Zenon, <1>1, <1>4 DEF IInv, TableInv
    <3> QED
      BY <1>2, <1>4, <1>8, <1>9, <3>1, <3>2 DEF Waits, AllAlive
  <2>5. SlotInv'
    <3>1. \A q \in Proc : pc'[q] # "replace"
      BY Zenon, <1>11, <2>0 DEF IInv, Types
    <3>2. \A q \in Proc : \A w \in Page : Waits(q, w)' =>
            supt'[q][w].swap_index \notin swap_available' /\ supt'[q][w].swap_index # slot'
      BY <1>1, <1>2, <1>8, <1>9, <1>11, <2>4 DEF IInv, TableInv, SlotInv, Waits
    <3>3. \A q, r \in Proc : \A v, w \in Page :
            Waits(q, v)' /\ Waits(r, w)' /\ supt'[r][w].swap_index = supt'[q][v].swap_index
            => q = r /\ v = w
      BY <1>8, <1>9, <2>4 DEF IInv, SlotInv
    <3> QED
      BY <1>2, <3>1, <3>2, <3>3 DEF SlotInv
  <2>6. SlotsKept'
    <3> SUFFICES ASSUME AllAlive', NEW s \in Slot \ swap_available
                 PROVE  \E q \in Proc : \E w \in Page : Waits(q, w)' /\ supt'[q][w].swap_index = s
      BY Zenon, <1>2 DEF SlotsKept
    <3>1. AllAlive
      BY <1>2, <2>0 DEF AllAlive
    <3>2. CASE s = slot
      BY <1>1, <1>8, <1>9, <2>4, <3>1, <3>2
    <3>3. CASE s # slot
      <4>1. PICK q \in Proc, w \in Page : Waits(q, w) /\ supt[q][w].swap_index = s
        BY Zenon, <3>1, <3>3 DEF IInv, SlotsKept
      <4> QED
        BY Zenon, <1>8, <2>4, <4>1
    <3> QED
      BY Zenon, <3>2, <3>3
  <2> QED
    BY Zenon, <1>12, <2>1, <2>2, <2>3, <2>5, <2>6 DEF IInv
<1>14. CASE NoBlock(p, f, R, c)
  <2>0. /\ pc' = [pc EXCEPT ![p] = "fail"] /\ frame_list' = R /\ clock_ptr' = c
        /\ used' = used \cup {f} /\ UNCHANGED kpage
    BY Zenon, <1>14 DEF NoBlock, Goto
  <2>1. EntryInv' /\ MappedInv' /\ FillInv' /\ TableKept'
    <3>1. HashedOnce(R) /\ pc[p] # "dead" /\ \A g : ~Fills(p, g)
      BY Zenon, <1>2, <1>5 DEF Without, Fills
    <3>2. \A g \in used : g # f => g \in used'
      BY Zenon, <2>0
    <3>3. \A j \in DOMAIN R : /\ R[j].hashed => ~Fills(p, R[j].kpage)
                              /\ R[j] # victim /\ \E k \in DOMAIN frame_list : R[j] = frame_list[k]
      BY Zenon, <1>7, <3>1
    <3>4. \A q \in Proc : (q # p => ~Fills(q, f)) /\ \A v \in Page : pte[q][v] # f
      BY Zenon, <1>4
    <3> HIDE DEF f
    <3> QED
      BY ZenonT(40), <1>2, <1>3, <2>0, <3>1, <3>2, <3>3, <3>4, GiveUpKeeps
  <2>2. Types'
    BY Zenon, <1>1, <1>2, <1>3, <1>10, <2>0, ConstantsAssumption DEF IInv, Types, TypeOK, Label
  <2>3. TableInv'
    <3> SUFFICES ASSUME NEW q \in Proc
                 PROVE  /\ pc'[q] \in {"alloc", "swap_out", "replace", "fill", "map"} =>
                             pte'[q][page'[q]] = 0 /\ supt'[q][page'[q]].status # "ON_FRAME"
                        /\ pc'[q] \in {"fill", "map", "unpin"} => kpage'[q] \in Frame
                        /\ pc'[q] = "unpin" => pte'[q][page'[q]] = kpage'[q]
                        /\ \A v \in Page :
                             /\ pte'[q][v] # 0 => supt'[q][v].status = "ON_FRAME"
                             /\ supt'[q][v].status = "ON_SWAP" => supt'[q][v].swap_index \in Slot
                             /\ pc'[q] = "load" => supt'[q][v].status = "none"
                             /\ supt'[q][v].status = "FROM_FILESYS" => v \in FilePage
                             /\ supt'[q][v].status \in {"none", "ALL_ZERO"} /\ pc'[q] # "load" =>
                                  v \notin FilePage
      BY Zenon DEF TableInv
    <3>1. pc'[q] = pc[q] \/ (q = p /\ pc'[q] = "fail")
      BY <2>0
    <3>2. page'[q] = page[q] /\ kpage'[q] = kpage[q] /\ pte'[q] = pte[q] /\ page[q] \in Page
      BY Zenon, <1>2, <2>0 DEF IInv, Types
    <3>3. pc[o] # "load"
      BY Zenon, <1>1, <1>4 DEF IInv, TableInv
    <3>4. /\ pc'[q] \in {"alloc", "swap_out", "replace", "fill", "map"} =>
               pte'[q][page'[q]] = 0 /\ supt'[q][page'[q]].status # "ON_FRAME"
          /\ pc'[q] \in {"fill", "map", "unpin"} => kpage'[q] \in Frame
          /\ pc'[q] = "unpin" => pte'[q][page'[q]] = kpage'[q]
      BY <1>8, <1>9, <3>1, <3>2 DEF IInv, TableInv
    <3>5. ASSUME NEW v \in Page
          PROVE  /\ pte'[q][v] # 0 => supt'[q][v].status = "ON_FRAME"
                 /\ supt'[q][v].status = "ON_SWAP" => supt'[q][v].swap_index \in Slot
                 /\ pc'[q] = "load" => supt'[q][v].status = "none"
                 /\ supt'[q][v].status = "FROM_FILESYS" => v \in FilePage
                 /\ supt'[q][v].status \in {"none", "ALL_ZERO"} /\ pc'[q] # "load" => v \notin FilePage
      <4>1. CASE q = o /\ v = u
        BY <1>1, <1>4, <1>8, <1>9, <3>1, <3>2, <3>3, <4>1
      <4>2. CASE ~(q = o /\ v = u)
        <5>1. supt'[q][v] = supt[q][v]
          BY Zenon, <1>8, <4>2
        <5>2. q = p => pc[q] # "load"
          BY Zenon, <1>2
        <5> QED
          BY <3>1, <3>2, <5>1, <5>2 DEF IInv, TableInv
      <4> QED
        BY Zenon, <4>1, <4>2
    <3> QED
      BY Zenon, <3>4, <3>5
  <2>4. \A q \in Proc : \A w \in Page :
          Waits(q, w)' => (Waits(q, w) /\ ~(q = o /\ w = u)) \/ (q = o /\ w = u)
    BY <1>1, <1>2, <1>4, <1>8, <1>9, <2>0 DEF IInv, Types, TableInv, Waits
  <2>5. SlotInv'
    <3>1. \A q \in Proc : pc'[q] # "replace"
      BY Zenon, <1>11, <2>0 DEF IInv, Types
    <3>2. \A q \in Proc : \A w \in Page : Waits(q, w)' =>
            supt'[q][w].swap_index \notin swap_available' /\ supt'[q][w].swap_index # slot'
      BY <1>1, <1>2, <1>8, <1>9, <1>11, <2>4 DEF IInv, TableInv, SlotInv, Waits
    <3>3. \A q, r \in Proc : \A v, w \in Page :
            Waits(q, v)' /\ Waits(r, w)' /\ supt'[r][w].swap_index = supt'[q][v].swap_index
            => q = r /\ v = w
      BY <1>8, <1>9, <2>4 DEF IInv, SlotInv
    <3> QED
      BY <1>2, <3>1, <3>2, <3>3 DEF SlotInv
  <2>6. SlotsKept'
    BY Zenon, <2>0 DEF IInv, Types, SlotsKept, AllAlive
  <2> QED
    BY Zenon, <1>12, <2>1, <2>2, <2>3, <2>5, <2>6 DEF IInv
<1> QED
  BY Zenon, <1>2, <1>13, <1>14

-----------------------------------------------------------------------------
(* The operators that choose: pick_frame_to_evict and bitmap_scan_and_flip. *)

(* Natural numbers have a least one among them. *)
LEMMA LeastNatural ==
  ASSUME NEW S, S \subseteq Nat, S # {}
  PROVE  \E k \in S : \A i \in S : k <= i
<1>1. IsWellFoundedOn(OpToRel(<, Nat), Nat)
  BY Zenon, NatLessThanWellFounded
<1>2. PICK k \in S : \A i \in S : ~(<<i, k>> \in OpToRel(<, Nat))
  BY Zenon, <1>1, WFMin
<1>3. \A i \in S : ~(i < k)
  BY Zenon, <1>2 DEF OpToRel
<1> QED
  BY <1>3

(* The least of a set of numbers (bitmap_scan_and_flip's first free page) is one of them. *)
LEMMA MinIs ==
  ASSUME NEW S, S \subseteq Nat, S # {}
  PROVE  Min(S) \in S
BY Zenon, LeastNatural DEF Min

(* The loop of pick_frame_to_evict is a function of the number of turns. *)
Picking(p, f, n) ==
  f = [it \in 0 .. n |->
         IF it = 0 THEN [clock |-> clock_ptr, bits |-> accessed[p], found |-> FALSE, tail |-> FALSE]
         ELSE Turn(f[it - 1])]

(* That function exists, for any number of turns. *)
LEMMA PickingExists ==
  ASSUME NEW p \in Proc, NEW n \in Nat
  PROVE  \E f : Picking(p, f, n)
<1> DEFINE S == {k \in Nat : ~ \E f : Picking(p, f, k)}
<1> SUFFICES ASSUME S # {} PROVE FALSE
  BY Zenon
<1>1. PICK k \in S : \A i \in S : k <= i
  <2>1. S \subseteq Nat
    BY Zenon
  <2> HIDE DEF S
  <2> QED
    BY Zenon, <2>1, LeastNatural
<1>2. Picking(p, [it \in 0 .. 0 |-> [clock |-> clock_ptr, bits |-> accessed[p], found |-> FALSE,
                                     tail |-> FALSE]], 0)
  BY DEF Picking
<1>3. k # 0
  BY Zenon, <1>2
<1>4. PICK g : Picking(p, g, k - 1)
  <2>1. k \in Nat /\ k - 1 \in Nat /\ ~(k <= k - 1)
    BY <1>3
  <2>2. k - 1 \notin S
    <3> HIDE DEF S
    <3> QED
      BY Zenon, <1>1, <2>1
  <2> QED
    BY Zenon, <2>1, <2>2
<1> DEFINE h == [it \in 0 .. k |-> IF it = k THEN Turn(g[k - 1]) ELSE g[it]]
<1>5. Picking(p, h, k)
  <2> SUFFICES ASSUME NEW it \in 0 .. k
               PROVE  h[it] = IF it = 0 THEN [clock |-> clock_ptr, bits |-> accessed[p],
                                              found |-> FALSE, tail |-> FALSE]
                              ELSE Turn(h[it - 1])
    BY Zenon DEF Picking
  <2>1. CASE it = 0
    BY <2>1, <1>3, <1>4 DEF Picking
  <2>2. CASE it = k
    BY <2>2, <1>3
  <2>3. CASE it # 0 /\ it # k
    <3>1. it \in 0 .. k - 1 /\ it - 1 \in 0 .. k /\ it - 1 # k
      BY <2>3
    <3>2. g[it] = Turn(g[it - 1])
      BY Zenon, <2>3, <3>1, <1>4 DEF Picking
    <3>3. h[it] = g[it] /\ h[it - 1] = g[it - 1]
      BY Zenon, <2>3, <3>1
    <3> QED
      BY Zenon, <2>3, <3>2, <3>3
  <2> QED
    BY Zenon, <2>1, <2>2, <2>3
<1> QED
  BY Zenon, <1>5

(* What pick_frame_to_evict leaves after any number of turns: a clock on   *)
(* the list or on its tail, fewer accessed bits, and, if it has found an   *)
(* entry, one that is not pinned.                                          *)
Picked(s, b) ==
  /\ s \in [clock : 0 .. Len(frame_list) + 1, bits : SUBSET b, found : BOOLEAN, tail : BOOLEAN]
  /\ s.found => s.clock \in DOMAIN frame_list /\ ~frame_list[s.clock].pinned

(* One turn keeps what Picked says of the clock. *)
LEMMA TurnPicks ==
  ASSUME NEW b, NEW s, Picked(s, b), frame_list \in Seq(Entry)
  PROVE  Picked(Turn(s), b)
<1> DEFINE c == clock_frame_next(s.clock)
<1>1. c \in 1 .. Len(frame_list) + 1
  BY DEF Picked, clock_frame_next
<1> HIDE DEF c
<1>2. CASE s.found
  BY Zenon, <1>2 DEF Turn
<1>3. CASE ~s.found /\ c = Len(frame_list) + 1
  <2>1. Turn(s) = [s EXCEPT !.clock = c, !.tail = TRUE]
    BY Zenon, <1>3 DEF Turn, c
  <2>2. c \in 0 .. Len(frame_list) + 1
    BY <1>1
  <2> QED
    BY Zenon, <1>3, <2>1, <2>2 DEF Picked
<1>4. CASE ~s.found /\ c # Len(frame_list) + 1
  <2>1. c \in DOMAIN frame_list /\ c \in 0 .. Len(frame_list) + 1
    BY <1>1, <1>4
  <2>3. frame_list[c].pinned \in BOOLEAN
    <3>1. frame_list[c] \in Entry
      BY <2>1
    <3> QED
      BY Zenon, <3>1 DEF Entry
  <2>2. Turn(s) = CASE frame_list[c].pinned -> [s EXCEPT !.clock = c]
                    [] ~frame_list[c].pinned /\ frame_list[c].upage \in s.bits ->
                         [s EXCEPT !.clock = c, !.bits = @ \ {frame_list[c].upage}]
                    [] ~frame_list[c].pinned /\ frame_list[c].upage \notin s.bits ->
                         [s EXCEPT !.clock = c, !.found = TRUE]
    BY Zenon, <1>4 DEF Turn, c
  <2> QED
    BY Zenon, <1>4, <2>1, <2>2, <2>3 DEF Picked
<1> QED
  BY Zenon, <1>2, <1>3, <1>4 DEF Picked

(* pick_frame_to_evict stops on an entry that is not pinned and only clears bits. *)
LEMMA PickIs ==
  ASSUME NEW p \in Proc, frame_list \in Seq(Entry), clock_ptr \in 0 .. Len(frame_list)
  PROVE  Picked(pick_frame_to_evict(p), accessed[p])
<1> DEFINE n == Cardinality({i \in DOMAIN frame_list : frame_list[i].hashed})
           F == CHOOSE f : Picking(p, f, 2 * n + 1)
<1>1. n \in Nat
  <2>1. IsFiniteSet(1 .. Len(frame_list))
    BY FS_Interval
  <2>2. IsFiniteSet({i \in DOMAIN frame_list : frame_list[i].hashed})
    BY <2>1, FS_Subset
  <2> QED
    BY Zenon, <2>2, FS_CardinalityType
<1>2. pick_frame_to_evict(p) = F[2 * n + 1]
  BY Zenon DEF pick_frame_to_evict, Picking
<1> HIDE DEF n
<1>3. Picking(p, F, 2 * n + 1)
  <2>1. 2 * n + 1 \in Nat
    BY <1>1
  <2> QED
    BY Zenon, <2>1, PickingExists
<1> HIDE DEF F
<1> DEFINE S == {k \in 0 .. 2 * n + 1 : ~Picked(F[k], accessed[p])}
<1>4. S = {}
  <2> SUFFICES ASSUME S # {} PROVE FALSE
    BY Zenon
  <2>1. PICK k \in S : \A i \in S : k <= i
    <3>1. S \subseteq Nat
      BY <1>1
    <3> HIDE DEF S
    <3> QED
      BY Zenon, <3>1, LeastNatural
  <2>2. Picked(F[0], accessed[p])
    <3>1. F[0] = [clock |-> clock_ptr, bits |-> accessed[p], found |-> FALSE, tail |-> FALSE]
      BY <1>1, <1>3 DEF Picking
    <3>2. clock_ptr \in 0 .. Len(frame_list) + 1
      OBVIOUS
    <3> QED
      BY <3>1, <3>2 DEF Picked
  <2>3. k \in 0 .. 2 * n + 1 /\ k - 1 \in 0 .. 2 * n + 1 /\ ~(k <= k - 1) /\ k # 0
    BY <1>1, <2>2
  <2>4. k - 1 \notin S
    <3> HIDE DEF S
    <3> QED
      BY Zenon, <2>1, <2>3
  <2>5. F[k] = Turn(F[k - 1])
    BY Zenon, <1>3, <2>3 DEF Picking
  <2> QED
    BY Zenon, <2>3, <2>4, <2>5, TurnPicks
<1> QED
  BY <1>1, <1>2, <1>4

(* The victim that frame_allocate picks is the entry of a present page,    *)
(* and its frame is not the one of a page that is being brought in.        *)
Unmaps(p, e) ==
  /\ pc[p] = "alloc" /\ frame_lock = NULL
  /\ e \in Entry /\ e # NULL /\ ~e.pinned /\ e.hashed /\ pc[e.owner] # "dead"
  /\ \E i \in DOMAIN frame_list : frame_list[i] = e
  /\ pte[e.owner][e.upage] = e.kpage /\ ~Bringing(e.owner, e.kpage)
  /\ clock_ptr' \in DOMAIN frame_list
  /\ accessed' \in [Proc -> SUBSET Page]
  /\ pte' = [pte EXCEPT ![e.owner][e.upage] = 0]
  /\ victim' = e /\ frame_lock' = p
  /\ pc' = [pc EXCEPT ![p] = "swap_out"]
  /\ UNCHANGED <<writable, supt, contents, page, kpage, used, frame_list, slot, panicked, swapVars>>

(* An eviction unmaps the page of an unpinned entry, which is present. *)
LEMMA EvictIs ==
  ASSUME NEW p \in Proc, IInv, Evict(p)
  PROVE  \E e : Unmaps(p, e)
<1> DEFINE pick == pick_frame_to_evict(p)
           e == frame_list[pick.clock]
<1>1. Picked(pick, accessed[p])
  <2>1. frame_list \in Seq(Entry) /\ clock_ptr \in 0 .. Len(frame_list)
    BY Zenon DEF IInv, Types, TypeOK, Evict
  <2> QED
    BY Zenon, <2>1, PickIs
<1>2. /\ pc[p] = "alloc" /\ frame_lock = NULL /\ pick.found
      /\ pc[e.owner] # "dead"
      /\ clock_ptr' = pick.clock
      /\ accessed' = [accessed EXCEPT ![p] = pick.bits]
      /\ pte' = [pte EXCEPT ![e.owner][e.upage] = 0]
      /\ victim' = e /\ frame_lock' = p
      /\ pc' = [pc EXCEPT ![p] = "swap_out"]
      /\ UNCHANGED <<writable, supt, contents, page, kpage, used, frame_list, slot, panicked,
                     swapVars>>
  BY Zenon DEF Evict, At, Goto
<1> HIDE DEF pick
<1>3. pick.clock \in DOMAIN frame_list /\ ~e.pinned /\ pick.bits \subseteq accessed[p]
  BY Zenon, <1>1, <1>2 DEF Picked
<1>4. e \in Entry /\ e # NULL
  BY <1>3, ConstantsAssumption DEF IInv, Types, TypeOK
<1>5. EntryOK(e) /\ victim = NULL
  BY Zenon, <1>2, <1>3, Unlocked DEF IInv, EntryInv
<1>6. e.hashed /\ ~Bringing(e.owner, e.kpage)
  BY Zenon, <1>2, <1>3, <1>5 DEF EntryOK
<1>7. pte[e.owner][e.upage] = e.kpage
  BY Zenon, <1>2, <1>4, <1>5, <1>6 DEF EntryOK, Holds, Bringing, Fills
<1>8. accessed' \in [Proc -> SUBSET Page]
  BY Zenon, <1>2, <1>3 DEF IInv, Types, TypeOK
<1> QED
  BY Zenon, <1>2, <1>3, <1>4, <1>6, <1>7, <1>8 DEF Unmaps

(* A victim is chosen and unmapped. *)
LEMMA EvictStep ==
  ASSUME NEW p \in Proc, IInv, Evict(p)
  PROVE  IInv'
<1>0. PICK e : Unmaps(p, e)
  BY Zenon, EvictIs
<1> USE DEF Unmaps
<1>a. victim = NULL /\ slot = -1 /\ \A q \in Proc : pc[q] \notin {"swap_out", "replace"}
  BY Zenon, <1>0, Unlocked
<1>b. e.owner \in Proc /\ e.upage \in Page /\ e.kpage \in Frame /\ e.kpage # 0
  BY <1>0 DEF Entry, Frame
<1>c. \A q \in Proc : \A w \in Page :
        pte'[q][w] = IF q = e.owner /\ w = e.upage THEN 0 ELSE pte[q][w]
  BY Zenon, <1>0, <1>b DEF IInv, Types, TypeOK
<1>1. Types'
  <2>1. pte' \in [Proc -> [Page -> Frame \cup {0}]]
    BY Zenon, <1>0 DEF IInv, Types, TypeOK
  <2>2. pc' \in [Proc -> Label] /\ \A q \in Proc : pc'[q] \in {"swap_out", "replace"} <=> q = p
    BY Zenon, <1>0, <1>a DEF IInv, Types, Label
  <2>3. clock_ptr' \in {FREED} \cup 0 .. Len(frame_list)
    BY <1>0 DEF IInv, Types, TypeOK
  <2> QED
    BY Zenon, <1>0, <2>1, <2>2, <2>3, ConstantsAssumption DEF IInv, Types, TypeOK, swapVars
<1>2. TableInv'
  <2>1. \A q \in Proc : pc[q] = "unpin" => ~(q = e.owner /\ page[q] = e.upage)
    BY <1>0 DEF IInv, TableInv, Bringing
  <2> QED
    BY <1>0, <1>a, <1>c, <2>1 DEF IInv, Types, TableInv
<1>d. \A q \in Proc : \A f : (Bringing(q, f)' <=> Bringing(q, f)) /\ (Fills(q, f)' <=> Fills(q, f))
  BY Zenon, <1>0 DEF IInv, Types, Bringing, Fills
<1>e. ASSUME NEW i \in DOMAIN frame_list, frame_list[i].hashed, Holds(frame_list[i])
      PROVE  Holds(frame_list[i])'
  <2> DEFINE d == frame_list[i]
  <2>1. d.owner \in Proc /\ d.upage \in Page /\ d # NULL
    BY Zenon, Listed
  <2>2. CASE pte[d.owner][d.upage] = d.kpage /\ d.owner = e.owner /\ d.upage = e.upage
    <3>1. d = e
      BY Zenon, <1>0, <1>e, <2>2 DEF IInv, EntryInv, HashedOnce
    <3> QED
      BY Zenon, <1>0, <3>1 DEF Holds
  <2>3. CASE pte[d.owner][d.upage] = d.kpage /\ ~(d.owner = e.owner /\ d.upage = e.upage)
    BY <1>0, <1>c, <2>1, <2>3 DEF Holds
  <2>4. CASE Fills(d.owner, d.kpage) /\ page[d.owner] = d.upage
    BY Zenon, <1>0, <1>d, <2>1, <2>4 DEF Holds
  <2> QED
    BY Zenon, <1>a, <1>e, <2>1, <2>2, <2>3, <2>4 DEF Holds
<1>3. EntryInv'
  <2> SUFFICES ASSUME NEW i \in DOMAIN frame_list PROVE EntryOK(frame_list[i])'
    BY Zenon, <1>0 DEF IInv, EntryInv, HashedOnce
  <2>1. EntryOK(frame_list[i]) /\ frame_list[i].owner \in Proc
    BY Zenon, Listed DEF IInv, EntryInv
  <2>2. pc[frame_list[i].owner] = "dead" <=> pc'[frame_list[i].owner] = "dead"
    BY Zenon, <1>0, <2>1 DEF IInv, Types
  <2> QED
    BY Zenon, <1>0, <1>d, <1>e, <2>1, <2>2 DEF EntryOK
<1>4. MappedInv' /\ FillInv'
  BY <1>0, <1>c DEF IInv, Types, MappedInv, FillInv, Fills
<1>5. VictimInv'
  <2>1. \A q \in Proc : ~Fills(q, e.kpage)' /\ e.kpage \in used
    BY <1>0, <1>b DEF IInv, Types, MappedInv, Fills
  <2>2. \A q \in Proc : \A w \in Page : pte'[q][w] # e.kpage
    BY <1>0, <1>b, <1>c DEF IInv, MappedInv
  <2>3. supt'[e.owner][e.upage].status = "ON_FRAME"
    BY Zenon, <1>0, <1>b DEF IInv, TableInv
  <2> QED
    BY <1>0, <1>b, <1>c, <2>1, <2>2, <2>3 DEF VictimInv
<1>6. SlotInv'
  BY <1>0, <1>a DEF IInv, Types, SlotInv, Waits, swapVars
<1>7. TableKept'
  <2> SUFFICES ASSUME AllAlive' PROVE \A i \in DOMAIN frame_list : EntryKept(frame_list[i])'
    BY <1>0 DEF IInv, Types, TableKept, AllAlive, KpageOnce
  <2> TAKE i \in DOMAIN frame_list
  <2>1. EntryKept(frame_list[i]) /\ frame_list[i].owner \in Proc
    BY Zenon, <1>0, Listed DEF IInv, Types, TableKept, AllAlive
  <2> QED
    BY Zenon, <1>0, <1>d, <1>e, <2>1 DEF EntryKept
<1>8. SlotsKept'
  BY <1>0, <1>a DEF IInv, Types, SlotsKept, AllAlive, Waits, swapVars
<1> QED
  BY Zenon, <1>1, <1>2, <1>3, <1>4, <1>5, <1>6, <1>7, <1>8 DEF IInv

(* The victim is written to a free slot. *)
LEMMA SwapOutStep ==
  ASSUME NEW p \in Proc, IInv, SwapOut(p)
  PROVE  IInv'
<1>0. Min(swap_available) \in swap_available /\ swap_available \subseteq Slot
  <2>1. swap_available \subseteq Nat
    BY DEF IInv, Types, TypeOK, Slot
  <2> QED
    BY Zenon, <2>1, MinIs DEF IInv, Types, TypeOK, SwapOut
<1>1. Types'
  <2>1. Min(swap_available) \in swap_available /\ Min(swap_available) \in Slot
    BY Zenon, <1>0
  <2>2. victim.kpage \in Frame
    BY Zenon, Locked DEF SwapOut, At, Entry
  <2>3. swap' \in [Slot -> Value]
    BY Zenon, <2>1, <2>2 DEF IInv, Types, TypeOK, SwapOut
  <2>4. pc' \in [Proc -> Label] /\ \A q \in Proc : pc'[q] \in {"swap_out", "replace"} <=> frame_lock = q
    BY Zenon DEF IInv, Types, TypeOK, Label, SwapOut, At, Goto
  <2> QED
    BY Zenon, <2>1, <2>3, <2>4 DEF IInv, Types, TypeOK, SwapOut, tables
<1>2. TableInv'
  BY ConstantsAssumption
  DEF IInv, Types, TypeOK, TableInv, SwapOut, At, Goto, tables, frameVars, swapVars
<1>3. EntryInv'
  BY ConstantsAssumption
  DEF IInv, Types, TypeOK, EntryInv, HashedOnce, EntryOK, Holds, Bringing, Fills, SwapOut, At,
      Goto, tables, frameVars, swapVars
<1>4. MappedInv'
  BY ConstantsAssumption
  DEF IInv, Types, TypeOK, MappedInv, Fills, TableInv, SwapOut, At, Goto, tables, frameVars,
      swapVars
<1>5. FillInv'
  BY ConstantsAssumption
  DEF IInv, Types, TypeOK, FillInv, Fills, TableInv, MappedInv, SwapOut, At, Goto, tables,
      frameVars, swapVars
<1>6. VictimInv'
  BY ConstantsAssumption
  DEF IInv, Types, TypeOK, VictimInv, Fills, TableInv, SwapOut, At, Goto, tables, frameVars,
      swapVars
<1>7. SlotInv'
  <2> DEFINE s == Min(swap_available)
  <2>1. /\ swap' = [swap EXCEPT ![s] = contents[victim.kpage]]
        /\ swap_available' = swap_available \ {s} /\ slot' = s
        /\ pc' = [pc EXCEPT ![p] = "replace"] /\ UNCHANGED <<supt, page, contents, victim>>
    BY Zenon DEF SwapOut, Goto
  <2>2. s \in swap_available /\ s \in Slot
    BY Zenon, <1>0
  <2>3. frame_lock = p /\ \A q \in Proc : pc'[q] = "replace" => q = p
    BY Zenon, <2>1, Locked DEF IInv, Types, SwapOut, At
  <2> HIDE DEF s
  <2>4. \A q \in Proc : \A w \in Page : Waits(q, w)' => Waits(q, w)
    BY Zenon, <2>1 DEF IInv, Types, Waits, SwapOut, At
  <2>5. \A q \in Proc : \A w \in Page : Waits(q, w)' =>
          supt'[q][w].swap_index \notin swap_available' /\ supt'[q][w].swap_index # slot'
    BY <2>1, <2>2, <2>4 DEF IInv, SlotInv
  <2>6. slot' \in Slot \ swap_available' /\ swap'[slot'] = contents'[victim'.kpage] /\ pc'[p] = "replace"
    BY Zenon, <2>1, <2>2 DEF IInv, Types, TypeOK
  <2> QED
    BY <2>1, <2>3, <2>4, <2>5, <2>6 DEF IInv, SlotInv
<1>8. TableKept'
  BY ConstantsAssumption
  DEF IInv, Types, TypeOK, TableKept, AllAlive, KpageOnce, EntryKept, Holds, Bringing, Fills,
      TableInv, SwapOut, At, Goto, tables, frameVars, swapVars
<1>9. SlotsKept'
  <2> SUFFICES ASSUME AllAlive', NEW s \in Slot \ swap_available', s # slot'
               PROVE  \E q \in Proc : \E w \in Page : Waits(q, w)' /\ supt'[q][w].swap_index = s
    BY Zenon DEF SlotsKept
  <2>1. AllAlive /\ s \in Slot \ swap_available /\ s # slot
    BY Locked DEF IInv, Types, AllAlive, Slot, SwapOut, At, Goto
  <2>2. PICK q \in Proc, w \in Page : Waits(q, w) /\ supt[q][w].swap_index = s
    BY Zenon, <2>1 DEF IInv, SlotsKept
  <2> QED
    BY Zenon, <2>2 DEF IInv, Types, Waits, SwapOut, At, Goto
<1> QED
  BY Zenon, <1>1, <1>2, <1>3, <1>4, <1>5, <1>6, <1>7, <1>8, <1>9 DEF IInv

(* palloc_get_page has a frame. *)
LEMMA AllocateStep ==
  ASSUME NEW p \in Proc, IInv, Allocate(p)
  PROVE  IInv'
<1> DEFINE f == Min(Frame \ used)
<1>1. f \in Frame /\ f \notin used
  <2>1. Frame \ used \subseteq Nat /\ Frame \ used # {}
    <3>1. Frame \subseteq Nat
      BY ConstantsAssumption DEF Frame
    <3> QED
      BY Zenon, <3>1 DEF IInv, Types, TypeOK, Allocate
  <2> QED
    BY Zenon, <2>1, MinIs
<1>2. /\ pc[p] = "alloc" /\ frame_lock = NULL /\ victim = NULL
      /\ UNCHANGED <<pte, writable, accessed, supt, contents, page, frame_lock, victim, slot, panicked,
                     swap_available, swap>>
      /\ Insert(p, f, frame_list, clock_ptr) \/ NoBlock(p, f, frame_list, clock_ptr)
  BY Zenon DEF IInv, Types, TypeOK, Allocate, At, tables, swapVars
<1> HIDE DEF f
<1>3. \A q \in Proc : ~Fills(q, f) /\ \A v \in Page : pte[q][v] # f
  BY <1>1 DEF IInv, FillInv, MappedInv, Fills, Frame
<1>4. /\ frame_list \in Seq(Entry) /\ clock_ptr \in {FREED} \cup 0 .. Len(frame_list)
      /\ HashedOnce(frame_list)
      /\ \A j \in DOMAIN frame_list : frame_list[j] # victim
  BY Zenon, <1>2, Listed DEF IInv, Types, TypeOK, EntryInv
<1>5. AllAlive => /\ \A j \in DOMAIN frame_list : frame_list[j].kpage # f
                  /\ used \cup {f} = {frame_list[j].kpage : j \in DOMAIN frame_list} \cup {f}
  BY Zenon, <1>1 DEF IInv, TableKept
<1>6. \A q \in Proc : pc[q] \notin {"swap_out", "replace"}
  BY Zenon, <1>2, Unlocked
<1>7. CASE Insert(p, f, frame_list, clock_ptr)
  <2>0. /\ pc' = [pc EXCEPT ![p] = "fill"] /\ kpage' = [kpage EXCEPT ![p] = f]
        /\ used' = used \cup {f}
    BY Zenon, <1>7 DEF Insert, Goto
  <2>1. EntryInv' /\ MappedInv' /\ FillInv' /\ TableKept'
    BY Zenon, <1>1, <1>2, <1>3, <1>4, <1>5, <1>7, InsertKeeps
  <2>2. Types'
    <3>1. frame_list' \in Seq(Entry) /\ clock_ptr' \in {FREED} \cup 0 .. Len(frame_list')
      BY Zenon, <1>1, <1>4, <1>7, InsertIs
    <3> QED
      BY Zenon, <1>1, <1>2, <2>0, <3>1 DEF IInv, Types, TypeOK, Label
  <2>3. TableInv'
    BY <1>1, <1>2, <2>0 DEF IInv, Types, TypeOK, TableInv
  <2>4. VictimInv'
    BY Zenon, <1>2 DEF VictimInv
  <2>5. SlotInv' /\ SlotsKept'
    <3>1. \A q \in Proc : \A w \in Page : Waits(q, w)' <=> Waits(q, w)
      BY Zenon, <1>2, <2>0 DEF IInv, Types, Waits
    <3>2. AllAlive' => AllAlive
      BY Zenon, <1>2, <2>0 DEF IInv, Types, AllAlive
    <3>3. \A q \in Proc : pc'[q] = "replace" <=> pc[q] = "replace"
      BY Zenon, <1>2, <2>0 DEF IInv, Types
    <3> QED
      BY Zenon, <1>2, <3>1, <3>2, <3>3, WaitsKept
  <2> QED
    BY Zenon, <2>1, <2>2, <2>3, <2>4, <2>5 DEF IInv
<1>8. CASE NoBlock(p, f, frame_list, clock_ptr)
  <2>0. /\ pc' = [pc EXCEPT ![p] = "fail"] /\ UNCHANGED <<kpage, frame_list, clock_ptr>>
        /\ used' = used \cup {f}
    BY Zenon, <1>8 DEF NoBlock, Goto
  <2>1. EntryInv' /\ MappedInv' /\ FillInv' /\ TableKept'
    <3>1. \A g : ~Fills(p, g)
      BY Zenon, <1>2 DEF Fills
    <3> QED
      BY ZenonT(40), <1>2, <1>3, <1>4, <2>0, <3>1, GiveUpKeeps
  <2>2. Types'
    BY Zenon, <1>1, <1>2, <2>0 DEF IInv, Types, TypeOK, Label
  <2>3. TableInv'
    BY <1>1, <1>2, <2>0 DEF IInv, Types, TypeOK, TableInv
  <2>4. VictimInv'
    BY Zenon, <1>2 DEF VictimInv
  <2>5. SlotInv' /\ SlotsKept'
    <3>1. \A q \in Proc : \A w \in Page : Waits(q, w)' => Waits(q, w)
      BY Zenon, <1>2, <2>0 DEF IInv, Types, Waits
    <3>2. ~AllAlive'
      BY Zenon, <2>0 DEF IInv, Types, AllAlive
    <3>3. \A q \in Proc : pc'[q] = "replace" <=> pc[q] = "replace"
      BY Zenon, <1>2, <2>0 DEF IInv, Types
    <3> QED
      BY Zenon, <1>2, <3>1, <3>2, <3>3, WaitsKept
  <2> QED
    BY Zenon, <2>1, <2>2, <2>3, <2>4, <2>5 DEF IInv
<1> QED
  BY Zenon, <1>2, <1>7, <1>8

(* Every step keeps the invariant. *)
LEMMA NextIInv == IInv /\ [Next]_vars => IInv'
<1> SUFFICES ASSUME IInv, [Next]_vars PROVE IInv'
  BY Zenon
<1>1. CASE UNCHANGED vars \/ Stopped
  BY Zenon, <1>1, QuietStep DEF Stopped
<1>2. ASSUME NEW p \in Proc, EvictPanics(p) \/ SwapFull(p) \/ ReplacePanics(p)
      PROVE  IInv'
  BY Zenon, <1>2, QuietStep DEF EvictPanics, SwapFull, ReplacePanics
<1>3. ASSUME NEW p \in Proc, \/ Load(p) \/ Allocate(p) \/ Evict(p) \/ SwapOut(p) \/ Replace(p)
                             \/ Fill(p) \/ FillFails(p) \/ Map(p) \/ Unpin(p) \/ Exit(p)
      PROVE  IInv'
  BY Zenon, <1>3, LoadStep, AllocateStep, EvictStep, SwapOutStep, ReplaceStep, FillStep,
     FillFailsStep, MapStep, UnpinStep, ExitStep
<1>4. ASSUME NEW p \in Proc, NEW v \in Page, PageFault(p, v) \/ \E x \in Value : Write(p, v, x)
      PROVE  IInv'
  BY Zenon, <1>4, PageFaultStep, WriteStep
<1> QED
  BY Zenon, <1>1, <1>2, <1>3, <1>4 DEF Next

(* The inductive invariant holds for any number of processes, pages,       *)
(* frames and swap slots, and in every order of their faults, evictions    *)
(* and exits (vm/frame.c, vm/page.c, vm/swap.c).                           *)
THEOREM Invariance == Spec => []IInv
BY InitIInv, NextIInv, PTL DEF Spec

-----------------------------------------------------------------------------
(* Frames and swap slots are private: palloc gives out no frame that is in *)
(* use, and a slot that a page waits in is neither free nor written        *)
(* (frame_allocate, frame_do_free, swap_out, swap_in).                     *)
THEOREM MemoryStaysPrivate == Spec => []MemoryPrivate
<1>1. IInv => MemoryPrivate
  <2> SUFFICES ASSUME IInv PROVE TypeOK /\ FramesPrivate /\ SlotsPrivate
    BY Zenon DEF MemoryPrivate
  <2>1. TypeOK
    BY Zenon DEF IInv, Types
  <2>2. FramesPrivate
    BY DEF IInv, MappedInv, FillInv, Fills, FramesPrivate, Filling
  <2>3. SlotsPrivate
    BY DEF IInv, SlotInv, Waits, SlotsPrivate, Swapped, Alive
  <2> QED
    BY Zenon, <2>1, <2>2, <2>3
<1> QED
  BY <1>1, Invariance, PTL

(* Before a process ends nothing leaks: every frame palloc has given out   *)
(* has one entry in the frame table, every entry knows its page, and every *)
(* slot taken holds a page (frame_allocate, frame_unpin, swap.c).          *)
THEOREM NothingIsLeaked == Spec => []NothingLeaks
<1>1. IInv => NothingLeaks
  <2> SUFFICES ASSUME IInv, Alive = Proc PROVE NothingLeaks
    BY Zenon DEF NothingLeaks
  <2>1. AllAlive
    BY Zenon DEF Alive, AllAlive
  <2>2. used = {frame_list[i].kpage : i \in DOMAIN frame_list}
    BY Zenon, <2>1 DEF IInv, TableKept
  <2>3. Cardinality(used) = Len(frame_list)
    <3> DEFINE n == Len(frame_list)
               k == [i \in 1 .. n |-> frame_list[i].kpage]
    <3>1. n \in Nat /\ DOMAIN frame_list = 1 .. n
      BY DEF IInv, Types, TypeOK
    <3>2. k \in Bijection(1 .. n, used)
      <4>1. k \in Injection(1 .. n, used)
        BY Zenon, <2>1, <2>2, <3>1 DEF Injection, IsInjective, IInv, TableKept, KpageOnce
      <4>2. k \in Surjection(1 .. n, used)
        BY Zenon, <2>2, <3>1 DEF Surjection
      <4> QED
        BY Zenon, <4>1, <4>2 DEF Bijection
    <3>3. IsFiniteSet(1 .. n) /\ Cardinality(1 .. n) = n
      <4> HIDE DEF n
      <4> QED
        BY <3>1, FS_Interval
    <3> HIDE DEF k, n
    <3>4. Cardinality(used) = n
      BY Zenon, <3>2, <3>3, FS_Bijection DEF ExistsBijection
    <3> QED
      BY Zenon, <3>4 DEF n
  <2>4. ASSUME NEW i \in DOMAIN frame_list
        PROVE  LET e == frame_list[i]
               IN  /\ e.pinned <=> pc[e.owner] \in {"fill", "map", "unpin"} /\ kpage[e.owner] = e.kpage
                   /\ \/ pte[e.owner][e.upage] = e.kpage
                      \/ e.kpage \in Filling(e.owner) /\ page[e.owner] = e.upage
                      \/ victim = e
    <3>1. EntryKept(frame_list[i])
      BY Zenon, <2>1 DEF IInv, TableKept
    <3> QED
      BY Zenon, <3>1 DEF EntryKept, Bringing, Holds, Fills, Filling
  <2>5. \A s \in Slot \ swap_available :
          s = slot \/ \E p \in Proc : \E v \in Swapped(p) : supt[p][v].swap_index = s
    BY Zenon, <2>1 DEF IInv, SlotsKept, Waits, Swapped
  <2> QED
    BY Zenon, <2>2, <2>3, <2>4, <2>5 DEF NothingLeaks
<1> QED
  BY <1>1, Invariance, PTL

-----------------------------------------------------------------------------
(* Paging is invisible.  Where the contents of a page are: *)
Place(p, v) ==
  IF pc[p] \in {"fail", "dead"} THEN initial[v]
  ELSE IF pte[p][v] # 0 THEN contents[pte[p][v]]
  ELSE IF victim # NULL /\ victim.owner = p /\ victim.upage = v THEN contents[victim.kpage]
  ELSE IF pc[p] = "map" /\ page[p] = v THEN contents[kpage[p]]
  ELSE IF supt[p][v].status = "ON_SWAP" THEN swap[supt[p][v].swap_index]
  ELSE initial[v]

(* PageContents is Place, before and after a step. *)
LEMMA PlaceIs ==
  ASSUME NEW p \in Proc, NEW v \in Page
  PROVE  PageContents(p, v) = Place(p, v) /\ PageContents(p, v)' = Place(p, v)'
<1>1. p \in Alive <=> pc[p] \notin {"fail", "dead"}
  BY Zenon DEF Alive
<1>2. p \in Alive' <=> pc'[p] \notin {"fail", "dead"}
  BY Zenon DEF Alive
<1>3. PageContents(p, v) = Place(p, v)
  BY Zenon, <1>1 DEF PageContents, Place
<1>4. PageContents(p, v)' = Place(p, v)'
  BY Zenon, <1>2 DEF PageContents, Place
<1> QED
  BY Zenon, <1>3, <1>4

memory == [p \in Proc |-> [v \in Page |-> PageContents(p, v)]]
runs == {p \in Proc : pc[p] = "user"}

(* The steps of Memory, page by page. *)
LEMMA Stutters ==
  ASSUME \A q \in Proc : /\ pc'[q] \in {"fail", "dead"} <=> pc[q] \in {"fail", "dead"}
                         /\ pc'[q] = "user" <=> pc[q] = "user"
                         /\ \A w \in Page : Place(q, w)' = Place(q, w)
  PROVE  UNCHANGED <<Alive, runs, memory>>
<1>1. UNCHANGED Alive
  BY Zenon DEF Alive
<1>2. UNCHANGED runs
  BY Zenon DEF runs
<1>3. UNCHANGED memory
  BY PlaceIs DEF memory
<1> QED
  BY Zenon, <1>1, <1>2, <1>3

(* A process enters or leaves the kernel, and no page changes. *)
LEMMA Traps ==
  ASSUME NEW p \in Proc, pc \in [Proc -> Label], NEW l, pc' = [pc EXCEPT ![p] = l],
         pc[p] \notin {"fail", "dead"}, l \notin {"fail", "dead"},
         \A q \in Proc : \A w \in Page : Place(q, w)' = Place(q, w)
  PROVE  M!Trap(p)
<1>1. Alive' = Alive /\ p \in Alive
  BY Zenon DEF Alive
<1>2. runs' = runs \cup {p} \/ runs' = runs \ {p}
  <2>1. CASE l = "user"
    BY Zenon, <2>1 DEF runs
  <2>2. CASE l # "user"
    BY Zenon, <2>2 DEF runs
  <2> QED
    BY Zenon, <2>1, <2>2
<1>3. UNCHANGED memory
  BY PlaceIs DEF memory
<1> QED
  BY Zenon, <1>1, <1>2, <1>3 DEF M!Trap, runs, memory

(* A process gives up its memory, and no other page changes. *)
LEMMA Exits ==
  ASSUME NEW p \in Proc, pc \in [Proc -> Label], NEW l \in {"fail", "dead"}, pc' = [pc EXCEPT ![p] = l],
         pc[p] \notin {"fail", "dead"},
         \A q \in Proc \ {p} : \A w \in Page : Place(q, w)' = Place(q, w)
  PROVE  M!Exit(p)
<1>1. Alive' = Alive \ {p} /\ p \in Alive
  BY Zenon DEF Alive
<1>2. runs' = runs \ {p}
  BY Zenon DEF runs
<1>3. memory' = [memory EXCEPT ![p] = initial]
  <2>1. \A w \in Page : Place(p, w)' = initial[w]
    BY Zenon DEF Place, initial
  <2>2. initial = [w \in Page |-> initial[w]]
    BY Zenon DEF initial
  <2>3. [v \in Page |-> PageContents(p, v)]' = initial
    BY Zenon, <2>1, <2>2, PlaceIs
  <2>4. \A q \in Proc \ {p} : [v \in Page |-> PageContents(q, v)]' = [v \in Page |-> PageContents(q, v)]
    BY PlaceIs
  <2> QED
    BY Zenon, <2>3, <2>4 DEF memory
<1> QED
  BY Zenon, <1>1, <1>2, <1>3 DEF M!Exit, runs, memory

(* Frames whose contents a process can reach are private to one page. *)
LEMMA FramesApart ==
  ASSUME IInv, NEW g, g # 0, NEW x, contents' = [contents EXCEPT ![g] = x],
         NEW q \in Proc, NEW w \in Page
  PROVE  /\ pte[q][w] # 0 /\ pte[q][w] # g => contents'[pte[q][w]] = contents[pte[q][w]]
         /\ victim # NULL /\ victim.kpage # g => contents'[victim.kpage] = contents[victim.kpage]
         /\ pc[q] = "map" /\ kpage[q] # g => contents'[kpage[q]] = contents[kpage[q]]
<1>1. victim # NULL => victim.kpage \in Frame
  BY Zenon DEF IInv, Types, Entry
<1>2. pc[q] = "map" => kpage[q] \in Frame
  BY Zenon DEF IInv, TableInv
<1>3. pte[q][w] # 0 => pte[q][w] \in Frame
  BY DEF IInv, Types, TypeOK
<1>4. \A h \in Frame : h # g => contents'[h] = contents[h]
  BY Zenon DEF IInv, Types, TypeOK
<1> QED
  BY Zenon, <1>1, <1>2, <1>3, <1>4

(* A page that is being brought in is not the one that is being evicted. *)
LEMMA NotVictim ==
  ASSUME IInv, NEW p \in Proc, pc[p] \in {"alloc", "swap_out", "replace", "fill", "map"}
  PROVE  ~(victim # NULL /\ victim.owner = p /\ victim.upage = page[p])
BY Zenon DEF IInv, TableInv, VictimInv

(* load_segment changes no page. *)
LEMMA LoadRefines ==
  ASSUME IInv, NEW p \in Proc, Load(p)
  PROVE  UNCHANGED <<Alive, runs, memory>>
<1>1. /\ pc[p] = "load" /\ pc' = [pc EXCEPT ![p] = "alloc"]
      /\ UNCHANGED <<pte, contents, victim, swap, page, kpage>>
      /\ supt' = [supt EXCEPT ![p] = [v \in Page |-> IF v \in FilePage
                                                      THEN supt_install_filesys ELSE NoEntry]]
  BY Zenon DEF Load, At, Goto, tables, frameVars, swapVars
<1>2. ASSUME NEW w \in Page
      PROVE  Place(p, w)' = Place(p, w)
  <2>1. supt[p][w].status = "none" /\ pte[p][w] = 0
    BY Zenon, <1>1 DEF IInv, TableInv
  <2>2. ~(victim # NULL /\ victim.owner = p /\ victim.upage = w)
    BY Zenon, <1>1, <2>1 DEF IInv, VictimInv
  <2>3. supt'[p][w].status # "ON_SWAP" /\ pc'[p] = "alloc"
    BY Zenon, <1>1 DEF IInv, Types, TypeOK, supt_install_filesys, NoEntry, Spte
  <2> QED
    BY Zenon, <1>1, <2>1, <2>2, <2>3 DEF Place, initial
<1>3. ASSUME NEW q \in Proc \ {p}, NEW w \in Page
      PROVE  Place(q, w)' = Place(q, w)
  <2>1. supt'[q] = supt[q] /\ pc'[q] = pc[q]
    BY Zenon, <1>1 DEF IInv, Types, TypeOK
  <2> QED
    BY <1>1, <2>1 DEF Place, initial
<1>4. \A q \in Proc : \A w \in Page : Place(q, w)' = Place(q, w)
  BY Zenon, <1>2, <1>3
<1>5. \A q \in Proc : /\ pc'[q] \in {"fail", "dead"} <=> pc[q] \in {"fail", "dead"}
                      /\ pc'[q] = "user" <=> pc[q] = "user"
  BY Zenon, <1>1 DEF IInv, Types
<1> QED
  BY Zenon, <1>4, <1>5, Stutters

(* A write changes its own page only. *)
LEMMA WriteRefines ==
  ASSUME IInv, NEW p \in Proc, NEW v \in Page, NEW x \in Value, Write(p, v, x)
  PROVE  M!Write(p, v, x)
<1> DEFINE g == pte[p][v]
<1>1. /\ pc[p] = "user" /\ g # 0 /\ contents' = [contents EXCEPT ![g] = x]
      /\ UNCHANGED <<pte, pc, victim, swap, page, kpage, supt>>
  BY Zenon DEF Write, At, frameVars, swapVars
<1>2. g \in Frame
  BY <1>1 DEF IInv, Types, TypeOK
<1>3. Place(p, v)' = x
  BY Zenon, <1>1, <1>2 DEF IInv, Types, TypeOK, Place
<1>4. ASSUME NEW q \in Proc, NEW w \in Page, ~(q = p /\ w = v)
      PROVE  Place(q, w)' = Place(q, w)
  <2>1. pte[q][w] # g /\ (victim # NULL => victim.kpage # g) /\ (pc[q] = "map" => kpage[q] # g)
    <3>1. ~Fills(q, g) /\ \A r \in Proc : \A y \in Page : pte[r][y] = g => p = r /\ v = y
      BY Zenon, <1>1 DEF IInv, MappedInv
    <3>2. victim # NULL => victim.kpage # g
      BY Zenon DEF IInv, VictimInv
    <3> QED
      BY Zenon, <1>4, <3>1, <3>2 DEF Fills
  <2> HIDE DEF g
  <2>2. /\ pte[q][w] # 0 /\ pte[q][w] # g => contents'[pte[q][w]] = contents[pte[q][w]]
        /\ victim # NULL /\ victim.kpage # g => contents'[victim.kpage] = contents[victim.kpage]
        /\ pc[q] = "map" /\ kpage[q] # g => contents'[kpage[q]] = contents[kpage[q]]
    BY Zenon, <1>1, FramesApart
  <2> QED
    BY Zenon, <1>1, <2>1, <2>2 DEF Place, initial
<1>5. memory' = [memory EXCEPT ![p][v] = x]
  <2> SUFFICES ASSUME NEW q \in Proc
               PROVE  memory'[q] = [memory EXCEPT ![p][v] = x][q]
    BY Zenon DEF memory
  <2>1. memory'[q] = [w \in Page |-> Place(q, w)'] /\ memory[q] = [w \in Page |-> Place(q, w)]
    BY Zenon, PlaceIs DEF memory
  <2>2. CASE q = p
    <3>1. [memory EXCEPT ![p][v] = x][q] = [memory[p] EXCEPT ![v] = x]
      BY Zenon, <2>2 DEF memory
    <3> QED
      BY <1>3, <1>4, <2>1, <2>2, <3>1
  <2>3. CASE q # p
    <3>1. [memory EXCEPT ![p][v] = x][q] = memory[q]
      BY Zenon, <2>3 DEF memory
    <3> QED
      BY Zenon, <1>4, <2>1, <2>3, <3>1
  <2> QED
    BY Zenon, <2>2, <2>3
<1>6. p \in runs /\ UNCHANGED <<Alive, runs>>
  BY Zenon, <1>1 DEF runs, Alive
<1> QED
  BY Zenon, <1>5, <1>6 DEF M!Write, runs, memory

(* A page fault enters the kernel. *)
LEMMA PageFaultRefines ==
  ASSUME IInv, NEW p \in Proc, NEW v \in Page, PageFault(p, v)
  PROVE  M!Trap(p)
<1>1. /\ pc[p] = "user" /\ pc' = [pc EXCEPT ![p] = "alloc"] /\ page' = [page EXCEPT ![p] = v]
      /\ UNCHANGED <<pte, contents, victim, swap, kpage>>
      /\ supt' = [supt EXCEPT ![p][v] = IF supt_has_entry(@) THEN @ ELSE supt_install_zeropage]
  BY Zenon DEF PageFault, At, Goto, tables, frameVars, swapVars
<1>2. ASSUME NEW q \in Proc, NEW w \in Page
      PROVE  Place(q, w)' = Place(q, w)
  <2>1. \/ supt'[q][w] = supt[q][w]
        \/ supt'[q][w].status # "ON_SWAP" /\ supt[q][w].status # "ON_SWAP"
    BY Zenon, <1>1 DEF IInv, Types, TypeOK, supt_has_entry, supt_install_zeropage, Spte
  <2>2. /\ pc'[q] \in {"fail", "dead"} <=> pc[q] \in {"fail", "dead"}
        /\ pc'[q] = "map" <=> pc[q] = "map"
        /\ pc[q] = "map" => page'[q] = page[q]
    BY Zenon, <1>1 DEF IInv, Types
  <2> QED
    BY <1>1, <2>1, <2>2 DEF Place, initial
<1>3. pc \in [Proc -> Label] /\ "alloc" \notin {"fail", "dead"} /\ pc[p] \notin {"fail", "dead"}
  BY Zenon, <1>1 DEF IInv, Types
<1> QED
  BY Zenon, <1>1, <1>2, <1>3, Traps

(* The victim's contents stay in its frame. *)
LEMMA EvictRefines ==
  ASSUME IInv, NEW p \in Proc, Evict(p)
  PROVE  UNCHANGED <<Alive, runs, memory>>
<1>0. PICK e : Unmaps(p, e)
  BY Zenon, EvictIs
<1>1. /\ pc[p] = "alloc" /\ pc' = [pc EXCEPT ![p] = "swap_out"]
      /\ UNCHANGED <<contents, swap, page, kpage, supt>>
      /\ pte[e.owner][e.upage] = e.kpage /\ victim' = e /\ e # NULL
      /\ pte' = [pte EXCEPT ![e.owner][e.upage] = 0]
      /\ e.owner \in Proc /\ e.upage \in Page /\ e.kpage # 0
  BY <1>0 DEF Unmaps, swapVars, Entry, Frame
<1>2. victim = NULL
  BY Zenon, <1>0, Unlocked DEF Unmaps
<1>3. \A q \in Proc : \A w \in Page :
        pte'[q][w] = IF q = e.owner /\ w = e.upage THEN 0 ELSE pte[q][w]
  BY Zenon, <1>1 DEF IInv, Types, TypeOK
<1>4. \A q \in Proc : /\ pc'[q] \in {"fail", "dead"} <=> pc[q] \in {"fail", "dead"}
                      /\ pc'[q] = "user" <=> pc[q] = "user"
                      /\ pc'[q] = "map" <=> pc[q] = "map"
  BY Zenon, <1>1 DEF IInv, Types
<1>5. ASSUME NEW q \in Proc, NEW w \in Page
      PROVE  Place(q, w)' = Place(q, w)
  <2>1. CASE q = e.owner /\ w = e.upage
    BY <1>1, <1>2, <1>3, <1>4, <2>1 DEF Place, initial
  <2>2. CASE ~(q = e.owner /\ w = e.upage)
    BY <1>1, <1>2, <1>3, <1>4, <2>2 DEF Place, initial
  <2> QED
    BY Zenon, <2>1, <2>2
<1> QED
  BY Zenon, <1>4, <1>5, Stutters

(* swap_out writes to no slot in which a page waits. *)
LEMMA SwapOutRefines ==
  ASSUME IInv, NEW p \in Proc, SwapOut(p)
  PROVE  UNCHANGED <<Alive, runs, memory>>
<1> DEFINE s == Min(swap_available)
<1>1. /\ pc[p] = "swap_out" /\ pc' = [pc EXCEPT ![p] = "replace"] /\ swap_available # {}
      /\ swap' = [swap EXCEPT ![s] = contents[victim.kpage]]
      /\ UNCHANGED <<pte, contents, victim, page, kpage, supt>>
  BY Zenon DEF SwapOut, At, Goto, tables
<1>2. s \in swap_available
  <2>1. swap_available \subseteq Nat
    BY ConstantsAssumption DEF IInv, Types, TypeOK, Slot
  <2> QED
    BY Zenon, <1>1, <2>1, MinIs
<1> HIDE DEF s
<1>3. \A q \in Proc : /\ pc'[q] \in {"fail", "dead"} <=> pc[q] \in {"fail", "dead"}
                      /\ pc'[q] = "user" <=> pc[q] = "user"
                      /\ pc'[q] = "map" <=> pc[q] = "map"
  BY Zenon, <1>1 DEF IInv, Types
<1>4. ASSUME NEW q \in Proc, NEW w \in Page
      PROVE  Place(q, w)' = Place(q, w)
  <2>1. Waits(q, w) => swap'[supt[q][w].swap_index] = swap[supt[q][w].swap_index]
    <3>1. Waits(q, w) => supt[q][w].swap_index \in Slot /\ supt[q][w].swap_index # s
      BY <1>2 DEF IInv, SlotInv, TableInv, Waits
    <3> QED
      BY Zenon, <1>1, <3>1 DEF IInv, Types, TypeOK
  <2> QED
    BY Zenon, <1>1, <1>3, <2>1 DEF Place, Waits, initial
<1> QED
  BY Zenon, <1>3, <1>4, Stutters

(* The pages of the processes but p, after p's Replace; with p's own when  *)
(* p goes on.                                                              *)
LEMMA ReplaceRefines ==
  ASSUME IInv, NEW p \in Proc, Replace(p)
  PROVE  UNCHANGED <<Alive, runs, memory>> \/ M!Exit(p)
<1>1. /\ pc[p] = "replace" /\ pc[victim.owner] # "dead" /\ victim' = NULL /\ victim # NULL
      /\ UNCHANGED <<pte, contents, page, swap>>
      /\ supt' = [supt EXCEPT ![victim.owner][victim.upage] = Spte("ON_SWAP", slot)]
      /\ \/ pc' = [pc EXCEPT ![p] = "fill"]
         \/ pc' = [pc EXCEPT ![p] = "fail"]
      /\ \A q \in Proc : q # p => kpage'[q] = kpage[q]
  <2>1. pc[p] = "replace" /\ victim # NULL
    BY Zenon, Locked DEF Replace, At
  <2> QED
    BY Zenon, <2>1 DEF IInv, Types, Replace, At, Goto, Insert, NoBlock, supt_set_swap, tables,
       swapVars
<1>2. /\ victim.owner \in Proc /\ victim.upage \in Page /\ swap[slot] = contents[victim.kpage]
      /\ supt[victim.owner][victim.upage].status = "ON_FRAME"
      /\ pte[victim.owner][victim.upage] = 0
  BY Zenon, <1>1 DEF IInv, Types, Entry, VictimInv, SlotInv
<1>3. \A q \in Proc : \A w \in Page :
        supt'[q][w] = IF q = victim.owner /\ w = victim.upage THEN Spte("ON_SWAP", slot)
                      ELSE supt[q][w]
  BY <1>1, <1>2 DEF IInv, Types, TypeOK
<1>4. Spte("ON_SWAP", slot).status = "ON_SWAP" /\ Spte("ON_SWAP", slot).swap_index = slot
  BY Zenon DEF Spte
<1>5. ASSUME NEW q \in Proc, NEW w \in Page, pc'[q] \in {"fail", "dead"} <=> pc[q] \in {"fail", "dead"}
      PROVE  Place(q, w)' = Place(q, w)
  <2>1. /\ pc'[q] = "map" <=> pc[q] = "map"
        /\ pc[q] = "map" => kpage'[q] = kpage[q]
    BY Zenon, <1>1 DEF IInv, Types
  <2>2. CASE q = victim.owner /\ w = victim.upage
    <3>1. ~(pc[q] = "map" /\ page[q] = w)
      BY Zenon, <1>2, <2>2 DEF IInv, TableInv
    <3> QED
      BY <1>1, <1>2, <1>3, <1>4, <1>5, <2>1, <2>2, <3>1 DEF Place, initial
  <2>3. CASE ~(q = victim.owner /\ w = victim.upage)
    BY <1>1, <1>3, <1>5, <2>1, <2>3 DEF Place, initial
  <2> QED
    BY Zenon, <2>2, <2>3
<1>6. CASE pc' = [pc EXCEPT ![p] = "fill"]
  <2>1. \A q \in Proc : /\ pc'[q] \in {"fail", "dead"} <=> pc[q] \in {"fail", "dead"}
                        /\ pc'[q] = "user" <=> pc[q] = "user"
    BY Zenon, <1>1, <1>6 DEF IInv, Types
  <2> QED
    BY Zenon, <1>5, <2>1, Stutters
<1>7. CASE pc' = [pc EXCEPT ![p] = "fail"]
  <2>1. pc \in [Proc -> Label] /\ pc[p] \notin {"fail", "dead"}
    BY Zenon, <1>1 DEF IInv, Types
  <2>2. \A q \in Proc \ {p} : pc'[q] = pc[q]
    BY Zenon, <1>7, <2>1
  <2> QED
    BY Zenon, <1>5, <1>7, <2>1, <2>2, Exits
<1> QED
  BY Zenon, <1>1, <1>6, <1>7

(* The steps at which nothing moves but p. *)
LEMMA OthersKept ==
  ASSUME IInv, NEW p \in Proc, NEW l, pc' = [pc EXCEPT ![p] = l],
         UNCHANGED <<contents, page, victim, swap, supt>>,
         NEW q \in Proc, NEW w \in Page, kpage'[q] = kpage[q], pte'[q] = pte[q],
         q = p => l \notin {"fail", "dead"} /\ pc[p] \notin {"fail", "dead"} /\ l # "map" /\ pc[p] # "map"
  PROVE  Place(q, w)' = Place(q, w)
<1>1. /\ pc'[q] \in {"fail", "dead"} <=> pc[q] \in {"fail", "dead"}
      /\ pc'[q] = "map" <=> pc[q] = "map"
  BY Zenon DEF IInv, Types
<1> QED
  BY Zenon, <1>1 DEF Place, initial

(* A new frame changes no page; without a block the process gives up. *)
LEMMA AllocateRefines ==
  ASSUME IInv, NEW p \in Proc, Allocate(p)
  PROVE  UNCHANGED <<Alive, runs, memory>> \/ M!Exit(p)
<1>1. /\ pc[p] = "alloc" /\ UNCHANGED <<pte, contents, page, swap, supt, victim>>
      /\ pc' = [pc EXCEPT ![p] = "fill"] \/ pc' = [pc EXCEPT ![p] = "fail"]
      /\ \A q \in Proc : q # p => kpage'[q] = kpage[q]
  BY Zenon DEF IInv, Types, Allocate, At, Goto, Insert, NoBlock, tables, swapVars
<1>2. pc \in [Proc -> Label]
  BY Zenon DEF IInv, Types
<1>3. ASSUME NEW q \in Proc, NEW w \in Page, pc'[q] \in {"fail", "dead"} <=> pc[q] \in {"fail", "dead"}
      PROVE  Place(q, w)' = Place(q, w)
  <2>1. /\ pc'[q] = "map" <=> pc[q] = "map"
        /\ pc[q] = "map" => kpage'[q] = kpage[q]
    BY Zenon, <1>1, <1>2
  <2> QED
    BY Zenon, <1>1, <1>3, <2>1 DEF Place, initial
<1>4. CASE pc' = [pc EXCEPT ![p] = "fill"]
  <2>1. \A q \in Proc : /\ pc'[q] \in {"fail", "dead"} <=> pc[q] \in {"fail", "dead"}
                        /\ pc'[q] = "user" <=> pc[q] = "user"
    BY Zenon, <1>1, <1>2, <1>4
  <2> QED
    BY Zenon, <1>3, <2>1, Stutters
<1>5. CASE pc' = [pc EXCEPT ![p] = "fail"]
  <2>1. pc[p] \notin {"fail", "dead"} /\ \A q \in Proc \ {p} : pc'[q] = pc[q]
    BY Zenon, <1>1, <1>2, <1>5
  <2> QED
    BY Zenon, <1>2, <1>3, <1>5, <2>1, Exits
<1> QED
  BY Zenon, <1>1, <1>4, <1>5

(* The frame gets what the page holds. *)
LEMMA FillRefines ==
  ASSUME IInv, NEW p \in Proc, Fill(p)
  PROVE  UNCHANGED <<Alive, runs, memory>>
<1> DEFINE g == kpage[p]
<1>1. /\ pc[p] = "fill" /\ pc' = [pc EXCEPT ![p] = "map"] /\ page[p] \in Page
      /\ UNCHANGED <<pte, page, kpage, swap, supt, victim>> /\ g \in Frame /\ g # 0
      /\ pte[p][page[p]] = 0 /\ supt[p][page[p]].status # "ON_FRAME"
  BY DEF IInv, Types, TableInv, Fill, At, Goto, Frame, tables, frameVars
<1>2. contents' = [contents EXCEPT ![g] =
                     IF supt[p][page[p]].status = "ON_SWAP" THEN swap[supt[p][page[p]].swap_index]
                     ELSE IF supt[p][page[p]].status = "FROM_FILESYS" THEN FileData ELSE Zero]
  BY Zenon DEF Fill, swap_in, load_page_from_filesys
<1>3. ASSUME NEW w \in Page, w = page[p]
      PROVE  Place(p, w)' = Place(p, w)
  <2>1. supt[p][w].status \in {"none", "ALL_ZERO", "ON_SWAP", "FROM_FILESYS"}
    BY <1>1, <1>3 DEF IInv, Types, TypeOK
  <2>2. /\ supt[p][w].status = "FROM_FILESYS" => initial[w] = FileData
        /\ supt[p][w].status \in {"none", "ALL_ZERO"} => initial[w] = Zero
    BY Zenon, <1>1 DEF IInv, TableInv, initial
  <2>3. ~(victim # NULL /\ victim.owner = p /\ victim.upage = w)
    BY Zenon, <1>1, <1>3, NotVictim
  <2>4. Place(p, w) = IF supt[p][w].status = "ON_SWAP" THEN swap[supt[p][w].swap_index]
                      ELSE initial[w]
    BY Zenon, <1>1, <1>3, <2>3 DEF Place
  <2>5. pc'[p] = "map"
    BY Zenon, <1>1 DEF IInv, Types
  <2>6. Place(p, w)' = contents'[g]
    BY Zenon, <1>1, <1>3, <2>3, <2>5 DEF Place
  <2>7. contents'[g] = IF supt[p][w].status = "ON_SWAP" THEN swap[supt[p][w].swap_index]
                       ELSE IF supt[p][w].status = "FROM_FILESYS" THEN FileData ELSE Zero
    BY Zenon, <1>1, <1>2, <1>3 DEF IInv, Types, TypeOK
  <2> QED
    BY Zenon, <2>1, <2>2, <2>4, <2>6, <2>7
<1>4. ASSUME NEW q \in Proc, NEW w \in Page, ~(q = p /\ w = page[p])
      PROVE  Place(q, w)' = Place(q, w)
  <2>1. pte[q][w] # g /\ (victim # NULL => victim.kpage # g) /\ (q # p /\ pc[q] = "map" => kpage[q] # g)
    BY <1>1 DEF IInv, MappedInv, VictimInv, FillInv, Fills
  <2>2. /\ pc'[q] \in {"fail", "dead"} <=> pc[q] \in {"fail", "dead"}
        /\ q # p => pc'[q] = pc[q]
    BY Zenon, <1>1 DEF IInv, Types
  <2> HIDE DEF g
  <2>3. /\ pte[q][w] # 0 /\ pte[q][w] # g => contents'[pte[q][w]] = contents[pte[q][w]]
        /\ victim # NULL /\ victim.kpage # g => contents'[victim.kpage] = contents[victim.kpage]
        /\ pc[q] = "map" /\ kpage[q] # g => contents'[kpage[q]] = contents[kpage[q]]
    BY Zenon, <1>1, <1>2, FramesApart
  <2>4. CASE q = p
    BY Zenon, <1>1, <1>4, <2>1, <2>2, <2>3, <2>4 DEF Place, initial
  <2>5. CASE q # p
    BY Zenon, <1>1, <2>1, <2>2, <2>3, <2>5 DEF Place, initial
  <2> QED
    BY Zenon, <2>4, <2>5
<1>5. \A q \in Proc : /\ pc'[q] \in {"fail", "dead"} <=> pc[q] \in {"fail", "dead"}
                      /\ pc'[q] = "user" <=> pc[q] = "user"
  BY Zenon, <1>1 DEF IInv, Types
<1>6. \A q \in Proc : \A w \in Page : Place(q, w)' = Place(q, w)
  BY Zenon, <1>3, <1>4
<1> QED
  BY Zenon, <1>5, <1>6, Stutters

(* A page that cannot be brought in ends its process. *)
LEMMA FillFailsRefines ==
  ASSUME IInv, NEW p \in Proc, FillFails(p)
  PROVE  M!Exit(p)
<1>1. /\ pc[p] \notin {"fail", "dead"} /\ pc' = [pc EXCEPT ![p] = "fail"]
      /\ UNCHANGED <<pte, contents, page, kpage, swap, supt, victim>>
  BY Zenon DEF FillFails, At, Goto, tables, swapVars
<1>2. \A q \in Proc \ {p} : \A w \in Page : Place(q, w)' = Place(q, w)
  BY Zenon, <1>1, OthersKept
<1>3. pc \in [Proc -> Label]
  BY Zenon DEF IInv, Types
<1> QED
  BY Zenon, <1>1, <1>2, <1>3, Exits

(* The mapped frame holds the page. *)
LEMMA MapRefines ==
  ASSUME IInv, NEW p \in Proc, Map(p)
  PROVE  UNCHANGED <<Alive, runs, memory>>
<1>1. /\ pc[p] = "map" /\ pc' = [pc EXCEPT ![p] = "unpin"] /\ page[p] \in Page
      /\ UNCHANGED <<contents, page, kpage, swap, victim>> /\ kpage[p] # 0
      /\ pte' = [pte EXCEPT ![p][page[p]] = kpage[p]] /\ pte[p][page[p]] = 0
      /\ supt' = [supt EXCEPT ![p][page[p]] = supt_install_frame]
  BY DEF IInv, Types, TableInv, Map, At, Goto, Frame, frameVars, swapVars
<1>2. ASSUME NEW q \in Proc, NEW w \in Page
      PROVE  /\ pte'[q][w] = IF q = p /\ w = page[p] THEN kpage[p] ELSE pte[q][w]
             /\ ~(q = p /\ w = page[p]) => supt'[q][w] = supt[q][w]
             /\ pc'[q] \in {"fail", "dead"} <=> pc[q] \in {"fail", "dead"}
             /\ pc'[q] = "user" <=> pc[q] = "user"
             /\ pc'[q] = "map" <=> pc[q] = "map" /\ q # p
  BY Zenon, <1>1 DEF IInv, Types, TypeOK
<1>3. ASSUME NEW q \in Proc, NEW w \in Page
      PROVE  Place(q, w)' = Place(q, w)
  <2>1. CASE q = p /\ w = page[p]
    BY <1>1, <1>2, <2>1, NotVictim DEF Place, initial
  <2>2. CASE ~(q = p /\ w = page[p])
    BY <1>1, <1>2, <2>2 DEF Place, initial
  <2> QED
    BY Zenon, <2>1, <2>2
<1>4. \A q \in Proc : /\ pc'[q] \in {"fail", "dead"} <=> pc[q] \in {"fail", "dead"}
                      /\ pc'[q] = "user" <=> pc[q] = "user"
  BY Zenon, <1>1 DEF IInv, Types
<1> QED
  BY Zenon, <1>3, <1>4, Stutters

(* The process leaves the kernel. *)
LEMMA UnpinRefines ==
  ASSUME IInv, NEW p \in Proc, Unpin(p)
  PROVE  M!Trap(p)
<1>1. /\ pc[p] = "unpin" /\ pc' = [pc EXCEPT ![p] = "user"] /\ pc \in [Proc -> Label]
      /\ UNCHANGED <<pte, contents, page, swap, supt, victim>>
      /\ \A q \in Proc : q # p => kpage'[q] = kpage[q]
  BY Zenon DEF IInv, Types, Unpin, At, Goto, tables, swapVars
<1>2. ASSUME NEW q \in Proc, NEW w \in Page
      PROVE  Place(q, w)' = Place(q, w)
  <2>1. /\ pc'[q] \in {"fail", "dead"} <=> pc[q] \in {"fail", "dead"}
        /\ pc'[q] = "map" <=> pc[q] = "map"
        /\ pc[q] = "map" => kpage'[q] = kpage[q]
    BY Zenon, <1>1
  <2> QED
    BY Zenon, <1>1, <2>1 DEF Place, initial
<1>3. "user" \notin {"fail", "dead"} /\ pc[p] \notin {"fail", "dead"}
  BY Zenon, <1>1
<1> QED
  BY Zenon, <1>1, <1>2, <1>3, Traps

(* The process is gone, and its pages with it. *)
LEMMA ExitRefines ==
  ASSUME IInv, NEW p \in Proc, Exit(p)
  PROVE  UNCHANGED <<Alive, runs, memory>> \/ M!Exit(p)
<1>1. /\ pc[p] \in {"user", "fail"} /\ pc' = [pc EXCEPT ![p] = "dead"] /\ pc \in [Proc -> Label]
      /\ UNCHANGED <<contents, page, kpage, swap, supt, victim>>
      /\ \A q \in Proc \ {p} : pte'[q] = pte[q]
  BY Zenon DEF IInv, Types, TypeOK, Exit, At, Goto, swapVars
<1>2. \A q \in Proc \ {p} : \A w \in Page : Place(q, w)' = Place(q, w)
  BY Zenon, <1>1, OthersKept
<1>3. CASE pc[p] = "user"
  <2>1. pc[p] \notin {"fail", "dead"} /\ "dead" \in {"fail", "dead"}
    BY Zenon, <1>3
  <2> QED
    BY Zenon, <1>1, <1>2, <2>1, Exits
<1>4. CASE pc[p] = "fail"
  <2>1. \A w \in Page : Place(p, w)' = Place(p, w)
    BY Zenon, <1>1, <1>4 DEF Place, initial
  <2>2. \A q \in Proc : /\ pc'[q] \in {"fail", "dead"} <=> pc[q] \in {"fail", "dead"}
                        /\ pc'[q] = "user" <=> pc[q] = "user"
    BY Zenon, <1>1, <1>4
  <2>3. \A q \in Proc : \A w \in Page : Place(q, w)' = Place(q, w)
    BY Zenon, <1>2, <2>1
  <2> QED
    BY Zenon, <2>2, <2>3, Stutters
<1> QED
  BY Zenon, <1>1, <1>3, <1>4

(* Pages begin as the executable's or zero. *)
LEMMA InitRefines == Init => M!Init
<1> SUFFICES ASSUME Init PROVE M!Init
  BY Zenon
<1>1. Alive = Proc
  BY Zenon DEF Init, Alive
<1>2. \A p \in Proc : \A v \in Page : PageContents(p, v) = initial[v]
  BY <1>1, PlaceIs, ConstantsAssumption DEF Init, Place, NoEntry, Spte
<1>3. [p \in Proc |-> [v \in Page |-> PageContents(p, v)]] = [p \in Proc |-> initial]
  <2>1. initial = [v \in Page |-> initial[v]]
    BY Zenon DEF initial
  <2> QED
    BY Zenon, <1>2, <2>1
<1> QED
  BY Zenon, <1>1, <1>3 DEF M!Init, Init

(* A step that changes nothing but panicked changes no page. *)
LEMMA QuietRefines ==
  ASSUME IInv, Panic \/ UNCHANGED vars
  PROVE  UNCHANGED <<Alive, runs, memory>>
<1>1. UNCHANGED <<pte, supt, contents, pc, page, kpage, victim, swap>>
  BY Zenon DEF Panic, vars, tables, frameVars, swapVars
<1>2. \A q \in Proc : \A w \in Page : Place(q, w)' = Place(q, w)
  BY <1>1 DEF Place, initial
<1> QED
  BY Zenon, <1>1, <1>2, Stutters

(* Every step of the kernel is a step of Memory, or none. *)
LEMMA NextRefines ==
  IInv /\ [Next]_vars =>
    [M!Next]_<<Alive, {p \in Proc : pc[p] = "user"}, [p \in Proc |-> [v \in Page |-> PageContents(p, v)]]>>
<1> SUFFICES ASSUME IInv, [Next]_vars PROVE M!Next \/ UNCHANGED <<Alive, runs, memory>>
  BY Zenon DEF runs, memory
<1>1. CASE UNCHANGED vars \/ Stopped
  BY Zenon, <1>1, QuietRefines DEF Stopped
<1>2. ASSUME NEW p \in Proc, EvictPanics(p) \/ SwapFull(p) \/ ReplacePanics(p)
      PROVE  UNCHANGED <<Alive, runs, memory>>
  BY Zenon, <1>2, QuietRefines DEF EvictPanics, SwapFull, ReplacePanics
<1>3. ASSUME NEW p \in Proc, \/ Load(p) \/ Allocate(p) \/ Evict(p) \/ SwapOut(p) \/ Replace(p)
                             \/ Fill(p) \/ FillFails(p) \/ Map(p) \/ Unpin(p) \/ Exit(p)
      PROVE  UNCHANGED <<Alive, runs, memory>> \/ M!Exit(p) \/ M!Trap(p)
  BY Zenon, <1>3, LoadRefines, AllocateRefines, EvictRefines, SwapOutRefines, ReplaceRefines,
     FillRefines, FillFailsRefines, MapRefines, UnpinRefines, ExitRefines
<1>4. ASSUME NEW p \in Proc, NEW v \in Page, PageFault(p, v) \/ \E x \in Value : Write(p, v, x)
      PROVE  M!Trap(p) \/ \E x \in Value : M!Write(p, v, x)
  BY Zenon, <1>4, PageFaultRefines, WriteRefines
<1> QED
  BY Zenon, <1>1, <1>2, <1>3, <1>4 DEF Next, M!Next

(* Paging is invisible: wherever the kernel keeps a page, and whatever     *)
(* other processes do meanwhile, it holds what its process last wrote to   *)
(* it (page_fault, load_page, frame_allocate, swap_out, swap_in).          *)
THEOREM PagingIsInvisible == Spec => PagesAreMemory
BY InitRefines, NextRefines, Invariance, PTL DEF Spec, PagesAreMemory, M!Spec
=============================================================================
