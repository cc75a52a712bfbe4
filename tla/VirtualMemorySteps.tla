------------------------ MODULE VirtualMemorySteps -------------------------
(***************************************************************************)
(* The inductive invariant of VirtualMemory; that it holds initially, that *)
(* the steps that leave the frame table alone preserve it, and what        *)
(* inserting into the frame table and removing from it do.                 *)
(***************************************************************************)
EXTENDS VirtualMemory, TLAPS

Label == {"load", "user", "alloc", "swap_out", "replace", "fill", "map", "unpin", "fail", "dead"}

Types ==
  /\ TypeOK
  /\ pc \in [Proc -> Label] /\ page \in [Proc -> Page] /\ kpage \in [Proc -> Frame \cup {0}]
  /\ victim \in Entry \cup {NULL} /\ slot \in Slot \cup {-1} /\ panicked \in BOOLEAN

(* A page that is being brought in is not present and not on a frame; a    *)
(* present page has the status ON_FRAME.  The other statuses say where the *)
(* page's contents are.                                                    *)
TableInv ==
  \A p \in Proc :
    /\ pc[p] \in {"alloc", "swap_out", "replace", "fill", "map"} =>
         pte[p][page[p]] = 0 /\ supt[p][page[p]].status # "ON_FRAME"
    /\ pc[p] \in {"fill", "map", "unpin"} => kpage[p] \in Frame
    /\ pc[p] = "unpin" => pte[p][page[p]] = kpage[p]
    /\ \A v \in Page :
         /\ pte[p][v] # 0 => supt[p][v].status = "ON_FRAME"
         /\ supt[p][v].status = "ON_SWAP" => supt[p][v].swap_index \in Slot
         /\ pc[p] = "load" => supt[p][v].status = "none"
         /\ supt[p][v].status = "FROM_FILESYS" => v \in FilePage
         /\ supt[p][v].status \in {"none", "ALL_ZERO"} /\ pc[p] # "load" => v \notin FilePage

(* Process p is bringing a page into frame f; it has not mapped it yet. *)
Bringing(p, f) == pc[p] \in {"fill", "map", "unpin"} /\ kpage[p] = f
Fills(p, f) == pc[p] \in {"fill", "map"} /\ kpage[p] = f

(* The frame table.  frame_map has at most one entry for a frame; an entry *)
(* it does not have stays pinned for ever; one it has is of a process that *)
(* is gone, or says where the page is; and the frame of a page that is     *)
(* being brought in is pinned.                                             *)
Holds(e) ==
  \/ pte[e.owner][e.upage] = e.kpage
  \/ victim = e
  \/ Fills(e.owner, e.kpage) /\ page[e.owner] = e.upage
EntryOK(e) ==
  /\ e.hashed \/ e.pinned
  /\ e.hashed /\ pc[e.owner] # "dead" => Holds(e)
  /\ ~e.pinned /\ pc[e.owner] # "dead" => ~Bringing(e.owner, e.kpage)
HashedOnce(list) ==
  \A i, j \in DOMAIN list :
    list[i].hashed /\ list[j].hashed /\ list[i].kpage = list[j].kpage => i = j
EntryInv == HashedOnce(frame_list) /\ \A i \in DOMAIN frame_list : EntryOK(frame_list[i])

(* A frame has one use: it is mapped, being filled, or being evicted. *)
MappedInv ==
  \A p \in Proc : \A v \in Page : pte[p][v] # 0 =>
    /\ pte[p][v] \in used
    /\ \A q \in Proc : ~Fills(q, pte[p][v]) /\ \A w \in Page : pte[q][w] = pte[p][v] => p = q /\ v = w
FillInv ==
  \A p \in Proc : pc[p] \in {"fill", "map"} =>
    kpage[p] \in used /\ \A q \in Proc : Fills(q, kpage[p]) => p = q

(* What is being evicted is in the frame table, and its page is not        *)
(* present and still ON_FRAME, so that its process cannot bring it in.     *)
VictimInv ==
  victim # NULL =>
    /\ ~victim.pinned
    /\ \E i \in DOMAIN frame_list : frame_list[i] = victim
    /\ victim.kpage \in used
    /\ \A p \in Proc : ~Fills(p, victim.kpage) /\ \A v \in Page : pte[p][v] # victim.kpage
    /\ pc[victim.owner] # "dead" => supt[victim.owner][victim.upage].status = "ON_FRAME"
    /\ pte[victim.owner][victim.upage] = 0

(* Page v of p waits in swap.  A slot holds one such page, and the slot    *)
(* just written holds what is in the victim's frame.                       *)
Waits(p, v) ==
  /\ pc[p] \notin {"fail", "dead"}
  /\ supt[p][v].status = "ON_SWAP" /\ ~(pc[p] = "map" /\ page[p] = v)
SlotInv ==
  /\ \A p \in Proc : \A v \in Page : Waits(p, v) =>
       /\ supt[p][v].swap_index \notin swap_available /\ supt[p][v].swap_index # slot
       /\ \A q \in Proc : \A w \in Page :
            Waits(q, w) /\ supt[q][w].swap_index = supt[p][v].swap_index => p = q /\ v = w
  /\ slot = -1 \/ \E p \in Proc : pc[p] = "replace"
  /\ \A p \in Proc : pc[p] = "replace" =>
       slot \in Slot \ swap_available /\ swap[slot] = contents[victim.kpage]

(* Before a process ends nothing leaks, and frame_map has every entry. *)
AllAlive == \A p \in Proc : pc[p] \notin {"fail", "dead"}
EntryKept(e) == e.hashed /\ (e.pinned <=> Bringing(e.owner, e.kpage)) /\ Holds(e)
KpageOnce(list) == \A i, j \in DOMAIN list : list[i].kpage = list[j].kpage => i = j
TableKept ==
  AllAlive =>
    /\ used = {frame_list[i].kpage : i \in DOMAIN frame_list}
    /\ KpageOnce(frame_list)
    /\ \A i \in DOMAIN frame_list : EntryKept(frame_list[i])
SlotsKept ==
  AllAlive => \A s \in Slot \ swap_available :
    s = slot \/ \E p \in Proc : \E v \in Page : Waits(p, v) /\ supt[p][v].swap_index = s

(* The inductive invariant. *)
IInv ==
  /\ Types /\ TableInv /\ EntryInv /\ MappedInv /\ FillInv /\ VictimInv
  /\ SlotInv /\ TableKept /\ SlotsKept

-----------------------------------------------------------------------------
(* Facts about the model's operators. *)

(* A function on the first n numbers is a sequence. *)
LEMMA IsASeq ==
  ASSUME NEW S, NEW n \in Nat, NEW f, f = [i \in 1 .. n |-> f[i]], \A i \in 1 .. n : f[i] \in S
  PROVE  f \in Seq(S) /\ Len(f) = n /\ DOMAIN f = 1 .. n
<1>1. f \in [1 .. n -> S]
  BY Zenon
<1>2. f \in Seq(S)
  BY <1>1
<1> QED
  BY <1>1

-----------------------------------------------------------------------------
(* Every step preserves the invariant. *)

(* The frame table is used by the holder of frame_lock alone. *)
LEMMA Unlocked ==
  ASSUME IInv, frame_lock = NULL
  PROVE  victim = NULL /\ slot = -1 /\ \A p \in Proc : pc[p] \notin {"swap_out", "replace"}
BY ConstantsAssumption DEF IInv, Types, TypeOK, SlotInv

(* The holder of frame_lock has a victim. *)
LEMMA Locked ==
  ASSUME IInv, NEW p \in Proc, pc[p] \in {"swap_out", "replace"}
  PROVE  /\ frame_lock = p /\ victim \in Entry /\ victim # NULL
         /\ \A q \in Proc : pc[q] \in {"swap_out", "replace"} => q = p
         /\ pc[p] = "swap_out" => slot = -1
BY ConstantsAssumption DEF IInv, Types, TypeOK, SlotInv

(* The fields of an entry of the frame table. *)
LEMMA Listed ==
  ASSUME IInv, NEW i \in DOMAIN frame_list
  PROVE  /\ frame_list[i] \in Entry /\ frame_list[i] # NULL
         /\ frame_list[i].owner \in Proc /\ frame_list[i].upage \in Page
         /\ frame_list[i].kpage \in Frame /\ frame_list[i].kpage # 0
         /\ frame_list[i].pinned \in BOOLEAN /\ frame_list[i].hashed \in BOOLEAN
<1>1. frame_list[i] \in Entry
  BY DEF IInv, Types, TypeOK
<1> QED
  BY <1>1, ConstantsAssumption DEF Entry, Frame

(* A step that leaves alone what waits in swap. *)
LEMMA WaitsKept ==
  ASSUME IInv, UNCHANGED <<swap_available, slot, swap, victim>>,
         \A q \in Proc : \A w \in Page :
           /\ Waits(q, w)' => Waits(q, w) /\ supt'[q][w].swap_index = supt[q][w].swap_index
           /\ AllAlive' /\ Waits(q, w) =>
                Waits(q, w)' /\ supt'[q][w].swap_index = supt[q][w].swap_index,
         \A q \in Proc : pc'[q] = "replace" <=> pc[q] = "replace",
         victim # NULL => contents'[victim.kpage] = contents[victim.kpage],
         AllAlive' => AllAlive
  PROVE  SlotInv' /\ SlotsKept'
<1>1. SlotInv'
  <2>1. /\ slot' = -1 \/ \E q \in Proc : pc'[q] = "replace"
        /\ \A q \in Proc : pc'[q] = "replace" =>
             slot' \in Slot \ swap_available' /\ swap'[slot'] = contents'[victim'.kpage]
    BY Zenon, Locked DEF IInv, SlotInv
  <2>2. \A q \in Proc : \A w \in Page : Waits(q, w)' =>
          supt'[q][w].swap_index \notin swap_available' /\ supt'[q][w].swap_index # slot'
    BY DEF IInv, SlotInv
  <2>3. \A q, r \in Proc : \A v, w \in Page :
          Waits(q, v)' /\ Waits(r, w)' /\ supt'[r][w].swap_index = supt'[q][v].swap_index
          => q = r /\ v = w
    BY DEF IInv, SlotInv
  <2> QED
    BY <2>1, <2>2, <2>3 DEF SlotInv
<1>2. SlotsKept'
  <2> SUFFICES ASSUME AllAlive', NEW s \in Slot \ swap_available', s # slot'
               PROVE  \E q \in Proc : \E w \in Page : Waits(q, w)' /\ supt'[q][w].swap_index = s
    BY Zenon DEF SlotsKept
  <2>1. PICK q \in Proc, w \in Page : Waits(q, w) /\ supt[q][w].swap_index = s
    BY Zenon DEF IInv, SlotsKept
  <2> QED
    BY Zenon, <2>1
<1> QED
  BY Zenon, <1>1, <1>2

(* load_segment enters the pages of the executable. *)
LEMMA LoadStep ==
  ASSUME NEW p \in Proc, IInv, Load(p)
  PROVE  IInv'
<1>1. Types'
  BY Zenon DEF IInv, Types, TypeOK, Label, Load, supt_install_filesys, NoEntry, Spte, At, Goto,
     tables, frameVars, swapVars
<1>2. TableInv'
  BY DEF IInv, Types, TypeOK, TableInv, Load, supt_install_filesys, NoEntry, Spte, At, Goto, tables
<1>3. EntryInv'
  BY DEF IInv, EntryInv, EntryOK, Holds, Bringing, Fills, Load, At, Goto, tables, frameVars
<1>4. MappedInv'
  BY DEF IInv, MappedInv, Fills, Load, Goto, tables, frameVars
<1>5. FillInv'
  BY DEF IInv, FillInv, Fills, Load, Goto, frameVars
<1>6. VictimInv'
  <2>1. victim # NULL => victim.owner # p
    BY Zenon DEF IInv, Types, Entry, VictimInv, TableInv, Load, At
  <2>2. victim # NULL => supt'[victim.owner] = supt[victim.owner] /\ victim \in Entry
    BY <2>1 DEF IInv, Types, Load
  <2> QED
    BY <2>1 DEF IInv, VictimInv, Fills, Load, Goto, tables, frameVars
<1>7. SlotInv' /\ SlotsKept'
  <2>1. \A q \in Proc : \A w \in Page :
          /\ Waits(q, w)' => Waits(q, w) /\ supt'[q][w].swap_index = supt[q][w].swap_index
          /\ Waits(q, w) => Waits(q, w)' /\ supt'[q][w].swap_index = supt[q][w].swap_index
    BY
    DEF IInv, Types, TypeOK, TableInv, Waits, Load, supt_install_filesys, NoEntry, Spte, At, Goto
  <2>2. AllAlive' => AllAlive
    BY DEF AllAlive, Load, At, Goto
  <2> QED
    BY <2>1, <2>2, WaitsKept DEF Load, At, Goto, frameVars, swapVars
<1>8. TableKept'
  BY DEF IInv, TableKept, AllAlive, EntryKept, Holds, Bringing, Fills, Load, Spte, At, Goto, tables,
     frameVars
<1> QED
  BY Zenon, <1>1, <1>2, <1>3, <1>4, <1>5, <1>6, <1>7, <1>8 DEF IInv

(* An instruction writes to a present page. *)
LEMMA WriteStep ==
  ASSUME NEW p \in Proc, NEW v \in Page, NEW x \in Value, IInv, Write(p, v, x)
  PROVE  IInv'
<1>1. Types'
  BY Zenon DEF IInv, Types, TypeOK, Write, frameVars, swapVars
<1>2. TableInv'
  BY DEF IInv, TableInv, Write
<1>3. EntryInv'
  BY Zenon DEF IInv, EntryInv, EntryOK, Holds, Bringing, Fills, Write, frameVars
<1>4. MappedInv'
  BY DEF IInv, MappedInv, Fills, Write, frameVars
<1>5. FillInv'
  BY Zenon DEF IInv, FillInv, Fills, Write, frameVars
<1>6. VictimInv'
  BY Zenon DEF IInv, VictimInv, Fills, Write, frameVars
<1>7. SlotInv' /\ SlotsKept'
  <2>1. victim # NULL => contents'[victim.kpage] = contents[victim.kpage]
    BY DEF IInv, VictimInv, Write
  <2>2. (AllAlive' => AllAlive) /\ \A q \in Proc : \A w \in Page : Waits(q, w)' <=> Waits(q, w)
    BY Zenon DEF AllAlive, Waits, Write
  <2> QED
    BY Zenon, <2>1, <2>2, WaitsKept DEF Write, frameVars, swapVars
<1>8. TableKept'
  BY DEF IInv, TableKept, AllAlive, EntryKept, Holds, Bringing, Fills, Write, At, frameVars
<1> QED
  BY Zenon, <1>1, <1>2, <1>3, <1>4, <1>5, <1>6, <1>7, <1>8 DEF IInv

(* A page fault. *)
LEMMA PageFaultStep ==
  ASSUME NEW p \in Proc, NEW v \in Page, IInv, PageFault(p, v)
  PROVE  IInv'
<1>1. Types'
  BY DEF IInv, Types, TypeOK, Label, PageFault, supt_install_zeropage, Spte, At, Goto, tables,
     frameVars, swapVars
<1>2. TableInv'
  BY DEF IInv, Types, TableInv, PageFault, supt_install_zeropage, supt_has_entry, Spte, At, Goto,
     tables
<1>3. EntryInv'
  BY DEF IInv, EntryInv, EntryOK, Holds, Bringing, Fills, PageFault, At, Goto, tables, frameVars
<1>4. MappedInv'
  BY DEF IInv, MappedInv, Fills, PageFault, Goto, tables, frameVars
<1>5. FillInv'
  BY DEF IInv, FillInv, Fills, PageFault, Goto, frameVars
<1>6. VictimInv'
  BY DEF IInv, VictimInv, Fills, PageFault, At, Goto, tables, frameVars
<1>7. SlotInv' /\ SlotsKept'
  <2>1. \A q \in Proc : \A w \in Page :
          /\ Waits(q, w)' => Waits(q, w) /\ supt'[q][w].swap_index = supt[q][w].swap_index
          /\ Waits(q, w) => Waits(q, w)' /\ supt'[q][w].swap_index = supt[q][w].swap_index
    BY
    DEF IInv, Types, TypeOK, TableInv, Waits, PageFault, supt_install_zeropage, supt_has_entry,
        Spte, At, Goto
  <2>2. AllAlive' => AllAlive
    BY DEF AllAlive, PageFault, At, Goto
  <2> QED
    BY <2>1, <2>2, WaitsKept DEF PageFault, At, Goto, frameVars, swapVars
<1>8. TableKept'
  BY DEF IInv, TableKept, AllAlive, EntryKept, Holds, Bringing, Fills, PageFault, At, Goto, tables,
     frameVars
<1> QED
  BY Zenon, <1>1, <1>2, <1>3, <1>4, <1>5, <1>6, <1>7, <1>8 DEF IInv

(* The page is read from swap or the executable, or is zero. *)
LEMMA FillStep ==
  ASSUME NEW p \in Proc, IInv, Fill(p)
  PROVE  IInv'
<1>0. kpage[p] \in Frame /\ page[p] \in Page /\ supt[p][page[p]].status \in
        {"none", "ALL_ZERO", "ON_FRAME", "ON_SWAP", "FROM_FILESYS"}
  BY DEF IInv, Types, TypeOK, TableInv, Fill, At
<1>a. PICK y \in Value : contents' = [contents EXCEPT ![kpage[p]] = y]
  <2>1. supt[p][page[p]].status = "ON_SWAP" => swap[supt[p][page[p]].swap_index] \in Value
    BY Zenon DEF IInv, Types, TypeOK, TableInv
  <2> QED
    BY Zenon, <2>1, ConstantsAssumption DEF Fill, swap_in, load_page_from_filesys
<1>b. IF supt[p][page[p]].status = "ON_SWAP"
      THEN /\ supt[p][page[p]].swap_index \notin swap_available
           /\ swap_available' = swap_available \cup {supt[p][page[p]].swap_index}
      ELSE swap_available' = swap_available
  BY Zenon DEF Fill, swap_in
<1>1. Types'
  <2>1. contents' \in [Frame -> Value]
    BY Zenon, <1>a DEF IInv, Types, TypeOK
  <2>2. swap_available' \subseteq Slot
    BY <1>b DEF IInv, Types, TypeOK, TableInv
  <2>3. pc' \in [Proc -> Label] /\ \A q \in Proc : pc'[q] \in {"swap_out", "replace"} <=> frame_lock = q
    BY Zenon DEF IInv, Types, TypeOK, Label, Fill, At, Goto
  <2> QED
    BY Zenon, <2>1, <2>2, <2>3 DEF IInv, Types, TypeOK, Fill, tables, frameVars
<1>2. TableInv'
  BY DEF IInv, TableInv, Fill, At, Goto, tables
<1>3. EntryInv'
  BY DEF IInv, EntryInv, EntryOK, Holds, Bringing, Fills, Fill, At, Goto, tables, frameVars
<1>4. MappedInv'
  BY DEF IInv, MappedInv, Fills, Fill, At, Goto, tables, frameVars
<1>5. FillInv'
  BY DEF IInv, FillInv, Fills, Fill, At, Goto, frameVars
<1>6. VictimInv'
  BY DEF IInv, VictimInv, Fills, Fill, At, Goto, tables, frameVars
<1>7. SlotInv'
  <2>1. /\ pc' = [pc EXCEPT ![p] = "map"] /\ pc[p] = "fill" /\ page[p] \in Page
        /\ UNCHANGED <<supt, page, swap, slot, victim>>
    BY Zenon DEF IInv, Types, Fill, At, Goto, frameVars
  <2>2. \A q \in Proc : \A w \in Page :
          Waits(q, w)' => Waits(q, w) /\ ~(q = p /\ w = page[p])
    BY Zenon, <2>1 DEF IInv, Types, Waits
  <2>3. supt[p][page[p]].status = "ON_SWAP" => Waits(p, page[p])
    BY Zenon, <2>1 DEF Waits
  <2>4. \A q \in Proc : \A w \in Page : Waits(q, w)' =>
          supt'[q][w].swap_index \notin swap_available' /\ supt'[q][w].swap_index # slot'
    BY <1>b, <2>1, <2>2, <2>3 DEF IInv, SlotInv
  <2>5. ASSUME NEW q \in Proc, pc'[q] = "replace"
        PROVE  slot' \in Slot \ swap_available' /\ swap'[slot'] = contents'[victim'.kpage]
    <3>1. pc[q] = "replace" /\ victim \in Entry /\ victim # NULL
      BY <2>1, <2>5, Locked
    <3>2. victim.kpage \in Frame /\ victim.kpage # kpage[p]
      BY Zenon, <2>1, <3>1 DEF IInv, VictimInv, Fills, Entry
    <3>3. contents'[victim.kpage] = contents[victim.kpage]
      BY <1>a, <3>2
    <3>4. slot \notin swap_available'
      BY <1>b, <2>1, <2>3, <3>1 DEF IInv, SlotInv
    <3> QED
      BY Zenon, <2>1, <3>1, <3>3, <3>4 DEF IInv, SlotInv
  <2>6. slot' = -1 \/ \E q \in Proc : pc'[q] = "replace"
    BY <2>1 DEF IInv, SlotInv
  <2> QED
    BY <2>1, <2>2, <2>4, <2>5 DEF IInv, SlotInv
<1>8. TableKept'
  BY DEF IInv, TableKept, AllAlive, EntryKept, Holds, Bringing, Fills, Fill, At, Goto, tables,
     frameVars
<1>9. SlotsKept'
  BY DEF IInv, SlotsKept, AllAlive, Waits, Fill, swap_in, At, Goto, frameVars
<1> QED
  BY Zenon, <1>1, <1>2, <1>3, <1>4, <1>5, <1>6, <1>7, <1>8, <1>9 DEF IInv

(* The page is mapped. *)
LEMMA MapStep ==
  ASSUME NEW p \in Proc, IInv, Map(p)
  PROVE  IInv'
<1>0. /\ pc[p] = "map" /\ page[p] \in Page /\ kpage[p] \in Frame /\ kpage[p] # 0
      /\ pte' = [pte EXCEPT ![p][page[p]] = kpage[p]]
      /\ pc' = [pc EXCEPT ![p] = "unpin"]
      /\ UNCHANGED <<contents, page, kpage, used, frame_list, frame_lock, victim, slot,
                     swap, swap_available>>
  BY DEF IInv, Types, TableInv, Map, At, Goto, Frame, frameVars, swapVars
<1>a. \A q \in Proc : \A w \in Page :
        pte'[q][w] = IF q = p /\ w = page[p] THEN kpage[p] ELSE pte[q][w]
  BY Zenon, <1>0 DEF IInv, Types, TypeOK
<1>b. \A q \in Proc : \A f : Bringing(q, f)' <=> Bringing(q, f)
  BY <1>0 DEF Bringing
<1>c. ASSUME NEW i \in DOMAIN frame_list, Holds(frame_list[i])
      PROVE  Holds(frame_list[i])'
  <2> DEFINE d == frame_list[i]
  <2>1. d.owner \in Proc /\ d.upage \in Page /\ d.kpage # 0
    BY Zenon, Listed
  <2>2. CASE pte[d.owner][d.upage] = d.kpage
    <3>1. ~(d.owner = p /\ d.upage = page[p])
      BY Zenon, <1>0, <2>1, <2>2 DEF IInv, TableInv
    <3> QED
      BY <1>0, <2>2, <3>1 DEF Holds
  <2>3. CASE victim = d
    BY Zenon, <1>0, <2>3 DEF Holds
  <2>4. CASE Fills(d.owner, d.kpage) /\ page[d.owner] = d.upage
    BY <1>0, <1>a, <2>4 DEF Holds, Fills
  <2> QED
    BY Zenon, <1>c, <2>2, <2>3, <2>4 DEF Holds
<1>1. Types'
  BY DEF IInv, Types, TypeOK, Label, Map, supt_install_frame, Spte, At, Goto, frameVars, swapVars
<1>2. TableInv'
  BY ConstantsAssumption DEF IInv, Types, TypeOK, TableInv, Map, supt_install_frame, Spte, At, Goto
<1>3. EntryInv'
  <2> SUFFICES ASSUME NEW i \in DOMAIN frame_list PROVE EntryOK(frame_list[i])'
    BY Zenon, <1>0 DEF IInv, EntryInv
  <2>1. EntryOK(frame_list[i]) /\ frame_list[i].owner \in Proc
    BY Zenon, Listed DEF IInv, EntryInv
  <2>2. pc[frame_list[i].owner] = "dead" <=> pc'[frame_list[i].owner] = "dead"
    BY <1>0
  <2> QED
    BY <1>0, <1>b, <1>c, <2>1 DEF EntryOK
<1>4. MappedInv'
  <2>1. \A q \in Proc : \A f : Fills(q, f)' => Fills(q, f) /\ q # p
    BY Zenon, <1>0 DEF IInv, Types, Fills
  <2>2. Fills(p, kpage[p]) /\ kpage[p] \in used
    BY Zenon, <1>0 DEF IInv, FillInv, Fills
  <2>3. \A q \in Proc : \A w \in Page : pte[q][w] # kpage[p]
    BY Zenon, <1>0, <2>2 DEF IInv, MappedInv
  <2>4. \A q \in Proc : ~Fills(q, kpage[p])'
    BY Zenon, <1>0, <2>1 DEF IInv, FillInv
  <2> QED
    BY <1>0, <2>1, <2>2, <2>4 DEF IInv, MappedInv
<1>5. FillInv'
  BY DEF IInv, FillInv, Fills, Map, Goto, frameVars
<1>6. VictimInv'
  BY DEF IInv, VictimInv, Fills, TableInv, Map, At, Goto, frameVars
<1>7. SlotInv' /\ SlotsKept'
  <2>1. \A q \in Proc : \A w \in Page :
          (Waits(q, w)' <=> Waits(q, w)) /\ (Waits(q, w) => supt'[q][w] = supt[q][w])
    BY <1>0 DEF IInv, Types, TypeOK, Waits, Map, supt_install_frame, Spte
  <2>2. AllAlive' => AllAlive
    BY <1>0 DEF AllAlive
  <2> QED
    BY <1>0, <2>1, <2>2, WaitsKept
<1>8. TableKept'
  <2> SUFFICES ASSUME AllAlive' PROVE \A i \in DOMAIN frame_list : EntryKept(frame_list[i])'
    BY <1>0 DEF IInv, TableKept, AllAlive
  <2> TAKE i \in DOMAIN frame_list
  <2>1. EntryKept(frame_list[i]) /\ frame_list[i].owner \in Proc
    BY <1>0, Listed DEF IInv, TableKept, AllAlive
  <2> QED
    BY Zenon, <1>0, <1>b, <1>c, <2>1 DEF EntryKept
<1> QED
  BY Zenon, <1>1, <1>2, <1>3, <1>4, <1>5, <1>6, <1>7, <1>8 DEF IInv

(* Setting pinned changes nothing else of an entry. *)
LEMMA EntryPinned ==
  ASSUME NEW e \in Entry, NEW b \in BOOLEAN
  PROVE  LET d == [e EXCEPT !.pinned = b]
         IN  /\ d \in Entry /\ d.pinned = b
             /\ d.kpage = e.kpage /\ d.owner = e.owner /\ d.upage = e.upage /\ d.hashed = e.hashed
BY Zenon DEF Entry

(* The frame is unpinned. *)
LEMMA UnpinStep ==
  ASSUME NEW p \in Proc, IInv, Unpin(p)
  PROVE  IInv'
<1> DEFINE f == kpage[p]
<1>0. /\ pc[p] = "unpin" /\ frame_lock = NULL /\ victim = NULL /\ page[p] \in Page
      /\ frame_list' = [i \in DOMAIN frame_list |->
                          [frame_list[i] EXCEPT !.pinned = @ /\ i \notin Mapped(f)]]
      /\ DOMAIN frame_list' = DOMAIN frame_list
      /\ pc' = [pc EXCEPT ![p] = "user"] /\ kpage' = [kpage EXCEPT ![p] = 0]
      /\ UNCHANGED <<tables, supt, page, used, victim, slot, contents, clock_ptr, frame_lock>>
      /\ f \in Frame /\ f # 0 /\ pte[p][page[p]] = f
  BY DEF IInv, Types, TypeOK, TableInv, Unpin, At, Goto, Frame
<1>a. ASSUME NEW i \in DOMAIN frame_list
      PROVE  /\ frame_list'[i] \in Entry /\ frame_list'[i] # NULL
             /\ frame_list'[i].kpage = frame_list[i].kpage
             /\ frame_list'[i].owner = frame_list[i].owner
             /\ frame_list'[i].upage = frame_list[i].upage
             /\ frame_list'[i].hashed = frame_list[i].hashed
             /\ frame_list'[i].pinned <=> frame_list[i].pinned /\ i \notin Mapped(f)
  <2> DEFINE b == frame_list[i].pinned /\ i \notin Mapped(f)
  <2>1. frame_list[i] \in Entry /\ b \in BOOLEAN
    BY Zenon, Listed
  <2>2. frame_list'[i] = [frame_list[i] EXCEPT !.pinned = b]
    BY Zenon, <1>0
  <2>3. frame_list'[i].pinned = b
    <3> HIDE DEF b
    <3> QED
      BY <2>2
  <2>4. /\ frame_list'[i] \in Entry
        /\ frame_list'[i].kpage = frame_list[i].kpage
        /\ frame_list'[i].owner = frame_list[i].owner
        /\ frame_list'[i].upage = frame_list[i].upage
        /\ frame_list'[i].hashed = frame_list[i].hashed
    <3> HIDE DEF b
    <3> QED
      BY <2>1, <2>2, EntryPinned
  <2> QED
    BY Zenon, <2>3, <2>4, ConstantsAssumption
<1>b. \A q \in Proc : \A g : g # 0 => /\ Bringing(q, g)' <=> Bringing(q, g) /\ q # p
                                     /\ Fills(q, g)' <=> Fills(q, g)
  BY <1>0 DEF Bringing, Fills
<1>c. ASSUME NEW i \in DOMAIN frame_list, Holds(frame_list[i])
      PROVE  Holds(frame_list[i])'
  BY <1>0, <1>a, <1>b, <1>c, Listed DEF Holds, tables
<1>d. ASSUME NEW i \in DOMAIN frame_list, Holds(frame_list[i]), frame_list[i].kpage = f
      PROVE  frame_list[i].owner = p
  BY <1>0, <1>d, Listed DEF Holds, IInv, MappedInv
<1>1. Types'
  <2>1. frame_list' \in Seq(Entry)
    <3>1. \A i \in 1 .. Len(frame_list) : frame_list'[i] \in Entry
      BY <1>a
    <3>2. frame_list' = [i \in 1 .. Len(frame_list) |-> frame_list'[i]] /\ Len(frame_list) \in Nat
      BY <1>0
    <3> QED
      BY <3>1, <3>2
  <2>2. pc' \in [Proc -> Label] /\ \A q \in Proc : pc'[q] \in {"swap_out", "replace"} <=> frame_lock = q
    BY Zenon, <1>0 DEF IInv, Types, TypeOK, Label
  <2>3. kpage' \in [Proc -> Frame \cup {0}]
    BY Zenon, <1>0 DEF IInv, Types
  <2>4. Len(frame_list') = Len(frame_list)
    BY <1>0
  <2> QED
    BY <1>0, <2>1, <2>2 DEF IInv, Types, TypeOK, Unpin, tables, swapVars
<1>2. TableInv'
  BY DEF IInv, Types, TableInv, Unpin, At, Goto, tables
<1>3. EntryInv'
  <2>1. HashedOnce(frame_list)'
    <3> SUFFICES ASSUME NEW i \in DOMAIN frame_list, NEW j \in DOMAIN frame_list,
                        frame_list'[i].hashed, frame_list'[j].hashed,
                        frame_list'[i].kpage = frame_list'[j].kpage
                 PROVE  i = j
      BY Zenon, <1>0 DEF HashedOnce
    <3>1. frame_list[i].hashed /\ frame_list[j].hashed /\ frame_list[i].kpage = frame_list[j].kpage
      BY Zenon, <1>a
    <3> QED
      BY Zenon, <3>1 DEF IInv, EntryInv, HashedOnce
  <2>2. ASSUME NEW i \in DOMAIN frame_list
        PROVE  EntryOK(frame_list[i])'
    <3> DEFINE e == frame_list[i]
               d == frame_list'[i]
    <3>1. EntryOK(e) /\ e.owner \in Proc
      BY Zenon, Listed DEF IInv, EntryInv
    <3>2. (e.hashed \/ e.pinned) => (d.hashed \/ d.pinned)
      BY Zenon, <1>a DEF Mapped
    <3>3. pc'[d.owner] # "dead" <=> pc[e.owner] # "dead"
      BY Zenon, <1>0, <1>a, <3>1 DEF IInv, Types
    <3>4. d.hashed /\ pc'[d.owner] # "dead" => Holds(e)'
      BY Zenon, <1>a, <1>c, <3>1, <3>3 DEF EntryOK
    <3>5. ~d.pinned /\ pc'[d.owner] # "dead" => ~Bringing(e.owner, e.kpage)'
      <4>0. e.kpage # 0 /\ d.owner = e.owner /\ d.kpage = e.kpage
        BY Zenon, <1>a, Listed
      <4>1. CASE i \in Mapped(f)
        <5>1. pc[e.owner] # "dead" => e.owner = p
          BY Zenon, <1>d, <3>1, <4>1 DEF Mapped, EntryOK
        <5> QED
          BY <1>0, <4>0, <5>1 DEF IInv, Types, Bringing
      <4>2. CASE i \notin Mapped(f)
        <5>1. ~d.pinned /\ pc'[d.owner] # "dead" => ~Bringing(e.owner, e.kpage)
          BY Zenon, <1>a, <3>1, <3>3, <4>2 DEF EntryOK
        <5> QED
          BY <1>0, <4>0, <5>1 DEF Bringing
      <4> QED
        BY Zenon, <4>1, <4>2
    <3> QED
      BY Zenon, <3>1, <3>2, <3>4, <3>5 DEF EntryOK
  <2> QED
    BY Zenon, <1>0, <2>1, <2>2 DEF EntryInv
<1>4. MappedInv'
  BY DEF IInv, MappedInv, Fills, Unpin, Goto, tables
<1>5. FillInv'
  BY Zenon DEF IInv, Types, FillInv, Fills, Unpin, Goto
<1>6. VictimInv'
  BY Zenon DEF IInv, Types, TypeOK, VictimInv, Unpin
<1>7. SlotInv'
  BY DEF IInv, SlotInv, Waits, Unpin, At, Goto, swapVars
<1>8. TableKept'
  <2> SUFFICES ASSUME AllAlive' PROVE TableKept'
    BY Zenon DEF TableKept
  <2>1. AllAlive
    BY <1>0 DEF AllAlive
  <2>2. used' = {frame_list'[i].kpage : i \in DOMAIN frame_list'}
    BY <1>0, <2>1 DEF IInv, TableKept
  <2>3. KpageOnce(frame_list)'
    <3>1. KpageOnce(frame_list) /\ \A i \in DOMAIN frame_list : frame_list'[i].kpage = frame_list[i].kpage
      BY Zenon, <1>a, <2>1 DEF IInv, TableKept
    <3> QED
      BY <1>0, <3>1 DEF KpageOnce
  <2>4. ASSUME NEW i \in DOMAIN frame_list
        PROVE  EntryKept(frame_list[i])'
    <3> DEFINE e == frame_list[i]
               d == frame_list'[i]
    <3>1. EntryKept(e) /\ e.owner \in Proc
      BY Zenon, <2>1, Listed DEF IInv, TableKept
    <3>2. d.hashed /\ Holds(e)'
      BY Zenon, <1>a, <1>c, <3>1 DEF EntryKept
    <3>3. i \in Mapped(f) <=> e.kpage = f
      BY Zenon, <3>1 DEF EntryKept, Mapped
    <3>4. d.pinned <=> Bringing(e.owner, e.kpage)'
      <4>0. e.kpage # 0 /\ d.owner = e.owner /\ d.kpage = e.kpage
        BY Zenon, <1>a, Listed
      <4>1. Bringing(e.owner, e.kpage)' <=> Bringing(e.owner, e.kpage) /\ e.owner # p
        BY <1>0, <4>0 DEF IInv, Types, Bringing
      <4>2. e.kpage = f => e.owner = p
        BY Zenon, <1>d, <3>1 DEF EntryKept
      <4>3. e.owner = p /\ Bringing(e.owner, e.kpage) => e.kpage = f
        BY Zenon DEF Bringing
      <4>4. d.pinned <=> e.pinned /\ e.kpage # f
        BY Zenon, <1>a, <3>3
      <4> QED
        BY Zenon, <3>1, <4>1, <4>2, <4>3, <4>4 DEF EntryKept
    <3> QED
      BY Zenon, <3>2, <3>4 DEF EntryKept
  <2> QED
    BY Zenon, <1>0, <2>2, <2>3, <2>4 DEF TableKept
<1>9. SlotsKept'
  BY DEF IInv, SlotsKept, AllAlive, Waits, Unpin, At, Goto, swapVars
<1> QED
  BY Zenon, <1>1, <1>2, <1>3, <1>4, <1>5, <1>6, <1>7, <1>8, <1>9 DEF IInv

(* A process ends, and its page directory frees the frames it maps. *)
LEMMA ExitStep ==
  ASSUME NEW p \in Proc, IInv, Exit(p)
  PROVE  IInv'
<1>0. /\ pc[p] \in {"user", "fail"} /\ pc' = [pc EXCEPT ![p] = "dead"]
      /\ used' = used \ {pte[p][v] : v \in Page}
      /\ UNCHANGED <<supt, contents, page, kpage, swap_available, swap, frame_list, victim, slot>>
  BY Zenon DEF Exit, At, Goto, swapVars
<1>a. \A f \in used : (\A v \in Page : pte[p][v] # f) => f \in used'
  BY Zenon, <1>0
<1>b. \A q \in Proc : \A v \in Page : pte'[q][v] = IF q = p THEN 0 ELSE pte[q][v]
  BY Zenon DEF IInv, Types, TypeOK, Exit
<1>1. Types'
  BY Zenon DEF IInv, Types, TypeOK, Label, Exit, At, Goto, swapVars
<1>2. TableInv'
  BY DEF IInv, TableInv, Exit, At, Goto
<1>3. EntryInv'
  BY DEF IInv, Types, EntryInv, EntryOK, Holds, Bringing, Fills, Exit, Goto
<1>4. MappedInv'
  BY DEF IInv, Types, TypeOK, MappedInv, Fills, Exit, Goto
<1>5. FillInv'
  <2> SUFFICES ASSUME NEW q \in Proc, pc'[q] \in {"fill", "map"}
               PROVE  kpage[q] \in used' /\ \A r \in Proc : Fills(r, kpage[q])' => q = r
    BY Zenon, <1>0 DEF FillInv
  <2>1. q # p /\ Fills(q, kpage[q]) /\ kpage[q] # 0
    BY <1>0 DEF IInv, TableInv, Fills, Frame
  <2>2. kpage[q] \in used /\ \A r \in Proc : Fills(r, kpage[q]) => q = r
    BY Zenon, <2>1 DEF IInv, FillInv, Fills
  <2>3. \A v \in Page : pte[p][v] # kpage[q]
    BY Zenon, <2>1 DEF IInv, MappedInv
  <2> QED
    BY <1>0, <2>2, <2>3 DEF Fills
<1>6. VictimInv'
  <2> SUFFICES ASSUME victim # NULL PROVE VictimInv'
    BY Zenon, <1>0 DEF VictimInv
  <2>1. victim.owner \in Proc /\ victim.upage \in Page /\ victim.kpage # 0
    BY DEF IInv, Types, Entry, Frame
  <2>2. victim.kpage \in used'
    BY Zenon, <1>0 DEF IInv, VictimInv
  <2>3. \A q \in Proc : ~Fills(q, victim.kpage)' /\ \A v \in Page : pte'[q][v] # victim.kpage
    BY <1>0, <1>b, <2>1 DEF IInv, VictimInv, Fills
  <2>4. pc'[victim.owner] # "dead" => supt[victim.owner][victim.upage].status = "ON_FRAME"
    BY <1>0 DEF IInv, VictimInv
  <2> QED
    BY <1>0, <1>b, <2>1, <2>3 DEF IInv, VictimInv
<1>7. SlotInv' /\ SlotsKept'
  <2>1. \A q \in Proc : \A w \in Page : Waits(q, w)' => Waits(q, w) /\ supt'[q][w] = supt[q][w]
    BY <1>0 DEF Waits
  <2>2. ~AllAlive' /\ \A q \in Proc : pc'[q] = "replace" <=> pc[q] = "replace"
    BY Zenon, <1>0 DEF IInv, Types, AllAlive
  <2> QED
    BY Zenon, <1>0, <2>1, <2>2, WaitsKept
<1>8. TableKept'
  BY Zenon DEF IInv, Types, TableKept, AllAlive, Exit, At, Goto
<1> QED
  BY Zenon, <1>1, <1>2, <1>3, <1>4, <1>5, <1>6, <1>7, <1>8 DEF IInv

-----------------------------------------------------------------------------
(* The frame table without an entry, and with one more. *)

(* The entries of list are those of frame_list but for the ith. *)
Without(list, i) ==
  /\ \A j \in DOMAIN list : \E k \in DOMAIN frame_list : k # i /\ list[j] = frame_list[k]
  /\ \A k \in DOMAIN frame_list : k # i => \E j \in DOMAIN list : list[j] = frame_list[k]
  /\ HashedOnce(list)
  /\ KpageOnce(frame_list) => KpageOnce(list)

(* list_remove and hash_delete take out one entry, and clock_ptr stays in range. *)
LEMMA RemovedIs ==
  ASSUME IInv, NEW f, Mapped(f) # {}
  PROVE  /\ Removed(f) \in Seq(Entry) /\ ClockAfter(f) \in {FREED} \cup 0 .. Len(Removed(f))
         /\ \E i \in Mapped(f) : Without(Removed(f), i)
<1> DEFINE i == CHOOSE i \in Mapped(f) : TRUE
           R == Removed(f)
           n == Len(frame_list)
           at(j) == IF j < i THEN j ELSE j + 1
<1>0. /\ i \in Mapped(f) /\ i \in 1 .. n /\ n \in Nat /\ frame_list \in Seq(Entry)
      /\ DOMAIN frame_list = 1 .. n
  BY DEF IInv, Types, TypeOK, Mapped
<1>1. R = [j \in 1 .. n - 1 |-> frame_list[at(j)]]
  BY Zenon DEF Removed
<1>c. ClockAfter(f) = IF clock_ptr = i THEN FREED ELSE IF clock_ptr > i THEN clock_ptr - 1
                      ELSE clock_ptr
  BY Zenon DEF ClockAfter
<1> HIDE DEF i, R
<1>2. /\ R \in Seq(Entry) /\ Len(R) = n - 1 /\ DOMAIN R = 1 .. n - 1
      /\ \A j \in 1 .. n - 1 : R[j] = frame_list[at(j)]
  <2>1. n - 1 \in Nat /\ \A j \in 1 .. n - 1 : at(j) \in 1 .. n
    BY <1>0
  <2> HIDE DEF n, at
  <2>2. /\ R = [j \in 1 .. n - 1 |-> R[j]]
        /\ \A j \in 1 .. n - 1 : R[j] = frame_list[at(j)] /\ R[j] \in Entry
    BY <1>0, <1>1, <2>1
  <2> QED
    BY <2>1, <2>2
<1>3. ClockAfter(f) \in {FREED} \cup 0 .. Len(R)
  BY <1>0, <1>2, <1>c DEF IInv, Types, TypeOK, FREED
<1>4. \A j \in 1 .. n - 1 : at(j) \in 1 .. n /\ at(j) # i
  BY <1>0
<1>5. \A j, k \in 1 .. n - 1 : at(j) = at(k) => j = k
  BY <1>0
<1>6. \A k \in 1 .. n : k # i => \E j \in 1 .. n - 1 : at(j) = k
  <2> SUFFICES ASSUME NEW k \in 1 .. n, k # i PROVE \E j \in 1 .. n - 1 : at(j) = k
    BY Zenon
  <2>1. CASE k < i
    BY <1>0, <2>1
  <2>2. CASE k > i
    <3>1. k - 1 \in 1 .. n - 1 /\ at(k - 1) = k
      BY <1>0, <2>2
    <3> QED
      BY Zenon, <3>1
  <2> QED
    BY <1>0
<1> HIDE DEF at
<1>7. Without(R, i)
  <2>1. \A j \in DOMAIN R : \E k \in DOMAIN frame_list : k # i /\ R[j] = frame_list[k]
    BY <1>2, <1>4
  <2>2. \A k \in DOMAIN frame_list : k # i => \E j \in DOMAIN R : R[j] = frame_list[k]
    BY <1>2, <1>6
  <2>3. HashedOnce(R)
    BY <1>2, <1>4, <1>5 DEF IInv, EntryInv, HashedOnce
  <2>4. KpageOnce(frame_list) => KpageOnce(R)
    BY <1>0, <1>2, <1>4, <1>5 DEF KpageOnce
  <2> QED
    BY Zenon, <2>1, <2>2, <2>3, <2>4 DEF Without
<1> QED
  BY Zenon, <1>0, <1>2, <1>3, <1>7 DEF R

(* The entry frame_allocate makes for frame f. *)
IsNew(e, p, f, list) ==
  /\ e.kpage = f /\ e.owner = p /\ e.upage = page[p] /\ e.pinned = TRUE
  /\ e.hashed <=> \A i \in DOMAIN list : ~(list[i].kpage = f /\ list[i].hashed)

(* list_push_back and hash_insert add one entry at the end. *)
LEMMA InsertIs ==
  ASSUME IInv, NEW p \in Proc, NEW f \in Frame, NEW list \in Seq(Entry),
         NEW c \in {FREED} \cup 0 .. Len(list), Insert(p, f, list, c)
  PROVE  /\ frame_list' \in Seq(Entry) /\ clock_ptr' \in {FREED} \cup 0 .. Len(frame_list')
         /\ DOMAIN frame_list' = DOMAIN list \cup {Len(list) + 1} /\ Len(list) + 1 \notin DOMAIN list
         /\ \A j \in DOMAIN list : frame_list'[j] = list[j]
         /\ IsNew(frame_list'[Len(list) + 1], p, f, list)
<1> DEFINE b == \A i \in DOMAIN list : ~(list[i].kpage = f /\ list[i].hashed)
           e == [kpage |-> f, owner |-> p, upage |-> page[p], pinned |-> TRUE, hashed |-> b]
<1>1. frame_list' = Append(list, e)
  BY Zenon DEF Insert
<1>2. b \in BOOLEAN /\ page[p] \in Page
  BY Zenon DEF IInv, Types
<1>3. e.hashed = b
  <2> HIDE DEF b
  <2> QED
    BY Zenon
<1>4. e \in Entry /\ e.kpage = f /\ e.owner = p /\ e.upage = page[p] /\ e.pinned = TRUE
  <2> HIDE DEF b
  <2> QED
    BY Zenon, <1>2 DEF Entry
<1>5. e.hashed <=> b
  BY Zenon, <1>2
<1> HIDE DEF e, b
<1>6. /\ frame_list' \in Seq(Entry) /\ Len(frame_list') = Len(list) + 1
      /\ DOMAIN frame_list' = DOMAIN list \cup {Len(list) + 1} /\ Len(list) + 1 \notin DOMAIN list
      /\ \A j \in DOMAIN list : frame_list'[j] = list[j]
      /\ frame_list'[Len(list) + 1] = e
  BY <1>1, <1>4
<1>7. clock_ptr' \in {FREED} \cup 0 .. Len(frame_list')
  BY DEF Insert
<1> QED
  BY Zenon, <1>4, <1>5, <1>6, <1>7 DEF b, IsNew

(* A frame that no process maps or fills becomes p's, with a new entry.    *)
LEMMA InsertKeeps ==
  ASSUME IInv, NEW p \in Proc, NEW f \in Frame, NEW list \in Seq(Entry),
         NEW c \in {FREED} \cup 0 .. Len(list), Insert(p, f, list, c),
         pc[p] \in {"alloc", "replace"}, UNCHANGED <<pte, page>>, victim' = NULL,
         \A q \in Proc : ~Fills(q, f) /\ \A v \in Page : pte[q][v] # f,
         HashedOnce(list), KpageOnce(frame_list) => KpageOnce(list),
         \A j \in DOMAIN list : list[j] # victim /\ \E k \in DOMAIN frame_list : list[j] = frame_list[k],
         AllAlive => /\ \A j \in DOMAIN list : list[j].kpage # f
                     /\ used \cup {f} = {list[j].kpage : j \in DOMAIN list} \cup {f}
  PROVE  EntryInv' /\ MappedInv' /\ FillInv' /\ TableKept'
<1> DEFINE n == Len(list) + 1
<1>1. /\ frame_list' \in Seq(Entry) /\ DOMAIN frame_list' = DOMAIN list \cup {n} /\ n \notin DOMAIN list
      /\ \A j \in DOMAIN list : frame_list'[j] = list[j]
  BY Zenon, InsertIs
<1>i. IsNew(frame_list'[n], p, f, list)
  BY Zenon, InsertIs
<1> HIDE DEF n
<1>2. LET e == frame_list'[n]
      IN  /\ e.kpage = f /\ e.owner = p /\ e.upage = page[p] /\ e.pinned = TRUE
          /\ e.hashed <=> \A i \in DOMAIN list : ~(list[i].kpage = f /\ list[i].hashed)
  BY Zenon, <1>i DEF IsNew
<1>3. /\ pc' = [pc EXCEPT ![p] = "fill"] /\ kpage' = [kpage EXCEPT ![p] = f]
      /\ used' = used \cup {f} /\ f # 0
  BY DEF Insert, Goto, Frame
<1>4. \A q \in Proc : \A g \in Frame :
                             /\ Fills(q, g)' <=> Fills(q, g) \/ (q = p /\ g = f)
                             /\ Bringing(q, g)' <=> Bringing(q, g) \/ (q = p /\ g = f)
                             /\ ~Fills(p, g) /\ ~Bringing(p, g)
  BY Zenon, <1>3 DEF IInv, Types, Fills, Bringing
<1>5. ASSUME NEW j \in DOMAIN list
      PROVE  LET e == list[j]
             IN  /\ EntryOK(e) /\ e # victim /\ (AllAlive => EntryKept(e))
                 /\ e.owner \in Proc /\ e.upage \in Page /\ e.kpage \in Frame
                 /\ (pc'[e.owner] # "dead" <=> pc[e.owner] # "dead")
                 /\ Holds(e) => /\ e.kpage # f
                                /\ \/ pte'[e.owner][e.upage] = e.kpage
                                   \/ Fills(e.owner, e.kpage)' /\ page'[e.owner] = e.upage
  <2>1. PICK k \in DOMAIN frame_list : list[j] = frame_list[k]
    BY Zenon
  <2>2. EntryOK(list[j]) /\ list[j] # victim /\ (AllAlive => EntryKept(list[j]))
    BY Zenon DEF IInv, EntryInv, TableKept
  <2>3. list[j].owner \in Proc /\ list[j].upage \in Page /\ list[j].kpage \in Frame
    BY Zenon, Listed
  <2>4. pc'[list[j].owner] # "dead" <=> pc[list[j].owner] # "dead"
    <3>1. pc \in [Proc -> Label] /\ pc[p] # "dead"
      BY Zenon DEF IInv, Types
    <3> QED
      BY Zenon, <1>3, <2>3, <3>1
  <2>5. Holds(list[j]) =>
          /\ list[j].kpage # f
          /\ \/ pte'[list[j].owner][list[j].upage] = list[j].kpage
             \/ Fills(list[j].owner, list[j].kpage)' /\ page'[list[j].owner] = list[j].upage
    BY <1>4, <2>3 DEF Holds
  <2> QED
    BY Zenon, <2>2, <2>3, <2>4, <2>5
<1>6. EntryInv'
  <2>1. HashedOnce(frame_list)'
    BY Zenon, <1>1, <1>2 DEF HashedOnce
  <2>2. ASSUME NEW j \in DOMAIN list
        PROVE  EntryOK(frame_list[j])'
    <3>1. frame_list'[j] = list[j]
      BY Zenon, <1>1
    <3>2. list[j].hashed \/ list[j].pinned
      BY Zenon, <1>5 DEF EntryOK
    <3>3. list[j].hashed /\ pc'[list[j].owner] # "dead" =>
            \/ pte'[list[j].owner][list[j].upage] = list[j].kpage
            \/ /\ pc'[list[j].owner] \in {"fill", "map"} /\ kpage'[list[j].owner] = list[j].kpage
               /\ page'[list[j].owner] = list[j].upage
      BY Zenon, <1>5 DEF EntryOK, Fills
    <3>4. ~list[j].pinned /\ pc'[list[j].owner] # "dead" =>
            ~(pc'[list[j].owner] \in {"fill", "map", "unpin"} /\ kpage'[list[j].owner] = list[j].kpage)
      <4> SUFFICES ASSUME ~list[j].pinned, pc'[list[j].owner] # "dead"
                   PROVE  ~Bringing(list[j].owner, list[j].kpage)'
        BY Zenon DEF Bringing
      <4>1. Holds(list[j]) /\ ~Bringing(list[j].owner, list[j].kpage)
        BY Zenon, <1>5 DEF EntryOK
      <4> QED
        BY Zenon, <1>4, <1>5, <4>1
    <3> QED
      BY Zenon, <3>1, <3>2, <3>3, <3>4 DEF EntryOK, Holds, Fills, Bringing
  <2>3. EntryOK(frame_list[n])'
    BY Zenon, <1>2, <1>3 DEF EntryOK, Holds, Fills, IInv, Types
  <2> QED
    BY Zenon, <1>1, <2>1, <2>2, <2>3 DEF EntryInv
<1>7. MappedInv'
  <2> SUFFICES ASSUME NEW q \in Proc, NEW v \in Page, pte[q][v] # 0
               PROVE  /\ pte[q][v] \in used'
                      /\ \A r \in Proc : /\ ~Fills(r, pte[q][v])'
                                         /\ \A w \in Page : pte[r][w] = pte[q][v] => q = r /\ v = w
    BY DEF MappedInv
  <2>1. /\ pte[q][v] \in used
        /\ \A r \in Proc : ~Fills(r, pte[q][v]) /\ \A w \in Page : pte[r][w] = pte[q][v] => q = r /\ v = w
    BY Zenon DEF IInv, MappedInv
  <2>2. used \subseteq Frame
    BY Zenon DEF IInv, Types, TypeOK
  <2> QED
    BY Zenon, <1>3, <1>4, <2>1, <2>2
<1>8. FillInv'
  BY <1>3, <1>4 DEF IInv, FillInv, Fills
<1>9. TableKept'
  <2> SUFFICES ASSUME AllAlive' PROVE TableKept'
    BY Zenon DEF TableKept
  <2>1. AllAlive
    BY <1>3 DEF AllAlive
  <2>2. KpageOnce(frame_list)'
    <3>1. KpageOnce(list) /\ \A j \in DOMAIN list : list[j].kpage # f
      BY Zenon, <2>1 DEF IInv, TableKept
    <3> QED
      BY Zenon, <1>1, <1>2, <3>1 DEF KpageOnce
  <2>3. used' = {frame_list'[j].kpage : j \in DOMAIN frame_list'}
    BY <1>1, <1>2, <1>3, <2>1
  <2>4. ASSUME NEW j \in DOMAIN list
        PROVE  EntryKept(frame_list[j])'
    <3>1. frame_list'[j] = list[j]
      BY Zenon, <1>1
    <3>2. list[j].hashed /\ (list[j].pinned <=> Bringing(list[j].owner, list[j].kpage))
      BY Zenon, <1>5, <2>1 DEF EntryKept
    <3>3. \/ pte'[list[j].owner][list[j].upage] = list[j].kpage
          \/ /\ pc'[list[j].owner] \in {"fill", "map"} /\ kpage'[list[j].owner] = list[j].kpage
             /\ page'[list[j].owner] = list[j].upage
      BY Zenon, <1>5, <2>1 DEF EntryKept, Fills
    <3>4. list[j].pinned <=>
            pc'[list[j].owner] \in {"fill", "map", "unpin"} /\ kpage'[list[j].owner] = list[j].kpage
      <4>1. Holds(list[j])
        BY Zenon, <1>5, <2>1 DEF EntryKept
      <4>2. Bringing(list[j].owner, list[j].kpage)' <=> Bringing(list[j].owner, list[j].kpage)
        BY Zenon, <1>4, <1>5, <4>1
      <4> QED
        BY Zenon, <3>2, <4>2 DEF Bringing
    <3> QED
      BY Zenon, <3>1, <3>2, <3>3, <3>4 DEF EntryKept, Holds, Fills, Bringing
  <2>5. EntryKept(frame_list[n])'
    BY Zenon, <1>2, <1>3, <2>1 DEF EntryKept, Holds, Fills, Bringing, IInv, Types
  <2> QED
    BY Zenon, <1>1, <2>2, <2>3, <2>4, <2>5 DEF TableKept
<1> QED
  BY Zenon, <1>6, <1>7, <1>8, <1>9

-----------------------------------------------------------------------------
(* The invariant holds when no process has been loaded. *)
LEMMA InitIInv == Init => IInv
<1> SUFFICES ASSUME Init PROVE IInv
  BY Zenon
<1>1. Types
  <2>1. frame_list \in Seq(Entry) /\ clock_ptr \in {FREED} \cup 0 .. Len(frame_list)
    BY DEF Init
  <2>2. supt \in [Proc -> [Page -> [status : {"none", "ALL_ZERO", "ON_FRAME", "ON_SWAP", "FROM_FILESYS"},
                                    swap_index : Slot \cup {-1}]]]
    BY Zenon DEF Init, NoEntry, Spte
  <2> QED
    BY Zenon, <2>1, <2>2, ConstantsAssumption DEF Init, Types, TypeOK, Label
<1>2. TableInv
  BY Zenon DEF Init, TableInv, NoEntry, Spte
<1>3. EntryInv /\ MappedInv /\ FillInv /\ VictimInv
  BY DEF Init, EntryInv, HashedOnce, MappedInv, FillInv, VictimInv
<1>4. SlotInv /\ TableKept /\ SlotsKept
  BY DEF Init, SlotInv, Waits, NoEntry, Spte, TableKept, KpageOnce, SlotsKept
<1> QED
  BY Zenon, <1>1, <1>2, <1>3, <1>4 DEF IInv

(* The steps that change nothing but panicked. *)
LEMMA QuietStep ==
  ASSUME IInv, Panic \/ UNCHANGED vars
  PROVE  IInv'
<1>1. /\ UNCHANGED <<pte, writable, accessed, supt, contents, pc, page, kpage, used, frame_list,
                     clock_ptr, frame_lock, victim, slot, swap_available, swap>>
      /\ panicked' \in BOOLEAN
  BY Zenon DEF IInv, Types, Panic, vars, tables, frameVars, swapVars
<1>2. Types' /\ TableInv'
  BY <1>1 DEF IInv, Types, TypeOK, TableInv
<1>3. EntryInv'
  BY Zenon, <1>1 DEF IInv, EntryInv, EntryOK, Holds, Bringing, Fills
<1>4. MappedInv' /\ FillInv' /\ VictimInv'
  BY <1>1 DEF IInv, MappedInv, FillInv, VictimInv, Fills
<1>5. SlotInv' /\ SlotsKept'
  BY <1>1 DEF IInv, SlotInv, SlotsKept, Waits, AllAlive
<1>6. TableKept'
  BY Zenon, <1>1 DEF IInv, TableKept, AllAlive, EntryKept, Holds, Bringing, Fills
<1> QED
  BY Zenon, <1>2, <1>3, <1>4, <1>5, <1>6 DEF IInv
=============================================================================
