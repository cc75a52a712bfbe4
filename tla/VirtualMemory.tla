--------------------------- MODULE VirtualMemory ---------------------------
(***************************************************************************)
(* Demand paging: the supplemental page tables (vm/page.c), the frame      *)
(* table with its clock (vm/frame.c), the swap slots (vm/swap.c), the page *)
(* fault handler (userprog/exception.c), the bits of the page tables it    *)
(* uses (userprog/pagedir.c), and the parts of load and process_exit that  *)
(* touch them (userprog/process.c).                                        *)
(*                                                                         *)
(* Each process runs on its own; the steps of a fault are the stretches    *)
(* between which other processes can run: frame_lock is held from          *)
(* "evicting" to the end of frame_allocate and by nobody while a page is   *)
(* filled.  A process is its struct thread's page, used once.              *)
(***************************************************************************)
EXTENDS Integers, Sequences, FiniteSets, FiniteSetsExt, TLC

CONSTANTS
  Proc, Page,
  FilePage,   \* the pages load_segment gives the executable's contents
  ReadOnly,   \* those of them whose segment is not writable
  StackPage,  \* the page setup_stack maps
  Frames,     \* how many frames the user pool has
  Slots,      \* how many pages the swap device holds
  Value, Zero, FileData,
  NULL

Frame == 1 .. Frames
Slot == 0 .. Slots - 1

(* An entry of the frame table. *)
Entry == [kpage : Frame, owner : Proc, upage : Page, pinned : BOOLEAN, hashed : BOOLEAN]

ASSUME ConstantsAssumption ==
  /\ ReadOnly \subseteq FilePage /\ FilePage \subseteq Page /\ StackPage \in Page \ FilePage
  /\ Frames \in Nat \ {0} /\ Slots \in Nat
  /\ {Zero, FileData} \subseteq Value /\ NULL \notin Proc \cup Entry

VARIABLES
  pte,             \* the frame a present page table entry points to, or 0
  writable,        \* the pages whose entry has the writable bit
  accessed,        \* the accessed bits, which outlive the present bit
  supt,            \* the supplemental page tables
  used,            \* the frames palloc has given out
  contents,        \* what is in each frame
  frame_list,      \* the frame table, in order of insertion
  clock_ptr,       \* place in frame_list; 0 NULL, FREED a freed entry
  swap_available,  \* free swap slots
  swap,            \* what is in each slot
  frame_lock,      \* its holder
  pc, page, kpage, \* of each process: step, faulting page, its new frame
  victim,          \* the entry being evicted by the holder of frame_lock
  slot,            \* the slot it was written to
  panicked

frameVars == <<used, frame_list, clock_ptr, frame_lock, victim, slot>>
swapVars == <<swap_available, swap>>
tables == <<pte, writable, accessed>>
vars == <<tables, supt, contents, pc, page, kpage, panicked, frameVars, swapVars>>

FREED == -1

(* An entry of a supplemental page table; swap_index is meaningful only    *)
(* ON_SWAP.  dirty, which nothing reads, is left out.                      *)
Spte(s, i) == [status |-> s, swap_index |-> i]
NoEntry == Spte("none", -1)
supt_has_entry(e) == e.status # "none"

(* The entries that the functions of vm/page.c install or leave behind.    *)
supt_install_filesys == Spte("FROM_FILESYS", -1)
supt_install_zeropage == Spte("ALL_ZERO", -1)
supt_install_frame == Spte("ON_FRAME", -1)
supt_set_swap(index) == Spte("ON_SWAP", index)

Init ==
  /\ pte = [p \in Proc |-> [v \in Page |-> 0]]
  /\ writable = [p \in Proc |-> {}]
  /\ accessed = [p \in Proc |-> {}]
  /\ supt = [p \in Proc |-> [v \in Page |-> NoEntry]]
  /\ used = {} /\ contents = [f \in Frame |-> Zero]
  /\ frame_list = <<>> /\ clock_ptr = 0
  /\ swap_available = Slot /\ swap = [s \in Slot |-> Zero]
  /\ frame_lock = NULL
  /\ pc = [p \in Proc |-> "load"]
  /\ page = [p \in Proc |-> StackPage] /\ kpage = [p \in Proc |-> 0]
  /\ victim = NULL /\ slot = -1
  /\ panicked = FALSE

At(p, l) == ~panicked /\ pc[p] = l

Goto(p, l) == pc' = [pc EXCEPT ![p] = l]

(* PANIC, a failed ASSERT or a fault in the kernel: nothing runs any more. *)
Panic ==
  /\ panicked' = TRUE
  /\ UNCHANGED <<tables, supt, contents, pc, page, kpage, frameVars, swapVars>>

-----------------------------------------------------------------------------
(* A process's own steps in user mode. *)

(* load: load_segment enters the executable's pages in the supplemental    *)
(* page table, then setup_stack asks for a frame.                          *)
Load(p) ==
  /\ At(p, "load")
  /\ supt' = [supt EXCEPT ![p] = [v \in Page |-> IF v \in FilePage
                                                  THEN supt_install_filesys ELSE NoEntry]]
  /\ Goto(p, "alloc")
  /\ UNCHANGED <<tables, contents, page, kpage, panicked, frameVars, swapVars>>

(* An instruction that writes to a present page. *)
Write(p, v, x) ==
  /\ At(p, "user") /\ pte[p][v] # 0 /\ v \in writable[p]
  /\ contents' = [contents EXCEPT ![pte[p][v]] = x]
  /\ accessed' = [accessed EXCEPT ![p] = @ \cup {v}]
  /\ UNCHANGED <<pte, writable, supt, pc, page, kpage, panicked, frameVars, swapVars>>

(* page_fault up to frame_allocate, for a page that is not present: a page *)
(* below the stack gets an entry first, and a page whose status is still   *)
(* ON_FRAME, because its eviction is under way, is left to fault again.    *)
PageFault(p, v) ==
  /\ At(p, "user") /\ pte[p][v] = 0
  /\ supt[p][v].status # "ON_FRAME"
  /\ supt' = [supt EXCEPT ![p][v] = IF supt_has_entry(@) THEN @ ELSE supt_install_zeropage]
  /\ page' = [page EXCEPT ![p] = v]
  /\ Goto(p, "alloc")
  /\ UNCHANGED <<tables, contents, kpage, panicked, frameVars, swapVars>>

-----------------------------------------------------------------------------
(* frame_allocate. *)

(* The entry frame_map has for frame f: of two entries for one frame       *)
(* hash_insert has taken only the first.                                   *)
Mapped(f) == {i \in DOMAIN frame_list : frame_list[i].kpage = f /\ frame_list[i].hashed}

(* clock_frame_next.  From the last entry it steps onto the list's tail,   *)
(* Len(frame_list) + 1, which is no entry.                                 *)
clock_frame_next(c) == IF c \in {0, Len(frame_list) + 1} THEN 1 ELSE c + 1

(* One turn of the loop of pick_frame_to_evict, with the accessed bits of  *)
(* the page directory in use.  The loop passes over the tail (what it      *)
(* reads there is whatever the build placed behind frame_list: see         *)
(* EvictPanics).                                                           *)
Turn(s) ==
  LET c == clock_frame_next(s.clock)
      e == frame_list[c]
  IN  CASE s.found -> s
        [] ~s.found /\ c = Len(frame_list) + 1 -> [s EXCEPT !.clock = c, !.tail = TRUE]
        [] ~s.found /\ c # Len(frame_list) + 1 ->
             CASE e.pinned -> [s EXCEPT !.clock = c]
               [] ~e.pinned /\ e.upage \in s.bits -> [s EXCEPT !.clock = c, !.bits = @ \ {e.upage}]
               [] ~e.pinned /\ e.upage \notin s.bits -> [s EXCEPT !.clock = c, !.found = TRUE]

(* pick_frame_to_evict, for process p: at most 2 * n + 1 turns. *)
pick_frame_to_evict(p) ==
  LET n == Cardinality({i \in DOMAIN frame_list : frame_list[i].hashed})
      start == [clock |-> clock_ptr, bits |-> accessed[p], found |-> FALSE, tail |-> FALSE]
      turn[it \in 0 .. 2 * n + 1] == IF it = 0 THEN start ELSE Turn(turn[it - 1])
  IN  turn[2 * n + 1]

(* hash_insert and list_push_back of p's entry for frame f.  malloc gives  *)
(* back the block that was freed last, so a clock_ptr left on a freed      *)
(* entry is on the new one.                                                *)
Insert(p, f, list, c) ==
  /\ frame_list' = Append(list,
       [kpage |-> f, owner |-> p, upage |-> page[p], pinned |-> TRUE,
        hashed |-> \A i \in DOMAIN list : ~(list[i].kpage = f /\ list[i].hashed)])
  /\ clock_ptr' = IF c = FREED THEN Len(list) + 1 ELSE c
  /\ used' = used \cup {f}
  /\ kpage' = [kpage EXCEPT ![p] = f]
  /\ Goto(p, "fill")

(* malloc has no block for the entry: the frame is never freed. *)
NoBlock(p, f, list, c) ==
  /\ frame_list' = list /\ clock_ptr' = c
  /\ used' = used \cup {f}
  /\ Goto(p, "fail")
  /\ UNCHANGED kpage

(* palloc_get_page has a frame, the first free one. *)
Allocate(p) ==
  /\ At(p, "alloc") /\ frame_lock = NULL /\ used # Frame
  /\ LET f == Min(Frame \ used)
     IN  Insert(p, f, frame_list, clock_ptr) \/ NoBlock(p, f, frame_list, clock_ptr)
  /\ UNCHANGED <<tables, supt, contents, page, frame_lock, victim, slot, panicked, swapVars>>

(* It has none: pick an entry and unmap its page. *)
Evict(p) ==
  LET pick == pick_frame_to_evict(p)
      e == frame_list[pick.clock]
  IN  /\ At(p, "alloc") /\ frame_lock = NULL /\ used = Frame
      /\ clock_ptr # FREED /\ frame_list # <<>> /\ pick.found
      /\ pc[e.owner] # "dead"
      /\ clock_ptr' = pick.clock
      /\ accessed' = [accessed EXCEPT ![p] = pick.bits]
      /\ pte' = [pte EXCEPT ![e.owner][e.upage] = 0]
      /\ victim' = e /\ frame_lock' = p
      /\ Goto(p, "swap_out")
      /\ UNCHANGED <<writable, supt, contents, page, kpage, used, frame_list, slot,
                     panicked, swapVars>>

(* The ways for the eviction not to get that far: no entry at all, a       *)
(* clock_ptr whose entry was freed, every entry pinned, an entry whose     *)
(* process is gone, or what the loop finds when it steps onto the tail.    *)
EvictPanics(p) ==
  LET pick == pick_frame_to_evict(p)
  IN  /\ At(p, "alloc") /\ frame_lock = NULL /\ used = Frame
      /\ \/ frame_list = <<>> \/ clock_ptr = FREED
         \/ /\ frame_list # <<>> /\ clock_ptr # FREED
            /\ \/ ~pick.found
               \/ pick.tail
               \/ pick.found /\ pc[frame_list[pick.clock].owner] = "dead"
      /\ Panic

(* swap_out: the first free slot gets the frame's contents and is taken.   *)
(* With no slot free bitmap_scan's BITMAP_ERROR is used as an index, and   *)
(* block_write panics.                                                     *)
SwapOutUnmarked(p) ==
  /\ At(p, "swap_out") /\ swap_available # {}
  /\ swap' = [swap EXCEPT ![Min(swap_available)] = contents[victim.kpage]]
  /\ slot' = Min(swap_available)
  /\ Goto(p, "replace")
  /\ UNCHANGED <<tables, supt, contents, page, kpage, used, frame_list, clock_ptr,
                 frame_lock, victim, panicked, swap_available>>
SwapOut(p) ==
  /\ At(p, "swap_out") /\ swap_available # {}
  /\ LET s == Min(swap_available)
     IN  /\ swap' = [swap EXCEPT ![s] = contents[victim.kpage]]
         /\ swap_available' = swap_available \ {s}
         /\ slot' = s
  /\ Goto(p, "replace")
  /\ UNCHANGED <<tables, supt, contents, page, kpage, used, frame_list, clock_ptr,
                 frame_lock, victim, panicked>>

SwapFull(p) == At(p, "swap_out") /\ swap_available = {} /\ Panic

(* frame_list and clock_ptr without the entry that frame_map has for f. *)
Removed(f) ==
  LET i == CHOOSE i \in Mapped(f) : TRUE
  IN  [j \in 1 .. Len(frame_list) - 1 |-> frame_list[IF j < i THEN j ELSE j + 1]]
ClockAfter(f) ==
  LET i == CHOOSE i \in Mapped(f) : TRUE
  IN  IF clock_ptr = i THEN FREED ELSE IF clock_ptr > i THEN clock_ptr - 1 ELSE clock_ptr

(* The rest of frame_allocate: the victim's entry becomes ON_SWAP, its     *)
(* frame is freed and taken again, and frame_lock is released.             *)
Replace(p) ==
  LET f == victim.kpage
  IN  /\ At(p, "replace")
      /\ pc[victim.owner] # "dead" /\ Mapped(f) # {}
      /\ supt' = [supt EXCEPT ![victim.owner][victim.upage] = supt_set_swap(slot)]
      /\ \/ Insert(p, f, Removed(f), ClockAfter(f))
         \/ NoBlock(p, f, Removed(f), ClockAfter(f))
      /\ frame_lock' = NULL /\ victim' = NULL /\ slot' = -1
      /\ UNCHANGED <<tables, contents, page, panicked, swapVars>>

(* The victim's process has exited in the meantime: its struct thread is   *)
(* gone, and t->supt faults.                                               *)
ReplacePanics(p) ==
  /\ At(p, "replace")
  /\ pc[victim.owner] = "dead" \/ Mapped(victim.kpage) = {}
  /\ Panic

-----------------------------------------------------------------------------
(* load_page, once it has a frame, and install_page. *)

(* swap_in: the page is read from its slot, which is then free again.  The *)
(* code panics for a slot that is not taken, and so do the lookups in      *)
(* frame_map below for a frame without an entry; neither happens, or these *)
(* steps would be stuck.                                                   *)
SwapInKeepsSlot(p, s) ==
  /\ s \notin swap_available
  /\ contents' = [contents EXCEPT ![kpage[p]] = swap[s]]
  /\ UNCHANGED swap_available
SwapInUnread(p, s) ==
  /\ s \notin swap_available
  /\ contents' = [contents EXCEPT ![kpage[p]] = Zero]
  /\ swap_available' = swap_available \cup {s}
swap_in(p, s) ==
  /\ s \notin swap_available
  /\ contents' = [contents EXCEPT ![kpage[p]] = swap[s]]
  /\ swap_available' = swap_available \cup {s}

load_page_from_filesys(p) == contents' = [contents EXCEPT ![kpage[p]] = FileData]

(* The page's contents come from swap or from the executable, or are zero  *)
(* (a page of setup_stack has no entry yet).                               *)
Fill(p) ==
  LET e == supt[p][page[p]]
  IN  /\ At(p, "fill")
      /\ CASE e.status = "ON_SWAP" -> swap_in(p, e.swap_index)
           [] e.status = "FROM_FILESYS" -> load_page_from_filesys(p) /\ UNCHANGED swap_available
           [] OTHER -> /\ contents' = [contents EXCEPT ![kpage[p]] = Zero]
                       /\ UNCHANGED swap_available
      /\ Goto(p, "map")
      /\ UNCHANGED <<tables, supt, page, kpage, panicked, swap, frameVars>>

(* The executable cannot be read, or there is no memory for a page table:  *)
(* frame_free, and page_fault (or load) gives the process up.              *)
FillFails(p) ==
  /\ \/ At(p, "fill") /\ supt[p][page[p]].status = "FROM_FILESYS"
     \/ At(p, "map")
  /\ frame_lock = NULL /\ Mapped(kpage[p]) # {}
  /\ frame_list' = Removed(kpage[p]) /\ clock_ptr' = ClockAfter(kpage[p])
  /\ used' = used \ {kpage[p]}
  /\ Goto(p, "fail")
  /\ UNCHANGED <<tables, supt, contents, page, kpage, frame_lock, victim, slot, panicked, swapVars>>

(* pagedir_set_page and the entry's new status.  Only pages read from the  *)
(* executable keep its writable flag.                                      *)
Map(p) ==
  LET v == page[p]
  IN  /\ At(p, "map")
      /\ pte' = [pte EXCEPT ![p][v] = kpage[p]]
      /\ writable' = [writable EXCEPT ![p] =
           IF supt[p][v].status = "FROM_FILESYS" /\ v \in ReadOnly THEN @ \ {v} ELSE @ \cup {v}]
      /\ accessed' = [accessed EXCEPT ![p] = @ \ {v}]
      /\ supt' = [supt EXCEPT ![p][v] = supt_install_frame]
      /\ Goto(p, "unpin")
      /\ UNCHANGED <<contents, page, kpage, panicked, frameVars, swapVars>>

(* frame_unpin, after which the faulting instruction is run again. *)
Unpin(p) ==
  /\ At(p, "unpin") /\ frame_lock = NULL /\ Mapped(kpage[p]) # {}
  /\ frame_list' = [i \in DOMAIN frame_list |->
                      [frame_list[i] EXCEPT !.pinned = @ /\ i \notin Mapped(kpage[p])]]
  /\ Goto(p, "user")
  /\ kpage' = [kpage EXCEPT ![p] = 0]
  /\ UNCHANGED <<tables, supt, contents, page, used, clock_ptr, frame_lock, victim, slot,
                 panicked, swapVars>>

(* process_exit, when the process is killed, exits or was not loaded: the  *)
(* page directory goes with the frames it maps; the frame table, the       *)
(* supplemental page table and the swap slots are left as they are.        *)
Exit(p) ==
  /\ At(p, "user") \/ At(p, "fail")
  /\ used' = used \ {pte[p][v] : v \in Page}
  /\ pte' = [pte EXCEPT ![p] = [v \in Page |-> 0]]
  /\ Goto(p, "dead")
  /\ UNCHANGED <<writable, accessed, supt, contents, page, kpage, panicked, swapVars,
                 frame_list, clock_ptr, frame_lock, victim, slot>>

(* Nothing is left to run. *)
Stopped ==
  /\ panicked \/ \A p \in Proc : pc[p] = "dead"
  /\ UNCHANGED vars

Next ==
  \/ \E p \in Proc :
       \/ Load(p) \/ Allocate(p) \/ Evict(p) \/ EvictPanics(p)
       \/ SwapOut(p) \/ SwapFull(p) \/ Replace(p) \/ ReplacePanics(p)
       \/ Fill(p) \/ FillFails(p) \/ Map(p) \/ Unpin(p)
       \/ Exit(p)
       \/ \E v \in Page : PageFault(p, v) \/ \E x \in Value : Write(p, v, x)
  \/ Stopped

Spec == Init /\ [][Next]_vars

(* Processes are interchangeable. *)
Symmetry == Permutations(Proc)

-----------------------------------------------------------------------------
TypeOK ==
  /\ pte \in [Proc -> [Page -> Frame \cup {0}]]
  /\ accessed \in [Proc -> SUBSET Page] /\ writable \in [Proc -> SUBSET Page]
  /\ supt \in [Proc -> [Page -> [status : {"none", "ALL_ZERO", "ON_FRAME", "ON_SWAP", "FROM_FILESYS"},
                                   swap_index : Slot \cup {-1}]]]
  /\ used \subseteq Frame /\ contents \in [Frame -> Value]
  /\ frame_list \in Seq(Entry)
  /\ clock_ptr \in {FREED} \cup 0 .. Len(frame_list)
  /\ swap_available \subseteq Slot /\ swap \in [Slot -> Value]
  /\ frame_lock \in Proc \cup {NULL} /\ (frame_lock = NULL <=> victim = NULL)
  /\ \A p \in Proc : pc[p] \in {"swap_out", "replace"} <=> frame_lock = p

(* Processes that still use their memory. *)
Alive == {p \in Proc : pc[p] \notin {"fail", "dead"}}

(* Where page v of process p is: present, in a frame that is being evicted *)
(* or filled, in a swap slot, or still to be made.                         *)
initial == [v \in Page |-> IF v \in FilePage THEN FileData ELSE Zero]

PageContents(p, v) ==
  CASE p \notin Alive -> initial[v]
    [] p \in Alive /\ pte[p][v] # 0 -> contents[pte[p][v]]
    [] p \in Alive /\ pte[p][v] = 0 ->
         IF victim # NULL /\ victim.owner = p /\ victim.upage = v THEN contents[victim.kpage]
         ELSE IF pc[p] = "map" /\ page[p] = v THEN contents[kpage[p]]
         ELSE IF supt[p][v].status = "ON_SWAP" THEN swap[supt[p][v].swap_index]
         ELSE initial[v]

(* Paging is invisible: through faults, evictions, swapping and exits, in  *)
(* any order, a page changes only when an instruction of its own process   *)
(* writes to it.                                                           *)
M == INSTANCE Memory WITH alive <- Alive, running <- {p \in Proc : pc[p] = "user"},
                          mem <- [p \in Proc |-> [v \in Page |-> PageContents(p, v)]]
PagesAreMemory == M!Spec

(* The frame that p is filling. *)
Filling(p) == IF pc[p] \in {"fill", "map"} THEN {kpage[p]} ELSE {}

(* palloc does not hand out a frame that is in use: every present page,    *)
(* and every page being filled, has a frame of its own.                    *)
FramesPrivate ==
  /\ \A p, q \in Proc : \A v, w \in Page :
       pte[p][v] # 0 => /\ pte[p][v] \in used
                        /\ pte[q][w] = pte[p][v] => p = q /\ v = w
                        /\ pte[p][v] \notin Filling(q)
  /\ \A p, q \in Proc : p # q => Filling(p) \cap Filling(q) = {}

(* Pages of p that wait in swap. *)
Swapped(p) == {v \in Page : supt[p][v].status = "ON_SWAP" /\ ~(pc[p] = "map" /\ page[p] = v)}

(* A slot holds one page: what waits in swap is never overwritten, and     *)
(* swap_in never meets a slot that was given up.                           *)
SlotsPrivate ==
  /\ \A p, q \in Alive : \A v \in Swapped(p), w \in Swapped(q) :
       supt[p][v].swap_index = supt[q][w].swap_index => p = q /\ v = w
  /\ \A p \in Alive : \A v \in Swapped(p) :
       supt[p][v].swap_index \notin swap_available /\ supt[p][v].swap_index # slot

(* Frames and swap slots are private, in every order of faults, evictions, *)
(* failures and exits of several processes (frame.c:102-142, swap.c).      *)
MemoryPrivate == TypeOK /\ FramesPrivate /\ SlotsPrivate

(* As long as no process has failed or exited, nothing leaks: every frame  *)
(* has one entry in the table, which knows its page and is pinned just     *)
(* while that page is brought in, and every slot that is taken holds a     *)
(* page.                                                                   *)
NothingLeaks ==
  Alive = Proc =>
    /\ used = {frame_list[i].kpage : i \in DOMAIN frame_list}
    /\ Cardinality(used) = Len(frame_list)
    /\ \A i \in DOMAIN frame_list :
         LET e == frame_list[i]
         IN  /\ e.pinned <=> pc[e.owner] \in {"fill", "map", "unpin"} /\ kpage[e.owner] = e.kpage
             /\ \/ pte[e.owner][e.upage] = e.kpage
                \/ e.kpage \in Filling(e.owner) /\ page[e.owner] = e.upage
                \/ victim = e
    /\ \A s \in Slot \ swap_available :
         s = slot \/ \E p \in Proc : \E v \in Swapped(p) : supt[p][v].swap_index = s
=============================================================================
