------------------------------- MODULE PageDir -------------------------------
(***************************************************************************)
(* The page tables of processes: userprog/pagedir.c and the entries of     *)
(* threads/pte.h, with the processor that walks the tables, sets accessed  *)
(* and dirty bits in them and keeps what it read in its lookaside buffer.  *)
(* Only the part of a directory for user addresses changes and is shown.   *)
(*                                                                         *)
(* A virtual page is <<d, e>>: the numbers pd_no and pt_no of its address. *)
(***************************************************************************)
EXTENDS Integers, Sequences, FiniteSets, FiniteSetsExt

CONSTANTS
  Proc,       \* page directories of processes
  UserDirs,   \* pd_no (PHYS_BASE)
  Entries,    \* entries of a table
  Pool,       \* pages for directories and tables
  Frame,      \* user frames
  NULL

VARIABLES
  pd,      \* pd[p]: [page, table] with table[d] the page of a table or NULL
  pt,      \* pt[k]: the table in page k: an entry for each e
  active,  \* CR3: a process, or NULL for init_page_dir
  tlb,     \* tlb[v]: the entry the processor keeps for v, or NULL
  free,    \* pages of the pool that are free
  given    \* user frames that are in use
vars == <<pd, pt, active, tlb, free, given>>

UserPage == (0 .. UserDirs - 1) \X (0 .. Entries - 1)

(* pte.h: an entry is [frame, P, W, U, A, D]; an empty one is ZERO. *)
ZERO == [frame |-> NULL, P |-> FALSE, W |-> FALSE, U |-> FALSE, A |-> FALSE, D |-> FALSE]
pte_create_kernel(f, writable) ==
  [frame |-> f, P |-> TRUE, W |-> writable, U |-> FALSE, A |-> FALSE, D |-> FALSE]
pte_create_user(f, writable) == [pte_create_kernel(f, writable) EXCEPT !.U = TRUE]

Init ==
  /\ pd = [p \in Proc |-> NULL] /\ pt = [k \in Pool |-> NULL] /\ active = NULL
  /\ tlb = [v \in UserPage |-> NULL] /\ free = Pool /\ given = {}

Flushed == [v \in UserPage |-> NULL]
EmptyTable == [e \in 0 .. Entries - 1 |-> ZERO]

(* lookup_page without create: the entry, or NULL when there is no table. *)
lookup_page(p, v) ==
  LET k == pd[p].table[v[1]] IN IF k = NULL THEN NULL ELSE pt[k][v[2]]

(* What the processor finds in the tables of a directory (NULL: the        *)
(* kernel's own).                                                          *)
Walk(p, v) ==
  IF p = NULL THEN ZERO
  ELSE LET e == lookup_page(p, v) IN IF e = NULL THEN ZERO ELSE e

(* invalidate_pagedir: re-activate the directory when it is active. *)
invalidate_pagedir(p) == tlb' = IF active = p THEN Flushed ELSE tlb

-----------------------------------------------------------------------------
pagedir_create(p) ==
  /\ pd[p] = NULL
  /\ \E k \in free : /\ pd' = [pd EXCEPT ![p] = [page |-> k, table |-> [d \in 0 .. UserDirs - 1 |-> NULL]]]
                     /\ free' = free \ {k}
  /\ UNCHANGED <<pt, active, tlb, given>>

(* pagedir_set_page of an unmapped page, with a new table when there is    *)
(* none and memory for it.                                                 *)
pagedir_set_page(p, v, f, writable) ==
  /\ pd[p] # NULL /\ f \notin given /\ ~Walk(p, v).P
  /\ \/ /\ pd[p].table[v[1]] # NULL
        /\ pt' = [pt EXCEPT ![pd[p].table[v[1]]][v[2]] = pte_create_user(f, writable)]
        /\ UNCHANGED <<pd, free>>
     \/ /\ pd[p].table[v[1]] = NULL
        /\ \E k \in free :
             /\ pd' = [pd EXCEPT ![p].table[v[1]] = k] /\ free' = free \ {k}
             /\ pt' = [pt EXCEPT ![k] = [EmptyTable EXCEPT ![v[2]] = pte_create_user(f, writable)]]
  /\ given' = given \cup {f} /\ UNCHANGED <<active, tlb>>

(* Change the entry of v, when there is a table for it. *)
Change(p, v, e) == pt' = [pt EXCEPT ![pd[p].table[v[1]]][v[2]] = e]

(* pagedir_clear_page, by a caller that takes the frame back. *)
pagedir_clear_page(p, v) ==
  /\ pd[p] # NULL /\ lookup_page(p, v) # NULL /\ lookup_page(p, v).P
  /\ Change(p, v, [lookup_page(p, v) EXCEPT !.P = FALSE])
  /\ invalidate_pagedir(p)
  /\ given' = given \ {lookup_page(p, v).frame} /\ UNCHANGED <<pd, active, free>>

pagedir_set_dirty(p, v, dirty) ==
  /\ pd[p] # NULL /\ lookup_page(p, v) # NULL
  /\ Change(p, v, [lookup_page(p, v) EXCEPT !.D = dirty])
  /\ IF dirty THEN UNCHANGED tlb ELSE invalidate_pagedir(p)
  /\ UNCHANGED <<pd, active, free, given>>

SetAccessedUnflushed(p, v, accessed) ==
  /\ pd[p] # NULL /\ lookup_page(p, v) # NULL
  /\ Change(p, v, [lookup_page(p, v) EXCEPT !.A = accessed])
  /\ UNCHANGED <<pd, active, tlb, free, given>>
pagedir_set_accessed(p, v, accessed) ==
  /\ pd[p] # NULL /\ lookup_page(p, v) # NULL
  /\ Change(p, v, [lookup_page(p, v) EXCEPT !.A = accessed])
  /\ IF accessed THEN UNCHANGED tlb ELSE invalidate_pagedir(p)
  /\ UNCHANGED <<pd, active, free, given>>

pagedir_activate(p) ==
  /\ IF p = NULL THEN TRUE ELSE pd[p] # NULL
  /\ active' = p /\ tlb' = Flushed /\ UNCHANGED <<pd, pt, free, given>>

(* pagedir_destroy, of a directory that process_exit no longer uses. *)
pagedir_destroy(p) ==
  LET tables == {pd[p].table[d] : d \in 0 .. UserDirs - 1} \ {NULL}
      frames == {e.frame : e \in {x \in {pt[k][i] : k \in tables, i \in 0 .. Entries - 1} : x.P}}
  IN /\ pd[p] # NULL /\ active # p
     /\ given' = given \ frames /\ free' = free \cup tables \cup {pd[p].page}
     /\ pt' = [k \in Pool |-> IF k \in tables THEN NULL ELSE pt[k]]
     /\ pd' = [pd EXCEPT ![p] = NULL] /\ UNCHANGED <<active, tlb>>

(* The processor reads or writes a page in user mode (external): through   *)
(* the buffer when the page is there, otherwise through the tables.  The   *)
(* first write through an entry sets its dirty bit in the tables.          *)
Access(v, write) ==
  LET e == IF tlb[v] # NULL THEN tlb[v] ELSE Walk(active, v)
      used == [e EXCEPT !.A = TRUE, !.D = @ \/ write]
  IN /\ e.P /\ e.U /\ (write => e.W)
     /\ tlb' = [tlb EXCEPT ![v] = used]
     /\ IF tlb[v] = NULL \/ used.D # e.D
        THEN Change(active, v, [Walk(active, v) EXCEPT !.A = @ \/ tlb[v] = NULL, !.D = @ \/ write])
        ELSE UNCHANGED pt
     /\ UNCHANGED <<pd, active, free, given>>

Next ==
  \/ \E p \in Proc :
       \/ pagedir_create(p) \/ pagedir_activate(p) \/ pagedir_destroy(p)
       \/ \E v \in UserPage : \/ \E f \in Frame, w \in BOOLEAN : pagedir_set_page(p, v, f, w)
                              \/ pagedir_clear_page(p, v)
                              \/ \E b \in BOOLEAN : pagedir_set_dirty(p, v, b) \/ pagedir_set_accessed(p, v, b)
  \/ pagedir_activate(NULL)
  \/ \E v \in UserPage, write \in BOOLEAN : active # NULL /\ Access(v, write)

Spec == Init /\ [][Next]_vars

-----------------------------------------------------------------------------
(* Properties. *)

(* invalidate_pagedir is called wherever it must be: what the processor    *)
(* keeps is what the tables say, so that a page that was cleared faults, a *)
(* frame that was taken back is out of reach, and the next access to a     *)
(* page whose accessed or dirty bit was cleared sets it again.             *)
TlbCoherent ==
  \A v \in DOMAIN tlb : tlb[v] # NULL =>
    LET e == Walk(active, v)
    IN e.P /\ e.frame = tlb[v].frame /\ e.W = tlb[v].W /\ e.A /\ (tlb[v].D => e.D)

(* Every page of the pool is free or used by one directory, once, and      *)
(* every frame in use is mapped exactly once: neither a failed allocation  *)
(* nor pagedir_destroy loses or frees twice a page, and pagedir_destroy    *)
(* spares the frames of pages that were cleared.                           *)
PagesAccounted ==
  LET live == {p \in Proc : pd[p] # NULL}
      tables(p) == {d \in 0 .. UserDirs - 1 : pd[p].table[d] # NULL}
      owners(k) == {p \in live : pd[p].page = k}
                     \cup UNION {{<<p, d>> : d \in {x \in tables(p) : pd[p].table[x] = k}} : p \in live}
      mapped(f) == {<<p, v>> \in live \X UserPage : Walk(p, v).P /\ Walk(p, v).frame = f}
  IN /\ \A k \in Pool : Cardinality(owners(k)) = IF k \in free THEN 0 ELSE 1
     /\ \A f \in Frame : Cardinality(mapped(f)) = IF f \in given THEN 1 ELSE 0
     /\ active # NULL => active \in live
=============================================================================
