-------------------------------- MODULE Heap --------------------------------
(***************************************************************************)
(* The kernel's memory: the page allocator of threads/palloc.c (its kernel *)
(* pool) and the block allocator of threads/malloc.c on top of it, called  *)
(* by several threads.  palloc_get_multiple holds the pool's lock;         *)
(* palloc_free_multiple clears the bits of the used map one by one and     *)
(* without it.  A block is [page, ofs, len]: where it starts and how many  *)
(* bytes it has.                                                           *)
(***************************************************************************)
EXTENDS Integers, Sequences, FiniteSets, FiniteSetsExt, SequencesExt

CONSTANTS
  Thread,
  PageCnt,     \* pages of the pool
  PGSIZE,      \* bytes of a page, 4096 in the code
  ARENA,       \* sizeof (struct arena), 12 in the code
  MinBlock,    \* the smallest block size, 16 in the code
  Request,     \* sizes that are asked for
  MaxHeld,     \* blocks a thread holds at once
  NONE

VARIABLES
  used,        \* pages whose bit is set in used_map
  arena,       \* arena[p]: the header in page p, [desc, free_cnt], or NONE
  free_list,   \* free_list[d], for the descriptor of block size d
  lock,        \* lock[d]: its holder
  pool_lock,
  held,        \* held[t]: the blocks a thread was given, with their request
  pc           \* pc[t]: where it is in malloc, realloc or free
vars == <<used, arena, free_list, lock, pool_lock, held, pc>>

Page == 0 .. PageCnt - 1

(* malloc_init: the descriptors, known by their block size; 0 stands for   *)
(* the null descriptor of a big block.                                     *)
Desc == {d \in {MinBlock * 2 ^ k : k \in 0 .. 8} : d < PGSIZE \div 2}
blocks_per_arena(d) == (PGSIZE - ARENA) \div d
DescFor(size) == LET fit == {d \in Desc : d >= size} IN IF fit = {} THEN 0 ELSE Min(fit)
PagesFor(size) == (size + ARENA + PGSIZE - 1) \div PGSIZE

arena_to_block(p, d, idx) == [page |-> p, ofs |-> ARENA + idx * d, len |-> d]
BigBlock(p, cnt) == [page |-> p, ofs |-> ARENA, len |-> cnt * PGSIZE - ARENA]
block_to_arena(b) == arena[b.page]
BlocksOf(p, d) == [i \in 1 .. blocks_per_arena(d) |-> arena_to_block(p, d, i - 1)]

Idle == [at |-> "idle"]
Init ==
  /\ used = {} /\ arena = [p \in Page |-> NONE] /\ free_list = [d \in Desc |-> <<>>]
  /\ lock = [d \in Desc |-> NONE] /\ pool_lock = NONE
  /\ held = [t \in Thread |-> {}] /\ pc = [t \in Thread |-> Idle]

At(t, label) == pc[t].at = label
Goto(t, label) == pc' = [pc EXCEPT ![t].at = label]
Unlocked(d) == IF d = 0 THEN lock ELSE [lock EXCEPT ![d] = NONE]

-----------------------------------------------------------------------------
(* malloc; with old # NONE, the malloc that realloc (old, size) calls. *)

malloc(t, size, old) ==
  /\ At(t, "idle") /\ size > 0
  /\ old = NONE => Cardinality(held[t]) < MaxHeld
  /\ pc' = [pc EXCEPT ![t] = [at |-> IF DescFor(size) = 0 THEN "get" ELSE "lock", d |-> DescFor(size),
                              cnt |-> IF DescFor(size) = 0 THEN PagesFor(size) ELSE 1,
                              size |-> size, old |-> old, idx |-> NONE]]
  /\ UNCHANGED <<used, arena, free_list, lock, pool_lock, held>>

LockDesc(t) ==
  /\ At(t, "lock") /\ lock[pc[t].d] = NONE
  /\ lock' = [lock EXCEPT ![pc[t].d] = t]
  /\ Goto(t, IF free_list[pc[t].d] = <<>> THEN "get" ELSE "pop")
  /\ UNCHANGED <<used, arena, free_list, pool_lock, held>>

(* palloc_get_multiple: bitmap_scan_and_flip under the pool's lock. *)
Scan(cnt) ==
  LET fits == {i \in 0 .. PageCnt - cnt : i .. i + cnt - 1 \cap used = {}}
  IN IF fits = {} THEN NONE ELSE Min(fits)
PoolScan(t) ==
  /\ At(t, "get") /\ pool_lock = NONE /\ pool_lock' = t
  /\ pc' = [pc EXCEPT ![t].at = "flip", ![t].idx = Scan(pc[t].cnt)]
  /\ UNCHANGED <<used, arena, free_list, lock, held>>

(* What realloc or the caller of malloc does with the result. *)
Given(t, b) ==
  /\ held' = [held EXCEPT ![t] = IF b = NONE THEN @
                                 ELSE (@ \ {pc[t].old}) \cup {[block |-> b, size |-> pc[t].size]}]
  /\ pc' = [pc EXCEPT ![t] = IF b = NONE \/ pc[t].old = NONE THEN Idle
                             ELSE [at |-> "free", b |-> pc[t].old.block]]

PoolFlip(t) ==
  LET p == pc[t].idx  d == pc[t].d  cnt == pc[t].cnt
  IN /\ At(t, "flip") /\ pool_lock' = NONE
     /\ used' = IF p = NONE THEN used ELSE used \cup (p .. p + cnt - 1)
     /\ \/ /\ p = NONE /\ lock' = Unlocked(d) /\ Given(t, NONE) /\ UNCHANGED <<arena, free_list>>
        \/ /\ p # NONE /\ d = 0
           /\ arena' = [arena EXCEPT ![p] = [desc |-> 0, free_cnt |-> cnt]]
           /\ Given(t, BigBlock(p, cnt)) /\ UNCHANGED <<free_list, lock>>
        \/ /\ p # NONE /\ d # 0
           /\ arena' = [arena EXCEPT ![p] = [desc |-> d, free_cnt |-> blocks_per_arena(d)]]
           /\ free_list' = [free_list EXCEPT ![d] = @ \o BlocksOf(p, d)]
           /\ Goto(t, "pop") /\ UNCHANGED <<lock, held>>

PopBlock(t) ==
  LET d == pc[t].d  b == free_list[d][1]
  IN /\ At(t, "pop")
     /\ free_list' = [free_list EXCEPT ![d] = Tail(@)]
     /\ arena' = [arena EXCEPT ![b.page].free_cnt = @ - 1]
     /\ lock' = Unlocked(d) /\ Given(t, b)
     /\ UNCHANGED <<used, pool_lock>>

-----------------------------------------------------------------------------
(* free, of a block the thread holds or of the old block of realloc. *)

free(t, h) ==
  /\ At(t, "idle") /\ h \in held[t]
  /\ held' = [held EXCEPT ![t] = @ \ {h}]
  /\ pc' = [pc EXCEPT ![t] = [at |-> "free", b |-> h.block]]
  /\ UNCHANGED <<used, arena, free_list, lock, pool_lock>>

(* palloc_free_multiple starts: the pages are overwritten. *)
Unmapping(t, d, p, cnt) ==
  /\ arena' = [arena EXCEPT ![p] = NONE]
  /\ pc' = [pc EXCEPT ![t] = [at |-> "unmap", d |-> d, pages |-> p .. p + cnt - 1]]

FreeBig(t) ==
  LET b == pc[t].b
  IN /\ At(t, "free") /\ block_to_arena(b).desc = 0
     /\ Unmapping(t, 0, b.page, block_to_arena(b).free_cnt)
     /\ UNCHANGED <<used, free_list, lock, pool_lock, held>>

FreeKeepsListed(t) ==
  LET b == pc[t].b  a == block_to_arena(b)  d == a.desc
  IN /\ At(t, "free") /\ d # 0 /\ lock[d] = NONE
     /\ IF a.free_cnt + 1 >= blocks_per_arena(d)
        THEN /\ free_list' = free_list
             /\ lock' = [lock EXCEPT ![d] = t]
             /\ Unmapping(t, d, b.page, 1)
        ELSE /\ free_list' = [free_list EXCEPT ![d] = <<b>> \o @]
             /\ arena' = [arena EXCEPT ![b.page].free_cnt = @ + 1]
             /\ pc' = [pc EXCEPT ![t] = Idle] /\ UNCHANGED lock
     /\ UNCHANGED <<used, pool_lock, held>>
FreeBlock(t) ==
  LET b == pc[t].b  a == block_to_arena(b)  d == a.desc
      list == <<b>> \o free_list[d]
  IN /\ At(t, "free") /\ d # 0 /\ lock[d] = NONE
     /\ IF a.free_cnt + 1 >= blocks_per_arena(d)
        THEN /\ free_list' = [free_list EXCEPT ![d] = SelectSeq(list, LAMBDA x : x.page # b.page)]
             /\ lock' = [lock EXCEPT ![d] = t]
             /\ Unmapping(t, d, b.page, 1)
        ELSE /\ free_list' = [free_list EXCEPT ![d] = list]
             /\ arena' = [arena EXCEPT ![b.page].free_cnt = @ + 1]
             /\ pc' = [pc EXCEPT ![t] = Idle] /\ UNCHANGED lock
     /\ UNCHANGED <<used, pool_lock, held>>

(* One bit of bitmap_set_multiple. *)
ClearBit(t) ==
  LET p == Min(pc[t].pages)
  IN /\ At(t, "unmap") /\ used' = used \ {p}
     /\ IF pc[t].pages = {p}
        THEN pc' = [pc EXCEPT ![t] = Idle] /\ lock' = Unlocked(pc[t].d)
        ELSE pc' = [pc EXCEPT ![t].pages = @ \ {p}] /\ UNCHANGED lock
     /\ UNCHANGED <<arena, free_list, pool_lock, held>>

(* realloc to a size above 0; to 0 it is free. *)
realloc(t, h, size) == h \in held[t] /\ malloc(t, size, h)

Next ==
  \E t \in Thread :
    \/ \E size \in Request : malloc(t, size, NONE)
    \/ \E h \in held[t], size \in Request : realloc(t, h, size)
    \/ LockDesc(t) \/ PoolScan(t) \/ PoolFlip(t) \/ PopBlock(t)
    \/ \E h \in held[t] : free(t, h)
    \/ FreeBig(t) \/ FreeBlock(t) \/ ClearBit(t)

Spec == Init /\ [][Next]_vars

-----------------------------------------------------------------------------
(* Properties. *)

Bytes(b) == b.page * PGSIZE + b.ofs .. b.page * PGSIZE + b.ofs + b.len - 1
PagesOf(b) == b.page .. (b.page * PGSIZE + b.ofs + b.len - 1) \div PGSIZE
Header(p) == p * PGSIZE .. p * PGSIZE + ARENA - 1

(* The blocks in use: held by a thread, or on their way to free. *)
Live == UNION {{h.block : h \in held[t]} : t \in Thread} \cup {pc[t].b : t \in {u \in Thread : At(u, "free")}}
Listed == UNION {ToSet(free_list[d]) : d \in Desc}

(* However malloc, realloc and free of several threads interleave, no byte *)
(* belongs to two blocks or to a block and an arena header, every block is *)
(* as long as was asked and lies in pages marked used, and a block in use  *)
(* is on no free list.                                                     *)
BlocksDisjoint ==
  /\ \A b \in Live \cup Listed :
       /\ \A c \in Live \cup Listed : b # c => Bytes(b) \cap Bytes(c) = {}
       /\ \A p \in Page : arena[p] # NONE => Bytes(b) \cap Header(p) = {}
       /\ PagesOf(b) \subseteq used
  /\ Live \cap Listed = {}
  /\ \A t, u \in Thread : t # u => {h.block : h \in held[t]} \cap {h.block : h \in held[u]} = {}
  /\ \A t \in Thread : \A h \in held[t] : h.block.len >= h.size

(* No page is lost: an arena's free_cnt counts its blocks on the free list *)
(* when its lock is free, and a page that no thread is taking or giving    *)
(* back is used exactly when a block in use lies in it.                    *)
NoPageLost ==
  LET moving == UNION {IF At(t, "unmap") THEN pc[t].pages
                       ELSE IF At(t, "flip") /\ pc[t].idx # NONE
                            THEN pc[t].idx .. pc[t].idx + pc[t].cnt - 1 ELSE {} : t \in Thread}
      fresh == {p \in Page : arena[p] # NONE /\ arena[p].desc # 0 /\ lock[arena[p].desc] # NONE}
  IN /\ \A p \in Page \ moving : arena[p] # NONE /\ arena[p].desc # 0 /\ p \notin fresh =>
          arena[p].free_cnt = Cardinality({b \in Listed : b.page = p})
     /\ \A p \in Page \ (moving \cup fresh) : p \in used <=> \E b \in Live : p \in PagesOf(b)
=============================================================================
