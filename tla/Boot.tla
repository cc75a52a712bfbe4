-------------------------------- MODULE Boot --------------------------------
(***************************************************************************)
(* What is decided once, while the machine starts: which kernel the loader *)
(* of threads/loader.S reads, what devices/partition.c and devices/block.c *)
(* register, which device gets which role and what the command line makes  *)
(* threads/init.c do.                                                      *)
(*                                                                         *)
(* A disk is [name, size, tables]: tables[s] is the partition table in     *)
(* sector s, [signature, parts], and a part is [bootable, type, offset,    *)
(* size].  Types are the names of the numbers in the code.                 *)
(***************************************************************************)
EXTENDS Integers, Sequences, SequencesExt, Strings

CONSTANTS
  SectorNumbers,   \* 2^32 in the code: sector numbers wrap
  LowNumbers,      \* 2^16 in the code: the loader increments a half of one
  MaxKernel,       \* sectors of the largest kernel, 1024 in the code
  StackDepth,      \* nested calls of read_partition_table the stack holds
  NONE

-----------------------------------------------------------------------------
(* loader.S *)

(* read_mbr, check_partition, next_partition, next_drive: the first        *)
(* bootable kernel partition; a drive that cannot be read ends the search. *)
Bootable(e) == e.bootable /\ e.type = "kernel"
RECURSIVE read_mbr(_, _)
read_mbr(drives, dl) ==
  IF dl > Len(drives) THEN NONE
  ELSE LET table == drives[dl].tables[0]
           hits == SelectSeq(table.parts, Bootable)
       IN IF table.signature /\ hits # <<>> THEN <<dl, hits[1]>> ELSE read_mbr(drives, dl + 1)

(* load_kernel: the sectors it reads, in order, up to one that cannot be   *)
(* read.  "inc %bx" leaves the high half of the sector number alone.       *)
load_kernel(disk, e) ==
  LET cnt == IF e.size <= MaxKernel THEN e.size ELSE MaxKernel
      sector(i) == (e.offset \div LowNumbers) * LowNumbers + ((e.offset + i) % LowNumbers)
      bad == {i \in 0 .. cnt - 1 : sector(i) >= disk.size}
  IN IF bad = {} THEN [i \in 1 .. cnt |-> sector(i - 1)] ELSE NONE

-----------------------------------------------------------------------------
(* start.S and paging_init *)

(* init_ram_pages, for so many kB of memory above the first 1024.          *)
init_ram_pages(kb) == LET total == kb + 1024 IN (IF total <= 65536 THEN total ELSE 65536) \div 4

(* The temporary page tables: so many directory entries at 0 and again at  *)
(* base, of tables of n entries that follow each other in memory; only     *)
(* ptes table entries are filled in.  The frame that page v is mapped to.  *)
StartFrame(v, pdes, ptes, n, base) ==
  LET d == v \div n
      table == IF d < pdes THEN d ELSE IF d >= base /\ d < base + pdes THEN d - base ELSE -1
      entry == table * n + (v % n)
  IN IF table >= 0 /\ entry < ptes THEN entry ELSE NONE

(* paging_init: the tables that replace them, for ram pages of memory and  *)
(* the virtual pages of the kernel's text.  A table is named by the entry  *)
(* of the directory pd it was allocated for; pt is the last one.           *)
paging_init(ram, text, n, base) ==
  LET map(x, page) ==
        LET v == base + page
            pt == IF v \div n \in x.pd THEN x.pt ELSE v \div n
        IN [pd |-> x.pd \cup {v \div n}, pt |-> pt,
            entries |-> [e \in DOMAIN x.entries \cup {<<pt, v % n>>} |->
                           IF e = <<pt, v % n>> THEN [frame |-> page, writable |-> v \notin text]
                           ELSE x.entries[e]]]
  IN FoldLeft(map, [pd |-> {}, pt |-> NONE, entries |-> <<>>], [i \in 1 .. ram |-> i - 1])

-----------------------------------------------------------------------------
(* palloc.c, with addresses counted in pages.  The bitmap of a pool, with  *)
(* a header of 8 bytes, lies in its first pages.                           *)

bitmap_buf_size(bits) == 8 + 4 * ((bits + 31) \div 32)
init_pool(base, page_cnt) ==
  LET bm_pages == (bitmap_buf_size(page_cnt) + 4095) \div 4096
  IN IF bm_pages > page_cnt THEN NONE
     ELSE [used_map |-> base, base |-> base + bm_pages, cnt |-> page_cnt - bm_pages]

(* palloc_init, for ram pages of memory of which the first 256 are not     *)
(* free: the kernel's pool and the user pool, or a panic when one has no    *)
(* room for its bitmap.                                                    *)
palloc_init(ram, user_page_limit) ==
  LET free_pages == ram - 256
      half == free_pages \div 2
      user_pages == IF half > user_page_limit THEN user_page_limit ELSE half
      kernel_pages == free_pages - user_pages
      kernel_pool == init_pool(256, kernel_pages)
      user_pool == init_pool(256 + kernel_pages, user_pages)
  IN IF NONE \in {kernel_pool, user_pool} THEN NONE ELSE [kernel |-> kernel_pool, user |-> user_pool]

page_from_pool(pool, page) == page >= pool.base /\ page < pool.base + pool.cnt

-----------------------------------------------------------------------------
(* partition.c and block.c: a block device is [name, type, size, start].   *)

block_register(blocks, name, type, size, start) ==
  Append(blocks, [name |-> name, type |-> type, size |-> size, start |-> start])

FoundNoWrap(blocks, disk, type, start, size, part_nr) ==
  IF start >= disk.size \/ (start + size) % SectorNumbers > disk.size THEN blocks
  ELSE block_register(blocks, <<disk.name, part_nr>>, type, size, start)
found_partition(blocks, disk, type, start, size, part_nr) ==
  LET end == (start + size) % SectorNumbers
  IN IF start >= disk.size \/ end < start \/ end > disk.size THEN blocks
     ELSE block_register(blocks, <<disk.name, part_nr>>,
                         IF type \in {"kernel", "filesys", "scratch", "swap"} THEN type ELSE "foreign",
                         size, start)

(* x is [blocks, part_nr, overflow].  The table is read from sector 0,     *)
(* whatever the sector that was asked for.                                 *)
RECURSIVE read_partition_table(_, _, _, _, _)
read_partition_table(x, disk, sector, primary, depth) ==
  LET entry(y, e) ==
        IF y.overflow \/ e.size = 0 \/ e.type = "unused" THEN y
        ELSE IF e.type = "extended"
        THEN IF sector = 0 THEN read_partition_table(y, disk, e.offset, e.offset, depth + 1)
             ELSE read_partition_table(y, disk, (e.offset + primary) % SectorNumbers, primary, depth + 1)
        ELSE [y EXCEPT !.part_nr = @ + 1,
                       !.blocks = found_partition(@, disk, e.type, (e.offset + sector) % SectorNumbers,
                                                  e.size, y.part_nr + 1)]
  IN IF sector >= disk.size THEN x
     ELSE IF depth > StackDepth THEN [x EXCEPT !.overflow = TRUE]
     ELSE IF ~disk.tables[0].signature THEN x
     ELSE FoldLeft(entry, x, disk.tables[0].parts)

partition_scan(x, disk) == read_partition_table([x EXCEPT !.part_nr = 0], disk, 0, 0, 1)

(* identify_ata_device, once a disk has answered. *)
Identified(x, disk) ==
  partition_scan([x EXCEPT !.blocks = block_register(@, <<disk.name>>, "raw", disk.size, 0)], disk)

(* Every disk of the machine, in probe order. *)
Probe(disks) == FoldLeft(Identified, [blocks |-> <<>>, part_nr |-> 0, overflow |-> FALSE], disks)

block_get_by_name(blocks, name) ==
  LET same == SelectSeq(blocks, LAMBDA b : b.name = name)
  IN IF same = <<>> THEN NONE ELSE same[1]

locate_block_device(blocks, role, name) ==
  IF name # NONE
  THEN IF block_get_by_name(blocks, name) = NONE THEN "panic" ELSE block_get_by_name(blocks, name)
  ELSE LET typed == SelectSeq(blocks, LAMBDA b : b.type = role)
       IN IF typed = <<>> THEN NONE ELSE typed[1]

(* partition_read and partition_write: the sector of the disk. *)
PartitionSector(block, sector) == block.start + sector

-----------------------------------------------------------------------------
(* init.c *)

(* read_command_line: the addresses of the words, in the bytes of m from   *)
(* LOADER_ARGS up to end, and whether it panicked.                         *)
read_command_line(m, start, end, argc) ==
  LET word(x, i) == IF x.p >= end THEN [x EXCEPT !.panic = TRUE]
                    ELSE [x EXCEPT !.argv = Append(@, x.p), !.p = @ + strnlen(m, x.p, end - x.p) + 1]
  IN FoldLeft(word, [argv |-> <<>>, p |-> start, panic |-> FALSE], Upto(argc))

(* A word of the command line is [name, value], value = NONE for one       *)
(* without "=".  parse_options: the settings, and the words after the      *)
(* options.                                                                *)
Defaults == [format |-> FALSE, filesys |-> NONE, scratch |-> NONE, swap |-> NONE, seed |-> NONE,
             mlfqs |-> FALSE, ul |-> NONE, down |-> NONE, state |-> "ok"]
IsOption(word) ==
  word.name \in {"-h", "-q", "-r", "-f", "-filesys", "-scratch", "-swap", "-rs", "-mlfqs", "-ul", "-?"}

(* usage: the help, and the machine is switched off.                       *)
usage(s) == [s EXCEPT !.state = "power_off"]

Apply(s, word) ==
  IF s.state # "ok" THEN s
  ELSE CASE word.name = "-h" -> usage(s)
         [] word.name = "-q" -> [s EXCEPT !.down = "power_off"]
         [] word.name = "-r" -> [s EXCEPT !.down = "reboot"]
         [] word.name = "-f" -> [s EXCEPT !.format = TRUE]
         [] word.name = "-filesys" -> [s EXCEPT !.filesys = word.value]
         [] word.name = "-scratch" -> [s EXCEPT !.scratch = word.value]
         [] word.name = "-swap" -> [s EXCEPT !.swap = word.value]
         [] word.name = "-mlfqs" -> [s EXCEPT !.mlfqs = TRUE]
         [] word.name \in {"-rs", "-ul"} /\ word.value = NONE -> [s EXCEPT !.state = "panic"]
         [] word.name = "-rs" /\ word.value # NONE ->
              [s EXCEPT !.seed = IF @ = NONE THEN word.value ELSE @]
         [] word.name = "-ul" /\ word.value # NONE -> [s EXCEPT !.ul = word.value]
         [] OTHER -> [s EXCEPT !.state = "panic"]

parse_options(argv) ==
  LET n == IF \E i \in DOMAIN argv : ~IsOption(argv[i])
           THEN (CHOOSE i \in DOMAIN argv : ~IsOption(argv[i]) /\ \A j \in 1 .. i - 1 : IsOption(argv[j])) - 1
           ELSE Len(argv)
      s == FoldLeft(Apply, Defaults, SubSeq(argv, 1, n))
  IN <<IF s.state = "ok" /\ s.seed = NONE THEN [s EXCEPT !.seed = "rtc"] ELSE s,
       SubSeq(argv, n + 1, Len(argv))>>

(* run_actions: the actions invoked with their words, in order, and        *)
(* whether it ended in a panic.                                            *)
Argc == [run |-> 2, ls |-> 1, cat |-> 2, rm |-> 2, extract |-> 1, append |-> 2]
RECURSIVE run_actions(_)
run_actions(argv) ==
  IF argv = <<>> THEN [done |-> <<>>, panic |-> FALSE]
  ELSE IF argv[1].name \notin DOMAIN Argc THEN [done |-> <<>>, panic |-> TRUE]
  ELSE IF Argc[argv[1].name] > Len(argv) THEN [done |-> <<>>, panic |-> TRUE]
  ELSE LET n == Argc[argv[1].name]
           rest == run_actions(SubSeq(argv, n + 1, Len(argv)))
       IN [rest EXCEPT !.done = <<SubSeq(argv, 1, n)>> \o @]

(* main: what it calls, in order, each with the calls whose results its    *)
(* code uses: memory, registered handlers, running interrupts, devices.    *)
main ==
  <<[call |-> "bss_init", uses |-> {}],
    [call |-> "read_command_line", uses |-> {"bss_init"}],
    [call |-> "parse_options", uses |-> {"read_command_line"}],
    [call |-> "thread_init", uses |-> {"bss_init"}],
    [call |-> "console_init", uses |-> {"thread_init"}],
    [call |-> "palloc_init", uses |-> {"parse_options"}],
    [call |-> "malloc_init", uses |-> {"bss_init"}],
    [call |-> "paging_init", uses |-> {"palloc_init"}],
    [call |-> "frame_init", uses |-> {"malloc_init", "palloc_init"}],
    [call |-> "tss_init", uses |-> {"palloc_init"}],
    [call |-> "gdt_init", uses |-> {"tss_init"}],
    [call |-> "intr_init", uses |-> {"gdt_init"}],
    [call |-> "timer_init", uses |-> {"intr_init"}],
    [call |-> "kbd_init", uses |-> {"intr_init"}],
    [call |-> "input_init", uses |-> {"bss_init"}],
    [call |-> "exception_init", uses |-> {"intr_init"}],
    [call |-> "syscall_init", uses |-> {"intr_init"}],
    [call |-> "thread_start", uses |-> {"thread_init", "palloc_init", "timer_init", "kbd_init", "input_init"}],
    [call |-> "serial_init_queue", uses |-> {"intr_init"}],
    [call |-> "timer_calibrate", uses |-> {"timer_init", "thread_start"}],
    [call |-> "ide_init", uses |-> {"malloc_init", "thread_start"}],
    [call |-> "locate_block_devices", uses |-> {"parse_options", "ide_init"}],
    [call |-> "filesys_init", uses |-> {"parse_options", "locate_block_devices"}],
    [call |-> "swap_init", uses |-> {"malloc_init", "locate_block_devices"}],
    [call |-> "run_actions", uses |-> {"filesys_init", "swap_init", "frame_init", "syscall_init",
                                       "exception_init", "console_init", "paging_init"}],
    [call |-> "shutdown", uses |-> {"run_actions"}]>>
=============================================================================
