------------------------------ MODULE FileSystem ------------------------------
(***************************************************************************)
(* The file system and the file descriptors of user processes:             *)
(* filesys/{filesys,free-map,directory,inode,file}.c and the file calls of *)
(* userprog/syscall.c.  No lock protects any of it.                        *)
(*                                                                         *)
(* A step is one write of the disk, where the calling process waits for    *)
(* the device and the power may go off, with what the call does in memory  *)
(* before its next write.  Calls that return early without changing        *)
(* anything are stuttering steps.                                          *)
(*                                                                         *)
(* The free map and the root directory fit in one data sector each.  Their *)
(* own inodes, which every call opens and closes again, are left out, and  *)
(* so is memory exhaustion (malloc and calloc succeed).                    *)
(***************************************************************************)
EXTENDS Integers, Sequences, FiniteSets, SequencesExt, FiniteSetsExt

CONSTANTS
  Proc,
  Name,
  BadName,             \* names that are empty or longer than NAME_MAX
  Program,             \* the names of the files that hold programs
  Length,              \* the sizes that create is called with
  Byte,                \* 0 and what processes write
  Garbage,             \* what the disk held before it was formatted
  BLOCK_SECTOR_SIZE,
  SectorCnt,           \* block_size (fs_device)
  EntryCnt,            \* the entries of the root directory, 16
  FdCnt,               \* the bits of file_bitmap, 64
  Size, Position,      \* the sizes of reads and writes, and where seek goes
  MaxFiles, MaxLoads,  \* bounds on the open files of a process and on loads
  NULL

ASSUME ConstantsAssumption ==
  /\ BadName \cap Name = {} /\ Program \subseteq Name /\ NULL \notin Name \cup BadName
  /\ Length \cup Size \cup Position \subseteq Nat /\ {0, Garbage} \subseteq Byte
  /\ {BLOCK_SECTOR_SIZE, EntryCnt, MaxFiles, MaxLoads} \subseteq Nat \ {0}
  /\ SectorCnt \in Nat /\ SectorCnt > 4 /\ FdCnt \in Nat /\ FdCnt > 2

VARIABLES
  disk,          \* the contents of the sectors that files use
  disk_map,      \* the sectors that the free map on disk marks
  root,          \* the entries of the root directory, NULL when not in_use
  free_map,      \* the sectors that the free map in memory marks
  inodes,        \* open_inodes: struct inode by its sector, NULL when not open
  file_list,     \* struct thread's: the open files of a process
  file_bitmap,   \* struct thread's: the descriptors from 2 on that are in use,
                 \* NULL before the first open or close
  running,       \* the names of the threads that run programs
  loads,         \* how many files load has left open, by sector
  call,          \* the call that a process is in the middle of
  lost           \* history: sectors marked in the free map that nothing refers to

volatile == <<free_map, inodes, file_list, file_bitmap, running, loads>>
vars == <<disk, disk_map, root, volatile, call, lost>>

(* FREE_MAP_SECTOR, ROOT_DIR_SECTOR and the data sector of each. *)
Reserved == 0 .. 3
Sector == 0 .. SectorCnt - 1
BITMAP_ERROR == SectorCnt

bytes_to_sectors(size) == (size + BLOCK_SECTOR_SIZE - 1) \div BLOCK_SECTOR_SIZE
zeros == [i \in 1 .. BLOCK_SECTOR_SIZE |-> 0]
Extent(start, cnt) == start .. start + cnt - 1
DataOf(d) == Extent(d.start, bytes_to_sectors(d.length))

(* What a sector holds: an inode, or the bytes of a file. *)
InodeDisk == [start : Sector, length : Length]
InodeSector(d) == [inode |-> d, bytes |-> zeros]
ByteSector(bs) == [inode |-> NULL, bytes |-> bs]

TypeOK ==
  /\ \A s \in Sector \ Reserved :
       /\ disk[s].inode # NULL => disk[s].inode \in InodeDisk
       /\ disk[s].bytes \in [1 .. BLOCK_SECTOR_SIZE -> Byte]
  /\ disk_map \in SUBSET Sector /\ free_map \in SUBSET Sector /\ lost \in SUBSET Sector
  /\ \A i \in 1 .. EntryCnt : root[i] # NULL => root[i] \in [inode_sector : Sector, name : Name]
  /\ \A s \in Sector \ Reserved : inodes[s] # NULL =>
       inodes[s] \in [open_cnt : Nat \ {0}, deny_write_cnt : Nat,
                      removed : BOOLEAN, data : InodeDisk]
  /\ \A p \in Proc : file_list[p] \in Seq([fd : -1 .. FdCnt - 1, inode : Sector,
                                          pos : Nat, deny_write : BOOLEAN])
  /\ \A p \in Proc : file_bitmap[p] \in SUBSET (2 .. FdCnt - 1) \cup {NULL}
  /\ running \subseteq Program
  /\ loads \in [Sector \ Reserved -> 0 .. MaxLoads]

At(p, l) == call[p].pc = l /\ \A q \in Proc : call[q].pc # "panic"
Begin(p, c) == call' = [call EXCEPT ![p] = c]
Idle == [pc |-> "idle"]

-----------------------------------------------------------------------------
(* The free map *)

bitmap_scan(used, cnt) ==
  LET groups == {i \in 0 .. SectorCnt - cnt : Extent(i, cnt) \cap used = {}}
  IN  IF groups = {} THEN BITMAP_ERROR ELSE Min(groups)

free_map_allocate(sector, cnt) ==
  /\ free_map' = free_map \cup Extent(sector, cnt)
  /\ disk_map' = free_map'

free_map_release(sector, cnt) ==
  /\ free_map' = free_map \ Extent(sector, cnt)
  /\ disk_map' = free_map'

(* What the free map marks when the file system has been formatted: the    *)
(* two inodes, then the data sector that inode_create takes for each.      *)
free_map_init == {0, 1}
free_map_create(used) == used \cup {bitmap_scan(used, 1)}
dir_create(used) == used \cup {bitmap_scan(used, 1)}
do_format == dir_create(free_map_create(free_map_init))

(* free_map_open reads the free map that the last run of the system left. *)
free_map_open == disk_map

-----------------------------------------------------------------------------
(* Inodes and directory entries *)

inode_open(s) ==
  IF inodes[s] # NULL
  THEN [inodes EXCEPT ![s].open_cnt = @ + 1]
  ELSE [inodes EXCEPT ![s] = [open_cnt |-> 1, deny_write_cnt |-> 0,
                              removed |-> FALSE, data |-> disk[s].inode]]

inode_remove(ino) == [ino EXCEPT !.removed = TRUE]
inode_deny_write(ino) == [ino EXCEPT !.deny_write_cnt = @ + 1]
inode_allow_write(ino) == [ino EXCEPT !.deny_write_cnt = @ - 1]

(* The slot that lookup finds, 0 when it returns false. *)
lookup(n) ==
  LET found == {i \in 1 .. EntryCnt : root[i] # NULL /\ root[i].name = n}
  IN  IF found = {} THEN 0 ELSE Min(found)

(* The sector of the inode that dir_lookup opens, NULL when it returns     *)
(* false.                                                                  *)
dir_lookup(n) ==
  LET slot == lookup(n) IN IF slot = 0 THEN NULL ELSE root[slot].inode_sector

(* The slot of the entry that dir_readdir gives after the first pos, NULL  *)
(* when there is none, and the names that fsutil_ls lists with it.         *)
dir_readdir(pos) ==
  LET used == {i \in pos + 1 .. EntryCnt : root[i] # NULL}
  IN  IF used = {} THEN NULL ELSE Min(used)
fsutil_ls ==
  LET from[pos \in 0 .. EntryCnt] ==
        IF dir_readdir(pos) = NULL THEN <<>>
        ELSE <<root[dir_readdir(pos)].name>> \o from[dir_readdir(pos)]
  IN  from[0]

chunk_size_short(d, size, ofs) ==
  Min({size, d.length - 1 - ofs, BLOCK_SECTOR_SIZE - (ofs % BLOCK_SECTOR_SIZE)})

(* byte_to_sector, and the size of the chunk at offset ofs when size bytes *)
(* are left to copy.                                                       *)
byte_to_sector(d, ofs) == d.start + (ofs \div BLOCK_SECTOR_SIZE)
chunk_size(d, size, ofs) ==
  Min({size, d.length - ofs, BLOCK_SECTOR_SIZE - (ofs % BLOCK_SECTOR_SIZE)})

(* The bytes that inode_read_at copies to the caller's buffer. *)
inode_read_at(d, size, offset) ==
  LET read[left \in 0 .. size] ==
        LET ofs == offset + size - left
            chunk == chunk_size(d, left, ofs)
            first == (ofs % BLOCK_SECTOR_SIZE) + 1
        IN  IF left = 0 \/ chunk <= 0 THEN <<>>
            ELSE SubSeq(disk[byte_to_sector(d, ofs)].bytes, first, first + chunk - 1)
                   \o read[left - chunk]
  IN  read[size]

-----------------------------------------------------------------------------
(* filesys_create *)

FilesysCreate(p, n, length) ==
  /\ At(p, "idle")
  /\ LET sector == bitmap_scan(free_map, 1) IN
       /\ sector # BITMAP_ERROR
       /\ free_map_allocate(sector, 1)
       /\ Begin(p, [pc |-> "inode_create", name |-> n, sector |-> sector,
                    data |-> [start |-> 0, length |-> length]])
  /\ UNCHANGED <<disk, root, inodes, file_list, file_bitmap, running, loads, lost>>

(* inode_create: free_map_allocate for the data ... *)
InodeCreateAllocate(p) ==
  /\ At(p, "inode_create")
  /\ LET cnt == bytes_to_sectors(call[p].data.length)
         start == bitmap_scan(free_map, cnt) IN
       IF start = BITMAP_ERROR
       THEN /\ Begin(p, [call[p] EXCEPT !.pc = "undo"])
            /\ UNCHANGED <<free_map, disk_map>>
       ELSE /\ free_map_allocate(start, cnt)
            /\ Begin(p, [call[p] EXCEPT !.pc = "write_inode", !.data.start = start])
  /\ UNCHANGED <<disk, root, inodes, file_list, file_bitmap, running, loads, lost>>

InodeCreateWriteOnly(p) ==
  /\ At(p, "write_inode")
  /\ disk' = [disk EXCEPT ![call[p].sector] = InodeSector(call[p].data)]
  /\ Begin(p, [call[p] EXCEPT !.pc = "dir_add"])
  /\ UNCHANGED <<disk_map, root, volatile, lost>>

(* ... then the write of the inode ... *)
InodeCreateWrite(p) ==
  /\ At(p, "write_inode")
  /\ disk' = [disk EXCEPT ![call[p].sector] = InodeSector(call[p].data)]
  /\ Begin(p, IF DataOf(call[p].data) = {}
              THEN [call[p] EXCEPT !.pc = "dir_add"]
              ELSE [call[p] EXCEPT !.pc = "zero"] @@ [i |-> 0])
  /\ UNCHANGED <<disk_map, root, volatile, lost>>

(* ... and of zeros to each data sector. *)
InodeCreateZero(p) ==
  /\ At(p, "zero")
  /\ disk' = [disk EXCEPT ![call[p].data.start + call[p].i] = ByteSector(zeros)]
  /\ Begin(p, IF call[p].i + 1 < bytes_to_sectors(call[p].data.length)
              THEN [call[p] EXCEPT !.i = @ + 1]
              ELSE [call[p] EXCEPT !.pc = "dir_add"])
  /\ UNCHANGED <<disk_map, root, volatile, lost>>

(* dir_add up to its reading of the directory.  When it refuses, the data  *)
(* sectors stay marked.                                                    *)
DirAddCheck(p) ==
  /\ At(p, "dir_add")
  /\ IF call[p].name \in BadName \/ lookup(call[p].name) # 0
     THEN /\ Begin(p, [call[p] EXCEPT !.pc = "undo"])
          /\ lost' = lost \cup DataOf(call[p].data)
     ELSE /\ Begin(p, [call[p] EXCEPT !.pc = "dir_write"])
          /\ UNCHANGED lost
  /\ UNCHANGED <<disk, disk_map, root, volatile>>

(* dir_add: the first free slot; none left is a write at the end of the    *)
(* file, which writes nothing.                                             *)
DirAddWrite(p) ==
  /\ At(p, "dir_write")
  /\ LET free == {i \in 1 .. EntryCnt : root[i] = NULL} IN
       IF free = {}
       THEN /\ Begin(p, [call[p] EXCEPT !.pc = "undo"])
            /\ lost' = lost \cup DataOf(call[p].data)
            /\ UNCHANGED root
       ELSE /\ root' = [root EXCEPT ![Min(free)] =
                          [inode_sector |-> call[p].sector, name |-> call[p].name]]
            /\ Begin(p, Idle)
            /\ UNCHANGED lost
  /\ UNCHANGED <<disk, disk_map, volatile>>

CreateUndoNot(p) ==
  /\ At(p, "undo")
  /\ Begin(p, Idle)
  /\ UNCHANGED <<disk, disk_map, root, volatile, lost>>

(* filesys_create, when inode_create or dir_add has failed. *)
CreateUndo(p) ==
  /\ At(p, "undo")
  /\ free_map_release(call[p].sector, 1)
  /\ Begin(p, Idle)
  /\ UNCHANGED <<disk, root, inodes, file_list, file_bitmap, running, loads, lost>>

-----------------------------------------------------------------------------
(* inode_close: the caller's last step, except that a removed inode's      *)
(* sectors are still to be released.  next is where the caller goes on.    *)

InodeCloseFrees(p) ==
  /\ At(p, "inode_close")
  /\ LET s == call[p].sector  ino == inodes[s] IN
       /\ ino.open_cnt = 1 /\ ino.removed
       /\ inodes' = [inodes EXCEPT ![s] = NULL]
       /\ free_map_release(s, 1)
       /\ Begin(p, [pc |-> "release", data |-> ino.data, next |-> call[p].next])
  /\ UNCHANGED <<disk, root, file_list, file_bitmap, running, loads, lost>>

InodeCloseKeeps(p) ==
  /\ At(p, "inode_close")
  /\ LET s == call[p].sector  ino == inodes[s] IN
       /\ ino.open_cnt > 1 \/ ~ ino.removed
       /\ inodes' = [inodes EXCEPT ![s] = IF ino.open_cnt > 1
                                          THEN [@ EXCEPT !.open_cnt = @ - 1]
                                          ELSE NULL]
  /\ Begin(p, [pc |-> call[p].next])
  /\ UNCHANGED <<disk, disk_map, root, free_map, file_list, file_bitmap, running,
                 loads, lost>>

InodeCloseRelease(p) ==
  /\ At(p, "release")
  /\ free_map_release(call[p].data.start, bytes_to_sectors(call[p].data.length))
  /\ Begin(p, [pc |-> call[p].next])
  /\ UNCHANGED <<disk, root, inodes, file_list, file_bitmap, running, loads, lost>>

-----------------------------------------------------------------------------
FilesysRemoveNow(p, n) ==
  /\ At(p, "idle")
  /\ LET slot == lookup(n)  s == root[slot].inode_sector IN
       /\ slot # 0
       /\ root' = [root EXCEPT ![slot] = NULL]
       /\ free_map_release(s, 1)
       /\ Begin(p, [pc |-> "release", data |-> disk[s].inode, next |-> "idle"])
  /\ UNCHANGED <<disk, inodes, file_list, file_bitmap, running, loads, lost>>

(* filesys_remove: dir_remove up to the write of the directory; inode_close *)
(* follows.                                                                *)
FilesysRemove(p, n) ==
  /\ At(p, "idle")
  /\ LET s == dir_lookup(n) IN
       /\ s # NULL
       /\ root' = [root EXCEPT ![lookup(n)] = NULL]
       /\ inodes' = [inode_open(s) EXCEPT ![s] = inode_remove(@)]
       /\ Begin(p, [pc |-> "inode_close", sector |-> s, next |-> "idle"])
  /\ UNCHANGED <<disk, disk_map, free_map, file_list, file_bitmap, running, loads, lost>>

-----------------------------------------------------------------------------
(* Open files *)

file_open(s) == [inode |-> s, pos |-> 0, deny_write |-> FALSE]
file_seek(f, new_pos) == [f EXCEPT !.pos = new_pos]
file_read(f, size) ==
  [f EXCEPT !.pos = @ + Len(inode_read_at(inodes[f.inode].data, size, @))]

(* file_write, when inode_write_at has written. *)
file_write(f, bytes_written) == [f EXCEPT !.pos = @ + bytes_written]

(* A file and its inode, after file_deny_write and file_allow_write. *)
file_deny_write(f, ino) ==
  IF f.deny_write THEN <<f, ino>>
  ELSE <<[f EXCEPT !.deny_write = TRUE], inode_deny_write(ino)>>

AllowNot(f, ino) == <<[f EXCEPT !.deny_write = FALSE], ino>>

file_allow_write(f, ino) ==
  IF f.deny_write THEN <<[f EXCEPT !.deny_write = FALSE], inode_allow_write(ino)>>
  ELSE <<f, ino>>

(* filesys_open, of which the caller keeps the inode open. *)
filesys_open(n) == IF dir_lookup(n) = NULL THEN NULL ELSE file_open(dir_lookup(n))

-----------------------------------------------------------------------------
(* File descriptors: struct list_item pairs a descriptor with its file. *)

(* file_bitmap, made by the first open or close. *)
bitmap(p) == IF file_bitmap[p] = NULL THEN {} ELSE file_bitmap[p]

(* The descriptor that open chooses, -1 when all are in use. *)
FreeFd(p) ==
  LET free == (2 .. FdCnt - 1) \ bitmap(p) IN IF free = {} THEN -1 ELSE Min(free)

(* A thread with the name of a file runs the program in it. *)
thread_findname_foreach(n) == n \in running

(* open.  A file that bears the name of a thread is opened with writes     *)
(* denied.                                                                 *)
Open(p, n) ==
  /\ At(p, "idle")
  /\ LET f == filesys_open(n)  s == f.inode  fd == FreeFd(p)
         opened == IF thread_findname_foreach(n)
                   THEN file_deny_write(f, inode_open(s)[s])
                   ELSE <<f, inode_open(s)[s]>> IN
       /\ f # NULL /\ Len(file_list[p]) < MaxFiles
       /\ inodes' = [inodes EXCEPT ![s] = opened[2]]
       /\ file_list' = [file_list EXCEPT ![p] = Append(@, [fd |-> fd] @@ opened[1])]
       /\ file_bitmap' = [file_bitmap EXCEPT ![p] = bitmap(p) \cup ({fd} \ {-1})]
  /\ UNCHANGED <<disk, disk_map, root, free_map, running, loads, call, lost>>

(* The first item of file_list with descriptor fd, 0 when there is none. *)
Item(p, fd) == SelectInSeq(file_list[p], LAMBDA item : item.fd = fd)

(* file_close of the i-th item up to inode_close, where the caller goes on *)
(* to next, and the item's removal from the list.                          *)
file_close(p, i, next) ==
  LET s == file_list[p][i].inode IN
    /\ inodes' = [inodes EXCEPT ![s] = file_allow_write(file_list[p][i], @)[2]]
    /\ file_list' = [file_list EXCEPT ![p] = RemoveAt(@, i)]
    /\ Begin(p, [pc |-> "inode_close", sector |-> s, next |-> next])

(* close of an open file; bitmap_set asserts that the descriptor is not -1. *)
Close(p, fd) ==
  /\ At(p, "idle")
  /\ Item(p, fd) # 0
  /\ file_close(p, Item(p, fd), IF fd = -1 THEN "panic" ELSE "idle")
  /\ file_bitmap' = [file_bitmap EXCEPT ![p] = bitmap(p) \ {fd}]
  /\ UNCHANGED <<disk, disk_map, root, free_map, running, loads, lost>>

(* close of anything else: it makes the bitmap and changes no descriptor   *)
(* from 2 on.                                                              *)
CloseOther(p, fd) ==
  /\ At(p, "idle")
  /\ Item(p, fd) = 0
  /\ file_bitmap' = [file_bitmap EXCEPT ![p] = bitmap(p)]
  /\ UNCHANGED <<disk, disk_map, root, free_map, inodes, file_list, running, loads,
                 call, lost>>

(* read of an open file. *)
Read(p, fd, size) ==
  /\ At(p, "idle")
  /\ Item(p, fd) # 0
  /\ file_list' = [file_list EXCEPT ![p][Item(p, fd)] = file_read(@, size)]
  /\ UNCHANGED <<disk, disk_map, root, free_map, inodes, file_bitmap, running, loads,
                 call, lost>>

(* seek; filesize and tell change nothing.  bitmap_count asserts that the  *)
(* bitmap exists and that the descriptor is one of its bits.               *)
Seek(p, fd, position) ==
  /\ At(p, "idle")
  /\ IF file_bitmap[p] = NULL \/ fd = -1
     THEN /\ Begin(p, [pc |-> "panic"])
          /\ UNCHANGED file_list
     ELSE /\ fd \in file_bitmap[p] /\ Item(p, fd) # 0
          /\ file_list' = [file_list EXCEPT ![p][Item(p, fd)] = file_seek(@, position)]
          /\ UNCHANGED call
  /\ UNCHANGED <<disk, disk_map, root, free_map, inodes, file_bitmap, running, loads,
                 lost>>

WriteUndenied(p, fd, size, b) ==
  /\ At(p, "idle")
  /\ Item(p, fd) # 0
  /\ Begin(p, [pc |-> "write", fd |-> fd, size |-> size, byte |-> b, written |-> 0])
  /\ UNCHANGED <<disk, disk_map, root, volatile, lost>>

(* write of an open file: inode_write_at returns at once when writes are   *)
(* denied ...                                                              *)
Write(p, fd, size, b) ==
  /\ At(p, "idle")
  /\ Item(p, fd) # 0
  /\ inodes[file_list[p][Item(p, fd)].inode].deny_write_cnt = 0
  /\ Begin(p, [pc |-> "write", fd |-> fd, size |-> size, byte |-> b, written |-> 0])
  /\ UNCHANGED <<disk, disk_map, root, volatile, lost>>

(* ... and otherwise writes chunk after chunk; then file_write moves the   *)
(* position.                                                               *)
WriteChunk(p) ==
  /\ At(p, "write")
  /\ LET c == call[p]  i == Item(p, c.fd)  f == file_list[p][i]
         d == inodes[f.inode].data
         ofs == f.pos + c.written
         chunk == chunk_size(d, c.size, ofs)
         first == (ofs % BLOCK_SECTOR_SIZE) + 1 IN
       IF c.size = 0 \/ chunk <= 0
       THEN /\ file_list' = [file_list EXCEPT ![p][i] = file_write(@, c.written)]
            /\ Begin(p, Idle)
            /\ UNCHANGED disk
       ELSE /\ disk' = [disk EXCEPT ![byte_to_sector(d, ofs)].bytes =
                          [k \in DOMAIN @ |-> IF k \in Extent(first, chunk)
                                              THEN c.byte ELSE @[k]]]
            /\ Begin(p, [c EXCEPT !.size = @ - chunk, !.written = @ + chunk])
            /\ UNCHANGED file_list
  /\ UNCHANGED <<disk_map, root, free_map, inodes, file_bitmap, running, loads, lost>>

(* process_exit: file_close of every open file, the first one first. *)
Exit(p) ==
  /\ At(p, "idle") \/ At(p, "exit")
  /\ IF file_list[p] = <<>>
     THEN /\ file_bitmap' = [file_bitmap EXCEPT ![p] = NULL]
          /\ Begin(p, Idle)
          /\ UNCHANGED <<inodes, file_list>>
     ELSE /\ file_close(p, 1, "exit")
          /\ UNCHANGED file_bitmap
  /\ UNCHANGED <<disk, disk_map, root, free_map, running, loads, lost>>

-----------------------------------------------------------------------------
(* Other programs, and the power *)

(* load names the thread after the file and opens it; nothing closes it    *)
(* again.  One thread of each name runs at a time.                         *)
Load(p, n) ==
  /\ At(p, "idle")
  /\ n \notin running
  /\ running' = running \cup {n}
  /\ LET f == filesys_open(n) IN
       IF f = NULL
       THEN UNCHANGED <<inodes, loads>>
       ELSE /\ FoldFunction(+, 0, loads) < MaxLoads
            /\ inodes' = inode_open(f.inode)
            /\ loads' = [loads EXCEPT ![f.inode] = @ + 1]
  /\ UNCHANGED <<disk, disk_map, root, free_map, file_list, file_bitmap, call, lost>>

(* The thread of a program ends. *)
ProgramEnds(n) ==
  /\ \A p \in Proc : call[p].pc # "panic"
  /\ n \in running
  /\ running' = running \ {n}
  /\ UNCHANGED <<disk, disk_map, root, free_map, inodes, file_list, file_bitmap, loads,
                 call, lost>>

Sectors(s) == {s} \cup IF disk[s].inode = NULL THEN {} ELSE DataOf(disk[s].inode)
InUse == {i \in 1 .. EntryCnt : root[i] # NULL}
Linked == UNION {Sectors(root[i].inode_sector) : i \in InUse}
OpenInodes == {s \in Sector \ Reserved : inodes[s] # NULL}

(* halt, or the power goes off in the middle of anything; then             *)
(* filesys_init reads the free map from the disk.                          *)
PowerOff ==
  /\ free_map' = free_map_open
  /\ inodes' = [s \in Sector \ Reserved |-> NULL]
  /\ file_list' = [p \in Proc |-> <<>>]
  /\ file_bitmap' = [p \in Proc |-> NULL]
  /\ running' = {}
  /\ loads' = [s \in Sector \ Reserved |-> 0]
  /\ call' = [p \in Proc |-> Idle]
  /\ UNCHANGED <<disk, disk_map, root>>
  /\ lost' = disk_map \ (Reserved \cup Linked)

(* The disk after do_format, which leaves what was in the other sectors. *)
Init ==
  /\ disk = [s \in Sector \ Reserved |->
                ByteSector([i \in 1 .. BLOCK_SECTOR_SIZE |-> Garbage])]
  /\ disk_map = do_format
  /\ root = [i \in 1 .. EntryCnt |-> NULL]
  /\ free_map = do_format
  /\ inodes = [s \in Sector \ Reserved |-> NULL]
  /\ file_list = [p \in Proc |-> <<>>]
  /\ file_bitmap = [p \in Proc |-> NULL]
  /\ running = {}
  /\ loads = [s \in Sector \ Reserved |-> 0]
  /\ call = [p \in Proc |-> Idle]
  /\ lost = {}

Fd == -1 .. FdCnt - 1

Create(p) ==
  \/ \E n \in Name \cup BadName, length \in Length : FilesysCreate(p, n, length)
  \/ InodeCreateAllocate(p) \/ InodeCreateWrite(p) \/ InodeCreateZero(p)
  \/ DirAddCheck(p) \/ DirAddWrite(p) \/ CreateUndo(p)

InodeClose(p) == InodeCloseFrees(p) \/ InodeCloseKeeps(p) \/ InodeCloseRelease(p)

FileCall(p) ==
  \/ \E n \in Name : FilesysRemove(p, n) \/ Open(p, n)
  \/ \E fd \in Fd :
       \/ Close(p, fd) \/ CloseOther(p, fd)
       \/ \E size \in Size :
            Read(p, fd, size) \/ \E b \in Byte \ {0} : Write(p, fd, size, b)
       \/ \E position \in Position : Seek(p, fd, position)
  \/ WriteChunk(p) \/ Exit(p)

Next ==
  \/ \E p \in Proc :
       Create(p) \/ InodeClose(p) \/ FileCall(p) \/ \E n \in Program : Load(p, n)
  \/ \E n \in Program : ProgramEnds(n)
  \/ PowerOff

Spec == Init /\ [][Next]_vars

-----------------------------------------------------------------------------
(* Properties *)

(* At every moment, so that the power may go off: the entries of the       *)
(* directory on disk have different names, lead to inodes whose sectors    *)
(* the free map on disk marks, and share no sector.  It rests on the order *)
(* of the writes of filesys_create and of dir_remove and inode_close.      *)
DiskConsistent ==
  \A i \in InUse :
    LET s == root[i].inode_sector  mine == Sectors(s) IN
      /\ disk[s].inode # NULL
      /\ mine \subseteq disk_map \ Reserved
      /\ \A j \in InUse \ {i} :
           /\ root[j].name # root[i].name
           /\ mine \cap Sectors(root[j].inode_sector) = {}

(* A file that is open when it is removed keeps its blocks: an open inode  *)
(* is the one on disk, its sectors are marked, and no named file and no    *)
(* other open inode has any of them.                                       *)
OpenKeepsBlocks ==
  \A s \in OpenInodes :
    LET mine == Sectors(s)  named == {root[i].inode_sector : i \in InUse} IN
      /\ inodes[s].data = disk[s].inode
      /\ mine \subseteq free_map
      /\ inodes[s].removed = (s \notin named)
      /\ \A t \in (named \cup OpenInodes) \ {s} : mine \cap Sectors(t) = {}

(* The sectors that a call in progress has allocated, or not yet released. *)
Pending ==
  UNION {CASE call[p].pc = "inode_create" -> {call[p].sector}
           [] call[p].pc \in {"write_inode", "zero", "dir_add", "dir_write"} ->
                {call[p].sector} \cup DataOf(call[p].data)
           [] call[p].pc = "undo" -> {call[p].sector}
           [] call[p].pc = "release" -> DataOf(call[p].data)
           [] OTHER -> {} : p \in Proc}

(* The free map marks a sector exactly as long as something refers to it,  *)
(* apart from the data of files that filesys_create could not name and     *)
(* from what was in progress or removed but open when the power went off.  *)
SectorsAccounted ==
  free_map = Reserved \cup Linked \cup Pending \cup lost \cup
             UNION {Sectors(s) : s \in OpenInodes}

(* dir_readdir lists each file once, and the files that lookup finds.      *)
ListingComplete ==
  IsInjective(fsutil_ls) /\ ToSet(fsutil_ls) = {n \in Name : lookup(n) # 0}

(* No crash and no failure leaves the disk with less: the directory on     *)
(* disk is sound and lists its files, and sectors are marked for a reason. *)
DiskSound == DiskConsistent /\ SectorsAccounted /\ ListingComplete

(* The assertions of inode_deny_write and inode_allow_write: open_cnt      *)
(* counts the files that have the inode open, deny_write_cnt those of them *)
(* that deny writes.                                                       *)
OpensCounted ==
  \A s \in Sector \ Reserved :
    LET items == {<<p, i>> \in Proc \X (1 .. MaxFiles) :
                    i \in DOMAIN file_list[p] /\ file_list[p][i].inode = s}
        closing == {p \in Proc : call[p].pc = "inode_close" /\ call[p].sector = s} IN
      IF inodes[s] = NULL
      THEN items = {} /\ loads[s] = 0
      ELSE /\ inodes[s].open_cnt = Cardinality(items) + Cardinality(closing) + loads[s]
           /\ inodes[s].deny_write_cnt =
                Cardinality({x \in items : file_list[x[1]][x[2]].deny_write})

(* file_bitmap and file_list agree: a descriptor is marked exactly when a  *)
(* file has it, and no two open files of a process share one.              *)
FdsAgree ==
  \A p \in Proc : call[p].pc = "idle" =>
    /\ {file_list[p][i].fd : i \in DOMAIN file_list[p]} \ {-1} = bitmap(p)
    /\ \A i, j \in DOMAIN file_list[p] :
         file_list[p][i].fd = file_list[p][j].fd => i = j \/ file_list[p][i].fd = -1

(* What processes, open files and inodes record of each other agrees.      *)
OpenFilesAgree == TypeOK /\ OpensCounted /\ FdsAgree

Contents(d) ==
  [i \in 1 .. d.length |->
     disk[byte_to_sector(d, i - 1)].bytes[((i - 1) % BLOCK_SECTOR_SIZE) + 1]]

(* inode_read_at, which copies sector by sector, gives the bytes from      *)
(* offset on, cut off at the end of the file.                              *)
ReadsContents ==
  \A s \in OpenInodes :
    \A size \in Size, offset \in Position :
      LET d == inodes[s].data IN
        inode_read_at(d, size, offset) =
          SubSeq(Contents(d), offset + 1, Min({offset + size, d.length}))

(* As long as a file that was opened with writes denied stays open, the    *)
(* contents of its inode do not change (file_deny_write).                  *)
DeniedUnwritten ==
  [][\A s \in Sector \ Reserved :
       /\ inodes[s] # NULL /\ inodes[s].deny_write_cnt > 0
       /\ inodes'[s] # NULL /\ inodes'[s].deny_write_cnt > 0
       => Contents(inodes[s].data)' = Contents(inodes[s].data)]_vars

(* The names on the disk and their contents are a FileStore, whatever is   *)
(* open, failing or interrupted.                                           *)
Store == INSTANCE FileStore WITH
  store <- [n \in Name |->
              LET s == dir_lookup(n) IN
                IF s = NULL THEN NULL ELSE Contents(disk[s].inode)]
ImplementsStore == Store!Spec

(* "deny writes to files in use as executables" (doc/userprog.texi:817):   *)
(* while a thread runs the program that load has opened, no write changes  *)
(* the file.                                                               *)
ExecutableUnwritten ==
  [][\A n \in running \cap running' :
       lookup(n) # 0 /\ lookup(n)' = lookup(n) =>
         LET s == root[lookup(n)].inode_sector IN
           loads[s] > 0 => Contents(disk[s].inode)' = Contents(disk[s].inode)]_vars
=============================================================================
