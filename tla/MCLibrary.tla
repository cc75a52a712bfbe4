----------------------------- MODULE MCLibrary ------------------------------
(***************************************************************************)
(* The sequential algorithms of the kernel and its library against what    *)
(* they should compute.  A behaviour picks a task, one call or a family of *)
(* calls with its arguments, and answers it with the operators that model  *)
(* the code; the invariants compare the answer with a definition that does *)
(* not look at the code.  The lists and hash tables of lib/kernel keep     *)
(* state between calls and run as the tasks "list" and "hash".             *)
(***************************************************************************)
EXTENDS Integers, Sequences, SequencesExt, FiniteSets, FiniteSetsExt, Functions, TLC

CONSTANTS Elem, NONE

VARIABLES task, answer,
          links, key, returned, call,           \* of LinkedList
          buckets, elem_cnt, old                \* of HashTable

listVars == <<links, key, returned, call>>
hashVars == <<buckets, elem_cnt, old>>
vars == <<task, answer, listVars, hashVars>>

Num == INSTANCE Arithmetic WITH W <- 4
Fix == INSTANCE FixedPoint WITH F <- 4
Str == INSTANCE Strings
Std == INSTANCE Stdlib
Bit == INSTANCE Bitmap WITH ELEM_BITS <- 3
Fmt == INSTANCE Format WITH Bits <- [CHAR |-> 4, SHORT |-> 5, INT |-> 7, LONGLONG |-> 9], BUF_SIZE <- 6
Tar == INSTANCE Ustar WITH NAME_SIZE <- 6, SIZE_SIZE <- 3, CHKSUM_SIZE <- 5, ULONG_MAX <- 4095, INT_MAX <- 50
Bot == INSTANCE Boot WITH SectorNumbers <- 16, LowNumbers <- 4, MaxKernel <- 3, StackDepth <- 3
Hw == INSTANCE Hardware
Trm == INSTANCE Terminal WITH ROW_CNT <- 2, COL_CNT <- 4, TAB <- 2
Exe == INSTANCE Executable WITH PGSIZE <- 4, PHYS_BASE <- 64, Addresses <- 128
L == INSTANCE LinkedList WITH Key <- {1, 2}, NULL <- NONE
T == INSTANCE HashTable WITH Item <- 1 .. 4, KeyOf <- <<1, 1, 2, 3>>, Hash <- <<0, 5, 7>>,
       MIN_BUCKETS <- 1, BEST_ELEMS_PER_BUCKET <- 1

(* The call of the task, answered. *)
Asked(kind) == task.kind = kind /\ answer = NONE /\ UNCHANGED <<task, listVars, hashVars>>
Answered(kind) == task.kind = kind /\ answer # NONE

-----------------------------------------------------------------------------
(* Numbers *)

(* Every division by d: unsigned and, with d as a signed number, signed.   *)
DivideTasks == {[kind |-> "divide", d |-> d] : d \in {1, 2, 3, 7, 15, 16, 17, 31, 100, 128, 200, 255}}
Divide ==
  /\ Asked("divide")
  /\ LET d == task.d
         s == Num!Signed(d, 256)
     IN answer' = [n \in 0 .. 255 |->
                     [div |-> Num!udiv64(n, d), mod |-> Num!umod64(n, d),
                      sdiv |-> Num!sdiv64(Num!Signed(n, 256), s), smod |-> Num!smod64(Num!Signed(n, 256), s)]]

Truncated(a, b) ==
  LET q == (IF a < 0 THEN -a ELSE a) \div (IF b < 0 THEN -b ELSE b)
  IN IF (a < 0) = (b < 0) THEN q ELSE -q

(* Quotients are exact, and -128 / -1 wraps; remainders are exact in the   *)
(* word that is returned.                                                  *)
DividedExactly ==
  \A n \in 0 .. 255 :
    LET a == answer[n]
        d == task.d
        sn == Num!Signed(n, 256)
        sd == Num!Signed(d, 256)
    IN /\ a.div = n \div d /\ a.mod = (n % d) % 16
       /\ a.sdiv = Num!Signed(Truncated(sn, sd), 256)
       /\ (a.smod - (sn - (sd * Truncated(sn, sd)))) % 16 = 0

(* A second of the scheduler's bookkeeping for one thread. *)
ScheduleTasks ==
  {[kind |-> "schedule", load |-> l, ready |-> r, busy |-> b, nice |-> n] :
     l \in {0, 1, 3, 4, 11, 59, 240}, r \in {0, 1, 5}, b \in BOOLEAN, n \in {-20, -1, 0, 1, 20}}
Recents == {-80, -7, -1, 0, 1, 5, 39, 200, 1100}
Schedule ==
  /\ Asked("schedule")
  /\ LET la == Fix!calculate_load_avg(task.load, task.ready, task.busy)
     IN answer' = [load |-> la,
                   recent |-> [c \in Recents |-> Fix!calculate_recent_cpu(la, c, task.nice)],
                   priority |-> [c \in Recents |-> Fix!calculate_priority(c, task.nice)]]

(* The load average moves towards the threads that want the processor, the *)
(* running one among them, without passing their number; recent_cpu decays *)
(* towards nice; the priority is PRI_MAX - recent_cpu / 4 - 2 * nice, but  *)
(* for the fractions that are cut off, and within its limits.              *)
ScheduledSoundly ==
  LET n == Fix!int_to_fixed(task.ready + IF task.busy THEN 1 ELSE 0)
      lo == Min({task.load, n})
      hi == Max({task.load, n})
      decayed(c) == answer.recent[c] - Fix!int_to_fixed(task.nice)
      exact(c) == (16 * (Fix!PRI_MAX - (2 * task.nice))) - c    \* in units of 1/4F
  IN /\ lo <= answer.load + 1 /\ answer.load <= hi
     /\ 60 * answer.load <= (59 * task.load) + n /\ (59 * task.load) + n < 60 * (answer.load + 1)
     /\ \A c \in Recents :
          /\ c >= 0 => decayed(c) \in 0 .. c
          /\ c <= 0 => decayed(c) \in c .. 0
          /\ answer.priority[c] \in Fix!PRI_MIN .. Fix!PRI_MAX
          /\ LET limited == Max({16 * Fix!PRI_MIN, Min({16 * Fix!PRI_MAX, exact(c)})})
             IN (16 * answer.priority[c]) - limited \in -19 .. 19
          /\ \A e \in Recents : c < e => /\ answer.priority[c] >= answer.priority[e]
                                         /\ answer.recent[c] <= answer.recent[e]

-----------------------------------------------------------------------------
(* Memory *)

(* Moves within 5 bytes that overlap in every way. *)
MoveTasks ==
  {m \in [kind : {"move"}, dst : 0 .. 4, src : 0 .. 4, size : 0 .. 4] :
     m.dst + m.size <= 5 /\ m.src + m.size <= 5}
Bytes5 == [i \in 0 .. 4 |-> 10 + i]
Move ==
  /\ Asked("move")
  /\ answer' = Str!memmove(Bytes5, task.dst, task.src, task.size)[1]
MovedAtOnce ==
  answer = [i \in 0 .. 4 |-> IF i \in task.dst .. task.dst + task.size - 1
                             THEN Bytes5[i - task.dst + task.src] ELSE Bytes5[i]]

(* Strings of the letters 1, 2 and the blank 9, one after the other in     *)
(* memory, and the delimiter " " and some room behind them.                *)
Texts == SeqOf({1, 9}, 3) \cup {<<1, 2, 9, 2>>, <<2, 1, 2>>, <<9, 9, 1, 2>>}
StringTasks == [kind : {"strings"}, s : Texts, t : SeqOf({1, 2, 9}, 2), size : 0 .. 4]
Memory == LET bytes == task.s \o <<0>> \o task.t \o <<0, 9, 0, 7, 7, 7, 7, 7, 7>>
          IN [i \in 0 .. Len(bytes) - 1 |-> bytes[i + 1]]
Second == Len(task.s) + 1
Blank == Second + Len(task.t) + 1
Room == Blank + 2
Strings ==
  /\ Asked("strings")
  /\ LET m == Memory
         split == Exe!load_arguments(m, 0, Blank)
         copy == Str!strlcpy(m, Room, 0, task.size)
         both == Str!strlcat(Str!strlcpy(m, Room, 0, 5)[1], Room, Second, task.size + 1)
     IN answer' = [tokens |-> [i \in DOMAIN split.argv |->
                                 <<split.argv[i], Exe!StringAt(split.mem, split.argv[i])>>],
                   strstr |-> Str!strstr(m, 0, Second), strcmp |-> Str!strcmp(m, 0, Second),
                   strchr |-> Str!strchr(m, 0, 1), strrchr |-> Str!strrchr(m, 0, 1),
                   strspn |-> Str!strspn(m, 0, Second), strpbrk |-> Str!strpbrk(m, 0, Second),
                   strcspn |-> Str!strcspn(m, 0, Second), strnlen |-> Str!strnlen(m, 0, task.size),
                   memchr |-> Str!memchr(m, 0, 1, task.size), memcmp |-> Str!memcmp(m, 0, Second, task.size),
                   memset |-> Str!memset(m, Room, 3, task.size), copy |-> copy, both |-> both]

(* The tokens are the longest runs without a blank, in order; searches     *)
(* find the first or the last place, or none; strlcpy and strlcat store    *)
(* what fits with its end, touch nothing else and return the full length.  *)
StringsExact ==
  LET s == task.s
      t == task.t
      places(Is(_)) == {i \in DOMAIN s : Is(i)}
      first(S) == IF S = {} THEN Str!NULL_PTR ELSE Min(S) - 1
      run(i) == SubSeq(s, i, Max({j \in i - 1 .. Len(s) : \A k \in i .. j : s[k] # 9}))
      starts == places(LAMBDA i : s[i] # 9 /\ (i > 1 => s[i - 1] = 9))
  IN /\ answer.tokens = [i \in 1 .. Cardinality(starts) |->
                           LET p == CHOOSE x \in starts : Cardinality({y \in starts : y < x}) = i - 1
                           IN <<p - 1, run(p)>>]
     /\ answer.strstr = first({i \in 1 .. Len(s) + 1 : IsPrefix(t, SubSeq(s, i, Len(s)))})
     /\ (answer.strcmp = 0) = (s = t)
     /\ answer.strchr = first(places(LAMBDA i : s[i] = 1))
     /\ answer.strrchr = LET S == places(LAMBDA i : s[i] = 1)
                        IN IF S = {} THEN Str!NULL_PTR ELSE Max(S) - 1
     /\ answer.strspn = Min({i \in 1 .. Len(s) + 1 : i > Len(s) \/ s[Min({i, Len(s)})] \notin ToSet(t)}) - 1
     /\ answer.strpbrk = first(places(LAMBDA i : s[i] \in ToSet(t)))
     /\ answer.strcspn = IF answer.strpbrk = Str!NULL_PTR THEN Len(s) ELSE answer.strpbrk
     /\ answer.strnlen = Min({Len(s), task.size})
     /\ answer.memchr = first({i \in 1 .. task.size : Memory[i - 1] = 1})
     /\ (answer.memcmp = 0) = (\A i \in 0 .. task.size - 1 : Memory[i] = Memory[Second + i])
     /\ answer.memset = Exe!Store(Memory, Room, [i \in 1 .. task.size |-> 3])
     /\ answer.copy[2] = Len(s)
     /\ task.size > 0 =>
          LET kept == SubSeq(s, 1, Min({Len(s), task.size - 1}))
          IN answer.copy[1] = Exe!Store(Memory, Room, Append(kept, 0))
     /\ task.size = 0 => answer.copy[1] = Memory
     /\ answer.both[2] = Len(s) + Len(t)
     /\ LET kept == SubSeq(s \o t, 1, Max({Len(s), Min({Len(s) + Len(t), task.size})}))
        IN answer.both[1] = Exe!Store(Memory, Room,
                              IF Len(s) < task.size + 1 THEN Append(kept, 0) ELSE Append(s, 0))

(* A map of 5 bits in words of 3, with the given ones set. *)
BitmapTasks == [kind : {"bitmap"}, set : SUBSET (0 .. 4), start : 0 .. 4, cnt : 0 .. 3, value : BOOLEAN]
Map(set) == FoldSet(LAMBDA i, b : Bit!bitmap_mark(b, i), Bit!bitmap_create(5, 7), set)
Bitmap ==
  /\ Asked("bitmap")
  /\ LET b == Map(task.set)
         taken == Bit!bitmap_scan_and_flip(b, task.start, task.cnt, task.value)
         stored == Bit!bitmap_read(Bit!bitmap_create(5, 7), Bit!bitmap_write(b))
         ones(x) == {i \in 0 .. 4 : Bit!bitmap_test(x, i)}
     IN answer' = [set |-> ones(b), scan |-> taken[2], taken |-> ones(taken[1]), stored |-> ones(stored),
                   flipped |-> ones(Bit!bitmap_flip(b, task.start)),
                   count |-> IF task.start + task.cnt <= 5
                             THEN Bit!bitmap_count(b, task.start, task.cnt, task.value) ELSE NONE]

(* The words hold the set: bitmap_scan finds the first run that fits, and  *)
(* taking it, counting and writing to a file and back are exact.           *)
BitmapExact ==
  LET value(i) == (i \in task.set) = task.value
      runs == {i \in task.start .. 5 - task.cnt : \A j \in i .. i + task.cnt - 1 : value(j)}
      range == IF runs = {} THEN {} ELSE Min(runs) .. Min(runs) + task.cnt - 1
  IN /\ answer.set = task.set /\ answer.stored = task.set
     /\ answer.scan = IF runs = {} THEN Bit!BITMAP_ERROR ELSE Min(runs)
     /\ answer.taken = IF task.value THEN task.set \ range ELSE task.set \cup range
     /\ answer.flipped = SymDiff(task.set, {task.start})
     /\ answer.count # NONE =>
          answer.count = Cardinality({i \in task.start .. task.start + task.cnt - 1 : value(i)})

(* Arrays of up to 4 numbers, and the random table of 4 bytes. *)
SortTasks == [kind : {"sort"}, a : SeqOf(1 .. 3, 4)]
Sort ==
  /\ Asked("sort")
  /\ answer' = [sorted |-> Std!sort(task.a),
                found |-> [k \in 0 .. 4 |-> Std!binary_search(Std!sort(task.a), k)]]
Occurrences(a, x) == Cardinality({i \in DOMAIN a : a[i] = x})
SortedAndFound ==
  LET b == answer.sorted
  IN /\ \A i, j \in DOMAIN b : i < j => b[i] <= b[j]
     /\ Len(b) = Len(task.a) /\ \A x \in 1 .. 3 : Occurrences(b, x) = Occurrences(task.a, x)
     /\ \A k \in 0 .. 4 : IF k \in ToSet(b) THEN b[answer.found[k] + 1] = k
                          ELSE answer.found[k] = Std!NOT_FOUND

RandomTasks == [kind : {"random"}, seed : {x \in SeqOf(0 .. 3, 2) : x # <<>>}, cnt : 0 .. 5]
Random ==
  /\ Asked("random")
  /\ answer' = FoldLeft(LAMBDA x, i : Std!random_byte(4, x)[1], Std!random_init(4, task.seed),
                        [i \in 1 .. task.cnt |-> i])
StaysPermutation ==
  Range(answer.s) = 0 .. 3 /\ answer.i = task.cnt % 4 /\ answer.j \in 0 .. 3

-----------------------------------------------------------------------------
(* Text *)

(* A number through printf, with flags, a width and a precision, and back. *)
PrintTasks ==
  [kind : {"print"}, n : {-64, -7, -1, 0, 1, 9, 10, 63, 100}, letter : {"d", "u", "x", "o"},
   flags : SUBSET {"-", "0", "+"}, width : {0, 4}, precision : {-1, 0, 3}, size : {0, 1, 3, 9}]
Number(n) == IF n < 10 THEN <<Fmt!Digits[n + 1]>> ELSE <<Fmt!Digits[(n \div 10) + 1], Fmt!Digits[(n % 10) + 1]>>
FormatOf(t) ==
  <<"%">> \o SetToSeq(t.flags) \o (IF t.width > 0 THEN Number(t.width) ELSE <<>>)
    \o (IF t.precision < 0 THEN <<>> ELSE <<".">> \o Number(t.precision)) \o <<t.letter>>
FormatCall ==
  /\ Asked("print")
  /\ LET f == FormatOf(task)
         text == Fmt!vprintf(f, <<task.n>>)
     IN answer' = [text |-> text, cut |-> Fmt!vsnprintf(task.size, f, <<task.n>>),
                   writes |-> Fmt!vhprintf(3, f, <<task.n>>), back |-> Fmt!atoi(text)]

(* The value the text stands for, whatever pads it. *)
ValueOf(text, base) ==
  LET digits == SelectSeq(text, LAMBDA c : c \in ToSet(Fmt!Digits))
      v == FoldLeft(LAMBDA x, c : (x * base) + Fmt!DigitValue(c), 0, digits)
  IN IF "-" \in ToSet(text) THEN -v ELSE v

(* printf writes the value it was given, in the width and with the digits  *)
(* that were asked for, and pads on one side only; atoi reads it back; a   *)
(* bounded buffer and the user console's pieces hold the same text.        *)
PrintedFaithfully ==
  LET text == answer.text
      value == IF task.letter = "d" THEN Fmt!AsSigned(task.n, "INT") ELSE Fmt!AsUnsigned(task.n, "INT")
      base == CASE task.letter = "x" -> 16 [] task.letter = "o" -> 8 [] OTHER -> 10
      digits == Len(SelectSeq(text, LAMBDA c : c \in ToSet(Fmt!Digits)))
  IN /\ ValueOf(text, base) = value
     /\ Len(text) >= task.width /\ digits >= task.precision
     /\ base = 10 => answer.back = value
     /\ " " \in ToSet(text) => /\ Len(text) = task.width
                               /\ digits > 0 => (text[1] = " ") = ("-" \notin task.flags)
     /\ answer.cut = <<SubSeq(text, 1, Min({Len(text), Max({0, task.size - 1})})), Len(text)>>
     /\ FlattenSeq(answer.writes[1]) = text /\ answer.writes[2] = Len(text)
     /\ \A i \in DOMAIN answer.writes[1] : Len(answer.writes[1][i]) \in 1 .. 3

(* File names of "/", "." and a letter, through a tar header and back. *)
TarTasks ==
  [kind : {"tar"}, name : SeqOf({Tar!Slash, Tar!Dot, 97}, 5), size : {0, 9, 50},
   type : {Tar!REGULAR, Tar!DIRECTORY}]
TarCall ==
  /\ Asked("tar")
  /\ LET made == Tar!ustar_make_header(task.name, task.type, task.size)
     IN answer' = [strip |-> Tar!strip_antisocial_prefixes(task.name),
                   parsed |-> IF made.ok THEN Tar!ustar_parse_header(made.header) ELSE Tar!Failure,
                   damaged |-> IF made.ok
                               THEN Tar!ustar_parse_header([made.header EXCEPT !.size[1] = @ + 1])
                               ELSE Tar!Failure]

(* A stripped name is not empty, does not begin at the root, in "./" or in *)
(* "../" and is a tail of the name or "."; a header that was made gives    *)
(* back that name, the type and a file's size; damage is noticed.          *)
ArchivedFaithfully ==
  LET s == answer.strip
  IN /\ s # <<>> /\ s[1] # Tar!Slash /\ s # <<Tar!Dot, Tar!Dot>>
     /\ ~IsPrefix(<<Tar!Dot, Tar!Slash>>, s) /\ ~IsPrefix(<<Tar!Dot, Tar!Dot, Tar!Slash>>, s)
     /\ s = <<Tar!Dot>> \/ IsSuffix(s, task.name)
     /\ Tar!strip_antisocial_prefixes(s) = s
     /\ answer.parsed = IF Len(s) > 6 - 1 THEN Tar!Failure
                        ELSE [type |-> task.type, name |-> s,
                              size |-> IF task.type = Tar!REGULAR THEN task.size ELSE 0]
     /\ answer.damaged = Tar!Failure

(* Sizes in units of 4, and a file dumped 4 bytes to a line and 6 to a     *)
(* page.                                                                   *)
DumpTasks == [kind : {"dump"}, size : 0 .. 5, ofs : 0 .. 5, ascii : BOOLEAN]
FileOf(size) == [i \in 1 .. size |-> IF i % 2 = 0 THEN 64 + i ELSE i]
Dump ==
  /\ Asked("dump")
  /\ LET n == task.size + (17 * task.ofs) + (IF task.ascii THEN 1000 ELSE 0)
     IN answer' = [lines |-> Fmt!hex_dump(task.ofs, FileOf(task.size), task.ascii, 4),
                   cat |-> Fmt!fsutil_cat(FileOf(task.size + (2 * task.ofs)), 0, 6, 4),
                   n |-> n, size |-> Fmt!print_human_readable_size(n, 4)]

(* Every byte is in the line and the column of its offset, and nothing     *)
(* else is; the size is cut to a unit that leaves a number below 4.        *)
Dumped(lines, ofs, bytes, ascii) ==
  /\ \A k \in DOMAIN lines : lines[k].ofs % 4 = 0 /\ Len(lines[k].hex) <= 4
  /\ \A i \in DOMAIN bytes :
       \E k \in DOMAIN lines : LET c == ofs + i - 1 - lines[k].ofs
                               IN c \in 0 .. 3 /\ lines[k].hex[c + 1] = bytes[i]
  /\ FlattenSeq([k \in DOMAIN lines |-> SelectSeq(lines[k].hex, LAMBDA b : b # Fmt!Gap)]) = bytes
  /\ \A k \in DOMAIN lines :
       IF ascii THEN /\ Len(lines[k].hex) = 4 /\ Len(lines[k].text) = 4
                     /\ \A c \in 1 .. 4 : \/ lines[k].text[c] = lines[k].hex[c]
                                          \/ lines[k].text[c] = Fmt!Dot /\ lines[k].hex[c] \in 0 .. 31
       ELSE lines[k].text = <<>>
DumpedFaithfully ==
  LET unit == answer.size[2] - 1
  IN /\ Dumped(answer.lines, task.ofs, FileOf(task.size), task.ascii)
     /\ Dumped(answer.cat, 0, FileOf(task.size + (2 * task.ofs)), TRUE)
     /\ answer.size[1] * (4 ^ unit) <= answer.n /\ answer.n < (answer.size[1] + 1) * (4 ^ unit)
     /\ unit < 4 => answer.size[1] < 4
     /\ unit > 0 => answer.size[1] > 0

-----------------------------------------------------------------------------
(* Starting up *)

Part(b, type, offset, size) == [bootable |-> b, type |-> type, offset |-> offset, size |-> size]
Parts == {Part(FALSE, "unused", 0, 0), Part(TRUE, "kernel", 4, 3), Part(FALSE, "kernel", 8, 2),
          Part(TRUE, "kernel", 6, 5), Part(FALSE, "filesys", 1, 11), Part(FALSE, "filesys", 1, 12),
          Part(FALSE, "swap", 11, 6), Part(FALSE, "linux", 2, 2), Part(FALSE, "extended", 3, 2)}
Disk(name, sig, parts) == [name |-> name, size |-> 12, tables |-> (0 :> [signature |-> sig, parts |-> parts])]
DiskTasks == [kind : {"disks"}, sig : BOOLEAN, p : Parts, q : Parts, r : Parts]
Disks == <<Disk("hda", task.sig, <<task.p, task.q>>), Disk("hdb", TRUE, <<task.r>>)>>
Start ==
  /\ Asked("disks")
  /\ LET x == Bot!Probe(Disks)
         boot == Bot!read_mbr(Disks, 1)
         role(r) == Bot!locate_block_device(x.blocks, r, NONE)
     IN answer' = [blocks |-> x.blocks, overflow |-> x.overflow, boot |-> boot,
                   kernel |-> IF boot = NONE THEN NONE ELSE Bot!load_kernel(Disks[boot[1]], boot[2]),
                   role |-> [r \in {"filesys", "swap"} |-> role(r)]]

(* Every device that is registered has a name of its own and lies on its   *)
(* disk, so that its sectors are the disk's; a role goes to the first      *)
(* device of its type.  The loader takes the first bootable kernel and     *)
(* reads its sectors in order, at most three of them here, unless the low  *)
(* half of a sector number wraps.  Without an extended partition the scan  *)
(* ends.                                                                   *)
DisksFaithful ==
  LET found == IF task.sig THEN <<task.p, task.q>> ELSE <<>>
      usable(e) == e.bootable /\ e.type = "kernel"
      candidates == SelectSeq(found, usable) \o SelectSeq(<<task.r>>, usable)
      cnt == Min({3, candidates[1].size})
  IN /\ \A i \in DOMAIN answer.blocks :
          LET b == answer.blocks[i]
          IN /\ b.size > 0 /\ \A k \in 0 .. b.size - 1 : Bot!PartitionSector(b, k) \in 0 .. 11
             /\ ~answer.overflow => \A j \in DOMAIN answer.blocks : answer.blocks[j].name = b.name => i = j
     /\ \A r \in {"filesys", "swap"} :
          answer.role[r] # NONE =>
            LET i == CHOOSE i \in DOMAIN answer.blocks : answer.blocks[i] = answer.role[r]
            IN answer.role[r].type = r /\ \A j \in 1 .. i - 1 : answer.blocks[j].type # r
     /\ answer.overflow => "extended" \in {e.type : e \in ToSet(Append(found, task.r))}
     /\ IF candidates = <<>> THEN answer.boot = NONE
        ELSE /\ answer.boot[2] = candidates[1]
             /\ (candidates[1].offset % 4) + cnt <= 4 =>
                  answer.kernel = [i \in 1 .. cnt |-> candidates[1].offset + i - 1]

(* The command line in memory, and what its words make the kernel do. *)
Word(name, value) == [name |-> name, value |-> value]
Words == {Word("-q", NONE), Word("-r", NONE), Word("-f", NONE), Word("-rs", NONE),
          Word("-rs", "7"), Word("-rs", "8"), Word("-swap", "hdb1"), Word("run", NONE), Word("ls", NONE),
          Word("echo", NONE)}
CommandTasks == [kind : {"command"}, argv : SeqOf(Words, 3)]
Command ==
  /\ Asked("command")
  /\ LET parsed == Bot!parse_options(task.argv)
         lengths == [i \in DOMAIN task.argv |-> 1 + (i % 2)]
         line == FlattenSeq([i \in DOMAIN task.argv |-> [k \in 1 .. lengths[i] |-> 1] \o <<0>>])
         m == [i \in 0 .. Len(line) + 1 |-> IF i < Len(line) THEN line[i + 1] ELSE 5]
     IN answer' = [options |-> parsed[1], actions |-> Bot!run_actions(parsed[2]), rest |-> parsed[2],
                   words |-> Bot!read_command_line(m, 0, Len(line), Len(task.argv)),
                   missing |-> Bot!read_command_line(m, 0, Len(line), Len(task.argv) + 1)]

(* read_command_line finds every word and notices when one is missing;     *)
(* the options end at the first word that is none, the last of -q and -r   *)
(* and the first -rs count; the actions take all the words that are left,  *)
(* in order, unless one is unknown or lacks its argument.  main() runs     *)
(* them when everything they use is there.                                 *)
CommandFaithful ==
  LET argv == task.argv
      opts == {i \in DOMAIN argv : \A j \in 1 .. i : Bot!IsOption(argv[j])}
      ways == {i \in opts : argv[i].name \in {"-q", "-r"}}
      seeds == {i \in opts : argv[i].name = "-rs"}
      o == answer.options
  IN /\ ~answer.words.panic /\ Len(answer.words.argv) = Len(argv)
     /\ \A i \in DOMAIN argv : answer.words.argv[i] = FoldLeft(LAMBDA n, k : n + 2 + (k % 2), 0, [k \in 1 .. i - 1 |-> k])
     /\ answer.missing.panic
     /\ answer.rest = SubSeq(argv, Cardinality(opts) + 1, Len(argv))
     /\ o.state = "ok" =>
          /\ o.down = IF ways = {} THEN NONE
                      ELSE IF argv[Max(ways)].name = "-q" THEN "power_off" ELSE "reboot"
          /\ o.seed = IF seeds = {} THEN "rtc" ELSE argv[Min(seeds)].value
          /\ o.format = \E i \in opts : argv[i].name = "-f"
     /\ (o.state = "panic") = (\E i \in opts : argv[i] = Word("-rs", NONE))
     /\ IsPrefix(FlattenSeq(answer.actions.done), answer.rest)
     /\ ~answer.actions.panic => FlattenSeq(answer.actions.done) = answer.rest
     /\ \A i \in DOMAIN Bot!main :
          Bot!main[i].uses \subseteq {Bot!main[j].call : j \in 1 .. i - 1}

(* The page tables, with 4 entries each and the kernel's memory from page  *)
(* 8 on, and the ones start.S makes, with the numbers of the code.         *)
PagingTasks == [kind : {"paging"}, ram : 1 .. 7, text : SUBSET (9 .. 12)]
Sampled == {0, 1, 1023, 1024, 8191, 16383, 16384}
Paging ==
  /\ Asked("paging")
  /\ answer' = [map |-> Bot!paging_init(task.ram, task.text, 4, 8).entries,
                low |-> [v \in Sampled |-> Bot!StartFrame(v, 17, 16384, 1024, 768)],
                high |-> [v \in Sampled |-> Bot!StartFrame(v + (768 * 1024), 17, 16384, 1024, 768)]]

(* paging_init maps every page of memory once, to itself, and only the     *)
(* kernel's text is read-only; until then each page of the memory that     *)
(* start.S counts is mapped where it is and at LOADER_PHYS_BASE.           *)
PagingFaithful ==
  /\ DOMAIN answer.map = {<<(8 + p) \div 4, (8 + p) % 4>> : p \in 0 .. task.ram - 1}
  /\ \A p \in 0 .. task.ram - 1 :
       answer.map[<<(8 + p) \div 4, (8 + p) % 4>>] = [frame |-> p, writable |-> 8 + p \notin task.text]
  /\ \A kb \in {0, 3072, 64511, 64512, 65535}, v \in Sampled :
       v < Bot!init_ram_pages(kb) => answer.low[v] = v /\ answer.high[v] = v

(* The pools of the page allocator, with the numbers of the code. *)
PoolTasks == [kind : {"pools"}, ram : {256, 257, 258, 259, 512, 1024, 16384}, limit : {0, 1, 64, 100000}]
Pools == Asked("pools") /\ answer' = [pools |-> Bot!palloc_init(task.ram, task.limit)]

(* The two pools and their bitmaps fill the free memory without overlap,   *)
(* the user pool is not above its limit, a page is known to be from the    *)
(* pool it is in, and a bitmap has a bit for each page of its pool.  Only  *)
(* a pool of no pages at all is a panic.                                   *)
PoolsApart ==
  LET user_pages == Min({(task.ram - 256) \div 2, task.limit})
      k == answer.pools.kernel
      u == answer.pools.user
  IN IF answer.pools = NONE THEN user_pages = 0
     ELSE /\ k.used_map = 256 /\ k.base + k.cnt = u.used_map /\ u.base + u.cnt = task.ram
          /\ u.cnt < task.limit \/ user_pages = 0
          /\ \A pool \in {k, u} : 8 * (4096 * (pool.base - pool.used_map) - 8) >= pool.cnt
          /\ \A page \in UNION {{x.used_map, x.base, x.base - 1, x.base + x.cnt - 1} : x \in {k, u}} :
               /\ Bot!page_from_pool(k, page) = (page \in k.base .. u.used_map - 1)
               /\ Bot!page_from_pool(u, page) = (page \in u.base .. task.ram - 1)

-----------------------------------------------------------------------------
(* The machine *)

(* The clock, read while it goes from one second to the next. *)
Bcd(n) == [tens |-> n \div 10, units |-> n % 10]
Moments == {<< <<59, 59, 23, 31, 12, 99>>, <<0, 0, 0, 1, 1, 0>> >>,
            << <<59, 59, 23, 28, 2, 4>>, <<0, 0, 0, 29, 2, 4>> >>,
            << <<9, 30, 7, 1, 3, 70>>, <<10, 30, 7, 1, 3, 70>> >>}
ClockTasks == [kind : {"clock"}, moment : Moments, update : 0 .. 14]
Clock ==
  /\ Asked("clock")
  /\ LET bcd(t) == [i \in 1 .. 6 |-> Bcd(t[i])]
         t == Hw!ReadComponents(bcd(task.moment[1]), bcd(task.moment[2]), task.update)
     IN answer' = [read |-> t, time |-> Hw!rtc_get_time(t)]
NoTornTime == answer.read \in ToSet(task.moment) /\ answer.time.secs \in 0 .. 86399

(* The interval timer and the delay loops. *)
PitTasks == [kind : {"pit"}, hz : {18, 19, 20, 100, 1000, 65536, 795452, 795454, 1193180, 1193181}]
Pit == Asked("pit") /\ answer' = Hw!PitPeriod(task.hz)
PitNearest ==
  /\ answer \in 1 .. 65536
  /\ task.hz \in 19 .. Hw!PIT_HZ =>
       LET error == (answer * task.hz) - Hw!PIT_HZ IN error <= task.hz \div 2 /\ -error <= task.hz \div 2

CalibrateTasks == [kind : {"calibrate"}, fit : {1024, 1025, 2047, 2048, 5000, 99999, 1048575}]
Calibrate == Asked("calibrate") /\ answer' = Hw!timer_calibrate(1024, task.fit)
Calibrated == answer <= task.fit /\ task.fit - answer <= answer \div 512

SleepTasks == [kind : {"sleep"}, num : {0, 1, 9, 10, 15, 999}, unit : {"ms", "us", "ns"}, loops : {7, 2000}]
Sleep ==
  /\ Asked("sleep")
  /\ answer' = CASE task.unit = "ms" -> [sleep |-> Hw!timer_msleep(task.num, task.loops),
                                        delay |-> Hw!timer_mdelay(task.num, task.loops)]
                 [] task.unit = "us" -> [sleep |-> Hw!timer_usleep(task.num, task.loops),
                                        delay |-> Hw!timer_udelay(task.num, task.loops)]
                 [] task.unit = "ns" -> [sleep |-> Hw!timer_nsleep(task.num, task.loops),
                                        delay |-> Hw!timer_ndelay(task.num, task.loops)]

(* In whole ticks, or in loops that take part of one, never too long; a    *)
(* delay is short by less than a loop and what 100 / denom cuts off.       *)
SleepsClose ==
  LET due == task.num * Hw!TIMER_FREQ            \* the ticks to sleep, times denom
      denom == CASE task.unit = "ms" -> 1000 [] task.unit = "us" -> 1000000 [] OTHER -> 1000000000
  IN /\ answer.sleep.ticks * denom <= due /\ due < (answer.sleep.ticks + 1) * denom
     /\ answer.sleep.loops = IF answer.sleep.ticks > 0 THEN 0 ELSE answer.delay
     /\ answer.delay * denom <= due * task.loops
     /\ (due * task.loops) - (answer.delay * denom) < denom + (1000 * Hw!TIMER_FREQ)

(* The speaker, and the name of a disk with its pairs of bytes swapped.    *)
SpeakerTasks == [kind : {"speaker"}, gate : SUBSET {0, 1, 4}, hz : {0, 19, 20, 440, 20000, 20001},
                 level : {"on", "off"}]
Speaker ==
  /\ Asked("speaker")
  /\ LET s == [gate |-> task.gate, count |-> 0]
     IN answer' = [on |-> Hw!speaker_on(s, task.hz), beep |-> Hw!speaker_beep(s, task.level)]

(* Only tones that can be heard are played, a beep ends in silence, and    *)
(* the other bits of the port stay.                                        *)
SpeakerQuiet ==
  LET states == {answer.on} \cup ToSet(answer.beep)
  IN /\ \A s \in states : s.gate \ {0, 1} = task.gate \ {0, 1}
     /\ answer.on.gate \cap {0, 1} = IF task.hz \in 20 .. 20000 THEN {0, 1} ELSE {}
     /\ answer.beep # <<>> => 0 \in Head(answer.beep).gate /\ Last(answer.beep).gate \cap {0, 1} = {}
     /\ task.level = "off" => answer.beep = <<>>

AtaTasks == [kind : {"ata"}, name : UNION {[1 .. n -> {0, 32, 65, 66}] : n \in {2, 4}}]
Ata ==
  /\ Asked("ata")
  /\ LET scrambled == [i \in DOMAIN task.name |-> task.name[IF i % 2 = 0 THEN i - 1 ELSE i + 1]]
     IN answer' = Hw!descramble_ata_string(scrambled)

(* All but the last byte of the name, without blanks at its end.           *)
DescrambledExactly ==
  LET n == Len(answer)
  IN /\ IsPrefix(answer, Front(task.name))
     /\ n > 0 => answer[n] \in {65, 66}
     /\ \A i \in n + 1 .. Len(task.name) - 1 : task.name[i] \in {0, 32}

(* Descriptors, with a few bits of an address set. *)
DescriptorTasks == [kind : {"descriptor"}, addr : SUBSET {0, 15, 16, 23, 24, 31}, dpl : {0, 3}, type : {14, 15}]
Ones(n) == {i \in 0 .. 7 : (n \div 2 ^ i) % 2 = 1}
Describe ==
  /\ Asked("descriptor")
  /\ answer' = [tss |-> Hw!SegmentRead(Hw!make_tss_desc(task.addr)),
                code |-> Hw!SegmentRead(Hw!make_code_desc(task.dpl)),
                data |-> Hw!SegmentRead(Hw!make_data_desc(task.dpl)),
                gate |-> Hw!GateRead(Hw!make_gate(task.addr, task.dpl, task.type))]
DescribedExactly ==
  /\ answer.tss.base = task.addr /\ answer.tss.limit = Ones(103) /\ answer.tss.type = Ones(9)
  /\ answer.tss.class = {} /\ answer.tss.present /\ answer.tss.granularity = {}
  /\ \A seg \in {answer.code, answer.data} :
       /\ seg.base = {} /\ seg.limit = 0 .. 19 /\ seg.granularity = {0}
       /\ seg.dpl = Ones(task.dpl) /\ seg.class = {0} /\ seg.present /\ seg.wide
  /\ 3 \in answer.code.type /\ 3 \notin answer.data.type /\ 1 \in answer.data.type
  /\ answer.gate = [offset |-> task.addr, selector |-> Ones(8), type |-> Ones(task.type),
                    system |-> TRUE, dpl |-> Ones(task.dpl), present |-> TRUE]

(* What is loaded into the machine when it starts: the serial port's rate, *)
(* the interrupt controllers, the descriptor table and the stack of ring   *)
(* 0, from which a thread that enters the kernel pushes some bytes.        *)
PortTasks == [kind : {"ports"}, bps : {300, 1200, 7000, 9600, 57600, 115200}, thread : {8192, 49152},
              pushed : {4, 76, 2048, 4096}]
Ports ==
  /\ Asked("ports")
  /\ LET writes(n) == SelectSeq(Hw!pic_init, LAMBDA w : w.pic = n)
         tss == Hw!tss_init(task.thread)
     IN answer' = [divisor |-> Hw!set_serial(task.bps),
                   pic |-> [n \in {0, 1} |-> FoldLeft(LAMBDA x, w : Hw!PicWrite(x, w.port, w.value),
                                                      Hw!PicReset, writes(n))],
                   table |-> Hw!gdt_init({12, 20}), tss |-> tss,
                   running |-> Hw!running_thread(tss.esp0 - task.pushed)]

(* The rate is the next one that the chip has, at least what was asked;    *)
(* the sixteen lines have the vectors from 0x20 on, unmasked, with the     *)
(* slave where the master expects it; a selector finds a segment of the    *)
(* privilege that is in the selector; and a thread finds itself from any   *)
(* place on its kernel stack.                                              *)
PortsSet ==
  LET divisor == answer.divisor.ls + (256 * answer.divisor.ms)
      desc(sel) == Hw!SegmentRead(answer.table.gdt[sel \div 8])
  IN /\ {answer.divisor.ls, answer.divisor.ms} \subseteq 0 .. 255
     /\ divisor * task.bps <= 115200 /\ 115200 < (divisor + 1) * task.bps
     /\ \A n \in {0, 1} : answer.pic[n].left = 0 /\ answer.pic[n].mask = 0 /\ answer.pic[n].base = 32 + (8 * n)
     /\ answer.pic[0].cascade = 2 ^ answer.pic[1].cascade
     /\ \A sel \in {Hw!SEL_KCSEG, Hw!SEL_KDSEG, Hw!SEL_UCSEG, Hw!SEL_UDSEG} :
          /\ 8 * (sel \div 8) + 7 <= answer.table.limit
          /\ desc(sel).class = {0} /\ desc(sel).dpl = Ones(sel % 4)
          /\ 3 \in desc(sel).type <=> sel \in {Hw!SEL_KCSEG, Hw!SEL_UCSEG}
     /\ desc(answer.table.tr).class = {} /\ desc(answer.table.tr).base = {12, 20}
     /\ desc(answer.tss.ss0).dpl = {} /\ 3 \notin desc(answer.tss.ss0).type
     /\ answer.running = task.thread

(* A text on the display of 2 rows and 4 columns. *)
ScreenTasks ==
  [kind : {"screen"}, text : SeqOf({65, Trm!LF, Trm!BS, Trm!TABULATOR}, 5) \cup
                             {<<65, 65, Trm!CR, 66>>, <<65, 10, 10, Trm!FF, 66, Trm!BEL>>,
                              <<65, 65, 65, 65, 66, 66, 66, 66, 67>>}]
Clear == [y \in 0 .. 1 |-> [x \in 0 .. 3 |-> Trm!Space]]
Display == Asked("screen") /\ answer' = FoldLeft(Trm!vga_putc, Trm!init(Clear, 0), task.text)

(* The same text on paper that never ends: at[<<r, c>>] is what is printed.*)
Type(p, c) ==
  LET tab == p.c + 2 - (p.c % 2)
      to(r, col) == IF col > 3 THEN [p EXCEPT !.r = r + 1, !.c = 0] ELSE [p EXCEPT !.r = r, !.c = col]
  IN CASE c = Trm!LF -> [p EXCEPT !.r = @ + 1, !.c = 0]
       [] c = Trm!CR -> [p EXCEPT !.c = 0]
       [] c = Trm!FF -> [at |-> <<>>, r |-> 0, c |-> 0]
       [] c = Trm!BS -> [p EXCEPT !.c = Max({@ - 1, 0})]
       [] c = Trm!BEL -> p
       [] c = Trm!TABULATOR -> to(p.r, tab)
       [] OTHER -> [to(p.r, p.c + 1) EXCEPT !.at = (<<p.r, p.c>> :> c) @@ @]

(* The display shows the last two rows of the paper, and both cursors are  *)
(* on it.                                                                  *)
ShowsLastRows ==
  LET p == FoldLeft(Type, [at |-> <<>>, r |-> 0, c |-> 0], task.text)
      top == Max({p.r - 1, 0})
  IN /\ answer.cx = p.c /\ answer.cy = p.r - top /\ answer.cp = answer.cx + (4 * answer.cy)
     /\ \A y \in 0 .. 1, x \in 0 .. 3 :
          answer.fb[y][x] = IF <<top + y, x>> \in DOMAIN p.at THEN p.at[<<top + y, x>>] ELSE Trm!Space

(* Keys pressed and released: a letter, a digit and some modifiers. *)
LetterA == 30
Digit1 == 2
Events == [code : {LetterA, Digit1, Trm!CapsLock, 42, 54, 29}, release : BOOLEAN]
TypingTasks == [kind : {"typing"}, events : SeqOf(Events, 3)]
Typing ==
  /\ Asked("typing")
  /\ answer' = FoldLeft(LAMBDA k, e : Trm!keyboard_interrupt(k, e.code, e.release, FALSE),
                        Trm!KbdInit, task.events)

(* The driver's modifiers are the ones held down, Caps Lock is its own     *)
(* presses, and a key gives the character on it: the upper one with Shift, *)
(* reversed for letters by Caps Lock, a control character with Ctrl.       *)
TypesKeys ==
  LET ev == task.events
      before(i) == SubSeq(ev, 1, i - 1)
      held(s, k) == LET I == {j \in DOMAIN s : s[j].code = k} IN I # {} /\ ~s[Max(I)].release
      caps(s) == Cardinality({j \in DOMAIN s : s[j] = [code |-> Trm!CapsLock, release |-> FALSE]}) % 2 = 1
      shift(s) == held(s, 42) \/ held(s, 54)
      char(i) == IF ev[i].code = Digit1 THEN IF shift(before(i)) THEN 33 ELSE 49
                 ELSE IF held(before(i), 29) THEN 1
                 ELSE IF shift(before(i)) # caps(before(i)) THEN 65 ELSE 97
      typed == SelectSeq([i \in DOMAIN ev |-> i],
                         LAMBDA i : ev[i].code \in {LetterA, Digit1} /\ ~ev[i].release)
  IN /\ answer.down = {k \in {42, 54, 29} : held(ev, k)} /\ answer.caps_lock = caps(ev)
     /\ answer.typed = [n \in DOMAIN typed |-> char(typed[n])]

-----------------------------------------------------------------------------
(* Programs, with pages of 4 bytes and user memory below 64 *)

SegmentTasks ==
  [kind : {"segment"}, fails : {"nothing", "header", "stack"}, offset : {0, 1, 5, 20}, vaddr : {0, 1, 4, 5, 9, 56, 61, 63}, filesz : {0, 1, 3, 6},
   memsz : {0, 1, 5, 7, 9, 70, 120}]
LoadSegment ==
  /\ Asked("segment")
  /\ answer' = Exe!load(task.fails # "header", <<[type |-> "load", offset |-> task.offset, vaddr |-> task.vaddr,
                                       filesz |-> task.filesz, memsz |-> task.memsz]>>, 12,
                        task.fails # "stack", task.vaddr)

(* What the entries put at an address: a byte of the file, or zero. *)
ByteAt(a) ==
  LET e == CHOOSE x \in ToSet(answer.pages) : a \in x.upage .. x.upage + 3
  IN IF a - e.upage < e.read THEN e.ofs + a - e.upage ELSE "zero"

(* A segment that is accepted lies in user memory, above the first page;   *)
(* its pages cover it once, its first filesz bytes are the file's and the  *)
(* others zero; one that lies there, in a file with a good header, is      *)
(* accepted, and only then is there a start address.                       *)
SegmentsFaithful ==
  LET end == task.vaddr + task.memsz
      good == /\ task.fails = "nothing" /\ task.offset % 4 = task.vaddr % 4 /\ task.offset <= 12
              /\ task.memsz >= task.filesz /\ task.memsz # 0 /\ task.vaddr >= 4 /\ end < 64
  IN /\ ~answer.failed <=> good
     /\ answer.eip = IF good THEN task.vaddr ELSE 0
     /\ ~answer.failed =>
          /\ \A a \in task.vaddr .. end - 1 :
               ByteAt(a) = IF a < task.vaddr + task.filesz THEN task.offset + a - task.vaddr ELSE "zero"
          /\ \A i \in DOMAIN answer.pages : /\ answer.pages[i].upage \in 4 .. 60
                                            /\ answer.pages[i].read \in 0 .. 4
                                            /\ answer.pages[i].upage = answer.pages[1].upage + (4 * (i - 1))

ArgumentTasks == [kind : {"arguments"}, args : SeqOf({<<1>>, <<1, 2>>, <<2, 2, 1>>}, 3)]
Arguments ==
  /\ Asked("arguments")
  /\ LET x == Exe!push_argument([a \in 0 .. 63 |-> 0], task.args)
     IN answer' = [esp |-> x.esp, start |-> Exe!Start(x), mem |-> x.mem]

(* The program's _start finds the words of the command line in order, a    *)
(* null pointer behind them and an aligned stack.                          *)
ArgumentsFaithful ==
  LET argc == Len(task.args)
  IN /\ answer.start.argc = argc /\ answer.start.argv[argc] = 0 /\ answer.esp % 4 = 0
     /\ \A i \in 1 .. argc : Exe!StringAt(answer.mem, answer.start.argv[i - 1]) = task.args[i]

(* What the keyboard gives to read(), and numbers for the two calls that   *)
(* are computed on the spot.                                               *)
KeyTasks == [kind : {"keys"}, typed : [1 .. 3 -> {Exe!NUL, 1, 2}], size : 0 .. 3]
Keys ==
  /\ Asked("keys")
  /\ answer' = [read |-> Exe!read_keyboard(task.typed, task.size),
                fib |-> [n \in 0 .. 6 |-> Exe!fibonacci(n)],
                max |-> Exe!max_of_four_int(task.size, task.typed[1], task.typed[2], task.typed[3])]
KeysFaithful ==
  /\ answer.read.result \in 0 .. task.size
  /\ [i \in DOMAIN answer.read.buffer |-> answer.read.buffer[i].char]
       = SubSeq(task.typed, 1, Min({task.size, answer.read.result + 1}))
  /\ \A i \in 1 .. answer.read.result : task.typed[i] # Exe!NUL
  /\ answer.read.result < task.size => task.typed[answer.read.result + 1] = Exe!NUL
  /\ answer.fib = [n \in 0 .. 6 |-> <<-1, 1, 1, 2, 3, 5, 8>>[n + 1]]
  /\ answer.max = Max({task.size} \cup Range(task.typed))

CallTasks == [kind : {"call"}, number : DOMAIN Exe!Wrapper, esp : {24, 60, 64}, off : {0, 4, 8}]
SystemCall ==
  /\ Asked("call")
  /\ LET args == [i \in 1 .. Exe!Wrapper[task.number] |-> 100 + i]
         x == Exe!syscall([a \in 0 .. 63 |-> 0], task.esp, task.number, args)
     IN answer' = [args |-> args, got |-> Exe!syscall_handler(x.mem, x.esp), after |-> Exe!AfterCall(x, args),
                   high |-> Exe!syscall_handler([a \in 0 .. 63 |-> task.number], 64 - task.off)]

(* A system call that the kernel knows gets the arguments of the program   *)
(* in their order and leaves its stack as it was; one whose words reach    *)
(* past user memory ends the process.                                      *)
CallsFaithful ==
  LET known == task.number \in DOMAIN Exe!Handled
  IN /\ answer.after = task.esp
     /\ answer.got = IF known THEN [call |-> task.number, args |-> answer.args]
                     ELSE [call |-> "none", args |-> <<>>]
     /\ answer.high = IF task.off = 0 \/ (known /\ 4 * (1 + Exe!Wrapper[task.number]) > task.off)
                      THEN [call |-> "exit", args |-> <<-1>>]
                      ELSE IF known THEN [call |-> task.number,
                                          args |-> [i \in 1 .. Exe!Wrapper[task.number] |-> task.number]]
                      ELSE [call |-> "none", args |-> <<>>]

-----------------------------------------------------------------------------
First == CHOOSE e \in Elem : TRUE

Init ==
  /\ \/ task \in DivideTasks \/ task \in ScheduleTasks
     \/ task \in MoveTasks \/ task \in StringTasks \/ task \in BitmapTasks
     \/ task \in SortTasks \/ task \in RandomTasks
     \/ task \in PrintTasks \/ task \in TarTasks \/ task \in DumpTasks
     \/ task \in DiskTasks \/ task \in CommandTasks \/ task \in PagingTasks \/ task \in PoolTasks
     \/ task \in ClockTasks \/ task \in PitTasks \/ task \in CalibrateTasks
     \/ task \in SleepTasks \/ task \in SpeakerTasks \/ task \in AtaTasks \/ task \in DescriptorTasks
     \/ task \in PortTasks
     \/ task \in ScreenTasks \/ task \in TypingTasks
     \/ task \in SegmentTasks \/ task \in ArgumentTasks \/ task \in KeyTasks \/ task \in CallTasks
     \/ task \in [kind : {"list", "hash"}]
  /\ answer = NONE
  /\ L!Init /\ \A e, f \in Elem \ {First} : key[e] = key[f]
  /\ task.kind # "list" => \A e \in Elem : key[e] = 1
  /\ T!Init

Lists == task.kind = "list" /\ L!Next /\ UNCHANGED <<task, answer, hashVars>>
Tables == task.kind = "hash" /\ T!Next /\ UNCHANGED <<task, answer, listVars>>

Next ==
  \/ Divide \/ Schedule
  \/ Move \/ Strings \/ Bitmap \/ Sort \/ Random
  \/ FormatCall \/ TarCall \/ Dump
  \/ Start \/ Command \/ Paging \/ Pools
  \/ Clock \/ Pit \/ Calibrate \/ Sleep \/ Speaker \/ Ata \/ Describe \/ Ports \/ Display \/ Typing
  \/ LoadSegment \/ Arguments \/ Keys \/ SystemCall
  \/ Lists \/ Tables

Spec == Init /\ [][Next]_vars

-----------------------------------------------------------------------------
(* Properties *)

(* Numbers come out right: the 64-bit divisions of lib/arithmetic.c, built *)
(* from one 32-bit division and shifts, give the exact quotient and        *)
(* remainder of every pair of operands, and the scheduler's fixed-point    *)
(* numbers move the way they should (threads/thread.c).                    *)
NumbersExact ==
  /\ Answered("divide") => DividedExactly
  /\ Answered("schedule") => ScheduledSoundly

(* The routines that work on memory, string.c, bitmap.c, stdlib.c and      *)
(* random.c, leave exactly the bytes they should, whatever overlaps, does  *)
(* not fit, is not there or lies across two words.                         *)
MemoryExact ==
  /\ Answered("move") => MovedAtOnce
  /\ Answered("strings") => StringsExact
  /\ Answered("bitmap") => BitmapExact
  /\ Answered("sort") => SortedAndFound
  /\ Answered("random") => StaysPermutation

(* What is turned into text and back is the same: numbers through printf's *)
(* flags, widths and precisions (lib/stdio.c) and atoi, file names and     *)
(* sizes through the tar headers of lib/ustar.c; a dump shows every byte   *)
(* of a file at its offset.                                                *)
TextFaithful ==
  /\ Answered("print") => PrintedFaithfully
  /\ Answered("tar") => ArchivedFaithfully
  /\ Answered("dump") => DumpedFaithfully

(* The machine starts on the right things: the loader's kernel, devices    *)
(* inside their disk with the first of each type for each role, the words  *)
(* of the command line in their order, page tables that map all of memory  *)
(* once, and page pools that share it without overlap (loader.S, start.S,  *)
(* init.c, partition.c, block.c, palloc.c).                                *)
BootFaithful ==
  /\ Answered("disks") => DisksFaithful
  /\ Answered("command") => CommandFaithful
  /\ Answered("paging") => PagingFaithful
  /\ Answered("pools") => PoolsApart

(* The drivers and the hardware agree: a clock read during an update is    *)
(* not torn, timers and delays are as close as they can be, a beep ends,   *)
(* the name of a disk is read, the processor finds in a descriptor what    *)
(* was put there, interrupts come with the vectors the kernel gave them, a *)
(* thread finds itself from its kernel stack, the display shows what was   *)
(* written and the keyboard gives what was typed (rtc.c, pit.c, timer.c,   *)
(* speaker.c, serial.c, ide.c, gdt.c, tss.c, thread.c, interrupt.c, vga.c, *)
(* kbd.c).                                                                 *)
MachineFaithful ==
  /\ Answered("clock") => NoTornTime
  /\ Answered("pit") => PitNearest
  /\ Answered("calibrate") => Calibrated
  /\ Answered("sleep") => SleepsClose
  /\ Answered("speaker") => SpeakerQuiet
  /\ Answered("ata") => DescrambledExactly
  /\ Answered("descriptor") => DescribedExactly
  /\ Answered("ports") => PortsSet
  /\ Answered("screen") => ShowsLastRows
  /\ Answered("typing") => TypesKeys

(* A program gets what belongs to it: the bytes of its segments at their   *)
(* addresses and in no kernel memory, the words of its command line, and   *)
(* calls whose arguments the kernel receives in order (process.c,          *)
(* syscall.c, lib/user).                                                   *)
ProgramsFaithful ==
  /\ Answered("segment") => SegmentsFaithful
  /\ Answered("arguments") => ArgumentsFaithful
  /\ Answered("keys") => KeysFaithful
  /\ Answered("call") => CallsFaithful

(* The linked lists of list.c behave as sequences and the tables of hash.c *)
(* as dictionaries through every order of calls, also when a table could   *)
(* not be resized.                                                         *)
CollectionsFaithful == L!ImplementsSequences /\ []T!TableSound /\ T!DictionarySteps
=============================================================================
