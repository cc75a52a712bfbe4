----------------------------- MODULE Executable -----------------------------
(***************************************************************************)
(* How userprog/process.c turns a command line and an ELF file into the    *)
(* memory a program starts in, and how a system call crosses back: load()  *)
(* and its helpers, push_argument(), the syscall macros of                 *)
(* lib/user/syscall.c and syscall_handler() of userprog/syscall.c.         *)
(* What happens to the pages afterwards is VirtualMemory's subject.        *)
(***************************************************************************)
EXTENDS Integers, Sequences, SequencesExt, Strings, FiniteSets, FiniteSetsExt

CONSTANTS PGSIZE,       \* bytes in a page, 4096 in the code
          PHYS_BASE,    \* where user memory ends, 3 GB in the code
          Addresses     \* 2^32 in the code: 32-bit arithmetic wraps

is_user_vaddr(a) == a % Addresses < PHYS_BASE

-----------------------------------------------------------------------------
(* load(): a program header is [type, offset, vaddr, filesz, memsz].       *)

ValidateNoWrap(ph, length) ==
  /\ ph.offset % PGSIZE = ph.vaddr % PGSIZE
  /\ ph.offset <= length
  /\ ph.memsz >= ph.filesz
  /\ ph.memsz # 0
  /\ is_user_vaddr(ph.vaddr)
  /\ is_user_vaddr(ph.vaddr + ph.memsz)
  /\ ph.vaddr >= PGSIZE
validate_segment(ph, length) ==
  /\ ph.offset % PGSIZE = ph.vaddr % PGSIZE
  /\ ph.offset <= length
  /\ ph.memsz >= ph.filesz
  /\ ph.memsz # 0
  /\ is_user_vaddr(ph.vaddr)
  /\ is_user_vaddr(ph.vaddr + ph.memsz)
  /\ (ph.vaddr + ph.memsz) % Addresses >= ph.vaddr
  /\ ph.vaddr >= PGSIZE

RoundDown(a) == a - (a % PGSIZE)
RoundUp(a) == RoundDown(a + PGSIZE - 1)

(* The arguments load() gives load_segment().                              *)
SegmentArguments(ph) ==
  LET page_offset == ph.vaddr % PGSIZE
      read_bytes == IF ph.filesz > 0 THEN page_offset + ph.filesz ELSE 0
  IN [ofs |-> RoundDown(ph.offset), upage |-> RoundDown(ph.vaddr),
      read_bytes |-> read_bytes,
      zero_bytes |-> (RoundUp(page_offset + ph.memsz) - read_bytes) % Addresses]

(* load_segment(): one entry of the supplemental page table for each page. *)
PageRead(seg, i) ==
  LET left == seg.read_bytes - (i * PGSIZE)
  IN IF left <= 0 THEN 0 ELSE IF left < PGSIZE THEN left ELSE PGSIZE
load_segment(seg) ==
  [i \in 1 .. (seg.read_bytes + seg.zero_bytes) \div PGSIZE |->
     [upage |-> seg.upage + ((i - 1) * PGSIZE), ofs |-> seg.ofs + ((i - 1) * PGSIZE),
      read |-> PageRead(seg, i - 1)]]

(* The program headers in turn.  `valid' stands for the checks of the ELF  *)
(* header and of the headers' place in the file.                           *)
load_step(x, ph, length) ==
  CASE x.failed -> x
    [] ph.type \in {"dynamic", "interp", "shlib"} -> [x EXCEPT !.failed = TRUE]
    [] ph.type = "load" ->
         IF validate_segment(ph, length)
         THEN [x EXCEPT !.pages = @ \o load_segment(SegmentArguments(ph))]
         ELSE [x EXCEPT !.failed = TRUE]
    [] OTHER -> x

LoadHeaders(valid, phdrs, length) ==
  FoldLeft(LAMBDA x, ph : load_step(x, ph, length),
           [failed |-> ~valid, pages |-> <<>>, eip |-> 0], phdrs)

(* load(), with setup_stack() succeeding or not: the start address is only *)
(* set at the end.                                                         *)
load(valid, phdrs, length, stack, entry) ==
  LET x == LoadHeaders(valid, phdrs, length)
  IN IF x.failed \/ ~stack THEN [x EXCEPT !.failed = TRUE] ELSE [x EXCEPT !.eip = entry]

-----------------------------------------------------------------------------
(* The command line: the tokens of file_name, split at spaces.  The string *)
(* is at address s of memory m, the string " " at address blank.           *)

RECURSIVE Tokens(_, _, _, _)
Tokens(m, s, blank, found) ==
  LET next == strtok_r(m, s, blank)
  IN IF next.token = NULL_PTR THEN [mem |-> m, argv |-> found]
     ELSE Tokens(next.mem, next.save, blank, Append(found, next.token))

load_arguments(m, s, blank) == Tokens(m, s, blank, <<>>)

(* push_argument(): m is the memory of the process, args the strings       *)
(* (sequences of bytes without the NUL).  A word is kept whole at its      *)
(* lowest address.  The result is the memory and the stack pointer.        *)
Store(m, a, bytes) == [p \in DOMAIN m |->
                         IF p \in a .. a + Len(bytes) - 1 THEN bytes[p - a + 1] ELSE m[p]]

push_string(x, arg) ==
  LET at == x.esp - (Len(arg) + 1)
  IN [mem |-> Store(x.mem, at, Append(arg, NUL)), esp |-> at, addr |-> <<at>> \o x.addr]

push_word(x, w) == [x EXCEPT !.esp = @ - 4, !.mem = [@ EXCEPT ![x.esp - 4] = w]]

push_argument(m, args) ==
  LET strings == FoldLeft(push_string, [mem |-> m, esp |-> PHYS_BASE, addr |-> <<>>],
                          Reverse(args))
      aligned == [strings EXCEPT !.esp = @ - ((4 - ((PHYS_BASE - @) % 4)) + 4)]
      pointers == FoldLeft(push_word, aligned, Reverse(strings.addr))
      counted == push_word(push_word(pointers, pointers.esp), Len(args))
  IN [counted EXCEPT !.esp = @ - 4]

(* What _start (argc, argv) finds above the return address.                *)
Start(x) ==
  LET argc == x.mem[x.esp + 4]
      argv == x.mem[x.esp + 8]
  IN [argc |-> argc, argv |-> [i \in 0 .. argc |-> x.mem[argv + (4 * i)]]]

StringAt(m, p) == [i \in 1 .. strlen(m, p) |-> m[p + i - 1]]

-----------------------------------------------------------------------------
(* System calls: the wrappers of lib/user/syscall.c.                       *)

Wrapper ==
  [halt |-> 0, exit |-> 1, exec |-> 1, wait |-> 1, create |-> 2, remove |-> 1,
   open |-> 1, filesize |-> 1, read |-> 3, write |-> 3, seek |-> 2, tell |-> 1,
   close |-> 1, mmap |-> 2, munmap |-> 1, chdir |-> 1, mkdir |-> 1, readdir |-> 2,
   isdir |-> 1, inumber |-> 1, fibonacci |-> 1, max_of_four_int |-> 4]

(* syscallN: the arguments from the last to the first, then the number;    *)
(* the stack pointer at `int $0x30', and after the `addl' that follows.    *)
syscall(m, esp, number, args) ==
  FoldLeft(push_word, [mem |-> m, esp |-> esp], Append(Reverse(args), number))
AfterCall(x, args) == x.esp + (4 * (Len(args) + 1))

(* syscall_handler(): the functions it calls and the words it passes; the  *)
(* other numbers fall through and leave eax as it was.                     *)
Handled ==
  [halt |-> 0, exit |-> 1, exec |-> 1, wait |-> 1, read |-> 3, write |-> 3,
   fibonacci |-> 1, max_of_four_int |-> 4, create |-> 2, remove |-> 1, open |-> 1,
   filesize |-> 1, seek |-> 2, tell |-> 1, close |-> 1]

syscall_handler(m, esp) ==
  LET number == m[esp]
      word(i) == esp + (4 * i)
  IN IF ~is_user_vaddr(esp) THEN [call |-> "exit", args |-> <<-1>>]
     ELSE IF number \notin DOMAIN Handled THEN [call |-> "none", args |-> <<>>]
     ELSE IF \E i \in 1 .. Handled[number] : ~is_user_vaddr(word(i))
     THEN [call |-> "exit", args |-> <<-1>>]
     ELSE [call |-> number, args |-> [i \in 1 .. Handled[number] |-> m[word(i)]]]

(* Two calls that are computed on the spot.                                *)
RECURSIVE fibonacci(_)
fibonacci(n) == IF n <= 0 THEN -1 ELSE IF n <= 2 THEN 1 ELSE fibonacci(n - 1) + fibonacci(n - 2)

max_of_four_int(a, b, c, d) ==
  FoldLeft(LAMBDA retval, x : IF retval < x THEN x ELSE retval, a, <<b, c, d>>)

(* read() from the keyboard: it takes characters up to the first NUL, which *)
(* it stores but does not count, or the size; buffer is an int *, so they  *)
(* lie 4 bytes apart.                                                      *)
read_keyboard(typed, size) ==
  LET nuls == {i \in 1 .. size : typed[i] = NUL}
      cnt == IF nuls = {} THEN size ELSE Min(nuls) - 1
  IN [result |-> cnt,
      buffer |-> [i \in 1 .. Min({cnt + 1, size}) |-> [at |-> 4 * (i - 1), char |-> typed[i]]]]
=============================================================================
