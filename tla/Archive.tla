------------------------------ MODULE Archive -------------------------------
(***************************************************************************)
(* filesys/fsutil.c: copying files between the file system and a tar       *)
(* archive on the scratch device, one sector at a time, so that the        *)
(* machine may stop between any two of them.                               *)
(*                                                                         *)
(* A sector of the device is Zeros, Header(f, n) for file f of n sectors,  *)
(* or Data(f, i) for its i-th sector (Ustar checks that a header survives  *)
(* being written and parsed).  A file is the sequence of its sectors.      *)
(***************************************************************************)
EXTENDS Integers, Sequences, SequencesExt, FiniteSets, Functions

CONSTANTS File,         \* file names
          Sectors,      \* sectors of the scratch device
          MaxLength,    \* bound: sectors of a file
          MaxBoots,     \* bound: restarts of the machine
          NONE

VARIABLES dev,          \* the scratch device
          fs,           \* the files of the file system
          ext,          \* fsutil_extract()'s static sector
          app,          \* fsutil_append()'s static sector
          op,           \* the operation in progress
          appended,     \* history: the files appended since the machine
                        \* started, or NONE when they were extracted over
          boots,        \* restarts so far
          state         \* "up" or "panic"

vars == <<dev, fs, ext, app, op, appended, boots, state>>

Zeros == <<"zeros">>
Header(f, n) == <<"header", f, n>>
Data(f, i) == <<"data", f, i>>
Contents(f, n) == [i \in 1 .. n |-> Data(f, i)]

Idle == [kind |-> "idle"]

(* What a tar program makes of the sectors s: files up to the end mark; or *)
(* NONE for no archive.                                                    *)
RECURSIVE Parse(_, _)
Parse(s, at) ==
  IF at + 1 >= Sectors THEN NONE
  ELSE IF s[at] = Zeros THEN IF s[at + 1] = Zeros THEN <<>> ELSE NONE
  ELSE IF s[at][1] # "header" \/ at + s[at][3] >= Sectors THEN NONE
  ELSE LET rest == Parse(s, at + 1 + s[at][3])
       IN IF rest = NONE THEN NONE
          ELSE <<[name |-> s[at][2],
                  data |-> [i \in 1 .. s[at][3] |-> s[at + i]]]>> \o rest

(* Extracting an archive: its files on top of those that are there.        *)
Extracted(files, archive) ==
  [f \in File |-> LET hits == SelectSeq(archive, LAMBDA e : e.name = f)
                  IN IF hits = <<>> THEN files[f] ELSE Last(hits).data]

(* block_write() and block_read() panic beyond the end of the device.      *)
block_write(at, what) ==
  IF at < Sectors THEN dev' = [dev EXCEPT ![at] = what] /\ state' = state
  ELSE state' = "panic" /\ UNCHANGED dev

-----------------------------------------------------------------------------
(* fsutil_append *)

fsutil_append(f) ==
  /\ state = "up" /\ op = Idle
  /\ fs[f] # NONE
  /\ op' = [kind |-> "append", file |-> f, step |-> "header", left |-> fs[f]]
  /\ UNCHANGED <<dev, fs, ext, app, appended, boots, state>>

AppendHeader ==
  /\ state = "up" /\ op.kind = "append" /\ op.step = "header"
  /\ block_write(app, Header(op.file, Len(op.left)))
  /\ app' = app + 1
  /\ op' = [op EXCEPT !.step = "data"]
  /\ UNCHANGED <<fs, ext, appended, boots>>

AppendData ==
  /\ state = "up" /\ op.kind = "append" /\ op.step = "data" /\ op.left # <<>>
  /\ block_write(app, Head(op.left))
  /\ app' = app + 1
  /\ op' = [op EXCEPT !.left = Tail(op.left)]
  /\ UNCHANGED <<fs, ext, appended, boots>>

(* The end mark; the position stays before it.                             *)
AppendMark ==
  /\ state = "up" /\ op.kind = "append" /\ op.step = "data" /\ op.left = <<>>
  /\ block_write(app, Zeros)
  /\ op' = [op EXCEPT !.step = "mark"]
  /\ UNCHANGED <<fs, ext, app, appended, boots>>

AppendDone ==
  /\ state = "up" /\ op.kind = "append" /\ op.step = "mark"
  /\ block_write(app + 1, Zeros)
  /\ appended' = IF appended = NONE THEN NONE
                 ELSE Append(appended, [name |-> op.file, data |-> fs[op.file]])
  /\ op' = Idle
  /\ UNCHANGED <<fs, ext, app, boots>>

-----------------------------------------------------------------------------
(* fsutil_extract *)

(* op.want, a history, is what the file system has to be at the end when   *)
(* the extraction starts at the beginning of a complete archive.           *)
fsutil_extract ==
  /\ state = "up" /\ op = Idle
  /\ op' = [kind |-> "extract", step |-> "header", file |-> NONE, pos |-> 0,
            want |-> IF ext = 0 /\ Parse(dev, 0) # NONE
                     THEN Extracted(fs, Parse(dev, 0)) ELSE NONE]
  /\ UNCHANGED <<dev, fs, ext, app, appended, boots, state>>

Extracting(step) == state = "up" /\ op.kind = "extract" /\ op.step = step

(* A header: the end of the archive, or a file that is created with its    *)
(* full size.  Anything else, a file that exists or cannot be created, and *)
(* a sector beyond the device, is a panic.                                 *)
ExtractEnd ==
  /\ Extracting("header") /\ ext < Sectors /\ dev[ext] = Zeros
  /\ ext' = ext + 1
  /\ op' = [op EXCEPT !.step = "erase"]
  /\ UNCHANGED <<dev, fs, app, appended, boots, state>>

ExtractFile ==
  /\ Extracting("header") /\ ext < Sectors /\ dev[ext][1] = "header"
  /\ LET f == dev[ext][2]
     IN /\ fs[f] = NONE
        /\ fs' = [fs EXCEPT ![f] = [i \in 1 .. dev[ext][3] |-> Zeros]]
        /\ op' = [op EXCEPT !.step = "data", !.file = f, !.pos = 0]
  /\ ext' = ext + 1
  /\ UNCHANGED <<dev, app, appended, boots, state>>

ExtractPanic ==
  /\ Extracting("header")
  /\ IF ext >= Sectors THEN TRUE ELSE dev[ext] # Zeros
  /\ state' = "panic"
  /\ UNCHANGED <<dev, fs, ext, app, op, appended, boots>>

ExtractDataStuck ==
  /\ Extracting("data") /\ op.pos < Len(fs[op.file]) /\ ext < Sectors
  /\ fs' = [fs EXCEPT ![op.file][1] = dev[ext]]
  /\ ext' = ext + 1
  /\ op' = [op EXCEPT !.pos = @ + 1]
  /\ UNCHANGED <<dev, app, appended, boots, state>>
ExtractData ==
  /\ Extracting("data") /\ op.pos < Len(fs[op.file]) /\ ext < Sectors
  /\ fs' = [fs EXCEPT ![op.file][op.pos + 1] = dev[ext]]
  /\ ext' = ext + 1
  /\ op' = [op EXCEPT !.pos = @ + 1]
  /\ UNCHANGED <<dev, app, appended, boots, state>>

ExtractNext ==
  /\ Extracting("data") /\ op.pos = Len(fs[op.file])
  /\ op' = [op EXCEPT !.step = "header"]
  /\ UNCHANGED <<dev, fs, ext, app, appended, boots, state>>

(* Two sectors are erased so that the extraction is not repeated.          *)
ExtractErase ==
  /\ Extracting("erase")
  /\ block_write(0, Zeros)
  /\ appended' = IF app = 0 THEN appended ELSE NONE
  /\ op' = [op EXCEPT !.step = "erase1"]
  /\ UNCHANGED <<fs, ext, app, boots>>

ExtractDone ==
  /\ Extracting("erase1")
  /\ block_write(1, Zeros)
  /\ op' = Idle
  /\ UNCHANGED <<fs, ext, app, appended, boots>>

-----------------------------------------------------------------------------

fsutil_rm(f) ==
  /\ state = "up" /\ op = Idle
  /\ fs[f] # NONE
  /\ fs' = [fs EXCEPT ![f] = NONE]
  /\ UNCHANGED <<dev, ext, app, op, appended, boots, state>>

(* The machine stops anywhere and starts again: both positions are 0.      *)
Reboot ==
  /\ boots < MaxBoots
  /\ boots' = boots + 1
  /\ ext' = 0 /\ app' = 0
  /\ op' = Idle
  /\ appended' = <<>>
  /\ state' = "up"
  /\ UNCHANGED <<dev, fs>>

(* The sectors of an archive of the files `names', each of n sectors, on a *)
(* device that held a longer archive before.                               *)
RECURSIVE Packed(_, _)
Packed(names, n) ==
  IF names = <<>> THEN <<Zeros, Zeros>>
  ELSE <<Header(names[1], n)>> \o Contents(names[1], n) \o Packed(Tail(names), n)

Init ==
  /\ \E names \in {s \in SeqOf(File, 2) : IsInjective(s)}, n \in 0 .. MaxLength,
       k \in 0 .. MaxLength :
       /\ Len(Packed(names, n)) <= Sectors
       /\ dev = [i \in 0 .. Sectors - 1 |->
                   IF i < Len(Packed(names, n)) THEN Packed(names, n)[i + 1]
                   ELSE Data(CHOOSE f \in File : TRUE, 1)]
       /\ fs \in [File -> {NONE}] \union
                {[f \in File |-> IF f \in ToSet(names) THEN NONE ELSE Contents(f, k)]}
  /\ ext = 0 /\ app = 0 /\ op = Idle /\ appended = <<>> /\ boots = 0 /\ state = "up"

Next ==
  \/ \E f \in File : fsutil_append(f)
  \/ AppendHeader
  \/ AppendData
  \/ AppendMark
  \/ AppendDone
  \/ fsutil_extract
  \/ ExtractEnd
  \/ ExtractFile
  \/ ExtractPanic
  \/ ExtractData
  \/ ExtractNext
  \/ ExtractErase
  \/ ExtractDone
  \/ \E f \in File : fsutil_rm(f)
  \/ Reboot

Spec == Init /\ [][Next]_vars

-----------------------------------------------------------------------------
(* Properties *)

(* After each fsutil_append() the device holds an archive, with its end    *)
(* mark, of exactly the files appended since the machine started, whatever *)
(* was on it before (fsutil.c:195-218), unless they were extracted over.   *)
ArchiveReadable ==
  (state = "up" /\ op = Idle /\ appended \notin {NONE, <<>>}) => Parse(dev, 0) = appended

(* An extraction from the start of an archive adds its files with their    *)
(* contents and changes no other, and leaves an empty archive, so that     *)
(* another one after a restart adds nothing (fsutil.c:145-152).            *)
ExtractFaithful ==
  [][(op.kind = "extract" /\ op' = Idle /\ boots' = boots /\ op.want # NONE)
     => (fs' = op.want /\ Parse(dev', 0) = <<>>)]_vars
=============================================================================
