----------------------------- MODULE IdeProofs -----------------------------
(***************************************************************************)
(* The theorems of Ide: the channel is sound and the sectors are atomic,   *)
(* for any number of threads and sectors, any contents, and any number of  *)
(* requests, spurious interrupts and faults.                               *)
(***************************************************************************)
EXTENDS Ide, TLAPS

(* Where Main is in ide_init, and where a thread is while it has the lock. *)
BootLabel == {"reset", "identify", "identify_irq", "identify_busy"}
Using == {"select", "irq", "busy", "transfer", "release"}
Label == BootLabel \cup Using \cup {"boot", "ready", "acquire"}

(* The types, with those of the labels, the command register and the       *)
(* counts; no request is for a sector beyond the end (check_sector).       *)
Types ==
  /\ is_ata \subseteq Disk /\ registered \subseteq is_ata
  /\ expecting_interrupt \in BOOLEAN /\ lock \in Thread \cup {NULL}
  /\ completion_wait \in Nat
  /\ selected \in Disk /\ lba \in Sector /\ status \in {"idle", "busy", "drq", "error"}
  /\ command \in {"none", "identify", "read", "write", "store"}
  /\ irq \in BOOLEAN /\ latch \in Data /\ media \in [Disk -> [Sector -> Data]]
  /\ pc \in [Thread -> Label]
  /\ request \in [Thread -> Request] /\ \A t \in Thread : request[t].sector \in Sector
  /\ buffer \in [Thread -> Data]
  /\ spurious \in 0 .. MaxSpurious /\ faults \in Nat
  /\ panicked \in {"no", "sector", "io", "held"}

(* lock_acquire and lock_release: the holder is the one thread in between. *)
LockInv == \A t \in Thread : pc[t] \in Using <=> lock = t

(* While Main detects and identifies disks no other thread has started and *)
(* nobody has the lock; it waits for an answer only of a disk it has found. *)
BootInv ==
  /\ \A t \in Thread : pc[t] \in BootLabel =>
       /\ t = Main /\ lock = NULL
       /\ \A u \in Thread \ {Main} : pc[u] = "boot"
       /\ pc[t] \in {"identify_irq", "identify_busy"} => Unidentified # {}
  /\ \A t, u \in Thread \ {Main} : pc[t] = "boot" => pc[u] = "boot"
  /\ pc[Main] # "boot"
  /\ pc[Main] = "reset" => registered = {}

(* Completions are counted in completion_wait, pending on the line, or to  *)
(* come from a busy controller: there are no more of them than the thread  *)
(* in sema_down waits for, and the spurious ones.                          *)
Bit(b) == IF b THEN 1 ELSE 0
Waiting == \E t \in Thread : pc[t] \in {"irq", "identify_irq"}
Coming == status = "busy" /\ command # "write"
Tokens == completion_wait + Bit(irq) + Bit(Coming) <= spurious + Bit(Waiting)

(* The controller works for the thread on the channel. *)
Chosen(t) == selected = request[t].disk /\ lba = request[t].sector
ReadInv ==
  \A t \in Thread : pc[t] \in {"irq", "busy", "transfer"} /\ request[t].op = "read" =>
    /\ command = "read" /\ Chosen(t) /\ status \in {"busy", "drq", "error"}
    /\ status = "drq" => latch = media[request[t].disk][request[t].sector]
    /\ pc[t] = "transfer" => status = "drq"
WriteInv ==
  \A t \in Thread : pc[t] \in {"busy", "transfer"} /\ request[t].op = "write" =>
    /\ command = "write" /\ Chosen(t) /\ status \in {"busy", "drq", "error"}
    /\ pc[t] = "transfer" => status = "drq"
StoreInv ==
  \A t \in Thread : pc[t] \in {"irq", "release"} /\ request[t].op = "write" =>
    /\ command = "store" /\ Chosen(t) /\ latch = request[t].data
    /\ status \in {"busy", "idle", "error"}
    /\ status = "idle" => media[request[t].disk][request[t].sector] = request[t].data
    /\ status = "error" => faults > 0

(* The inductive invariant. *)
IInv == Types /\ LockInv /\ BootInv /\ Tokens /\ ReadInv /\ WriteInv /\ StoreInv

-----------------------------------------------------------------------------
(* Facts about the model's operators. *)

(* The first disk that is still to be identified is one. *)
LEMMA NextDiskIs ==
  ASSUME is_ata \subseteq Disk, Unidentified # {}
  PROVE  NextDisk \in Unidentified /\ NextDisk \in Disk
<1>1. \A d \in Unidentified : d = 0 \/ d = 1
  <2>1. \A d \in Disk : d = 0 \/ d = 1
    BY DEF Disk
  <2> QED
    BY Zenon, <2>1 DEF Unidentified
<1>2. \E d \in Unidentified : \A e \in Unidentified : d <= e
  <2>1. CASE 0 \in Unidentified
    BY <1>1, <2>1
  <2>2. CASE 0 \notin Unidentified
    <3>1. PICK d \in Unidentified : TRUE
      BY Zenon
    <3>2. d = 1 /\ \A e \in Unidentified : e = 1
      BY Zenon, <1>1, <2>2
    <3> QED
      BY <3>2
  <2> QED
    BY Zenon, <2>1, <2>2
<1>3. NextDisk \in Unidentified
  BY Zenon, <1>2 DEF NextDisk
<1> QED
  BY Zenon, <1>3 DEF Unidentified

(* A request is for a disk, and has contents to write. *)
LEMMA RequestFields ==
  ASSUME NEW r \in Request
  PROVE  r.op \in {"read", "write"} /\ r.disk \in Disk /\ r.data \in Data /\ r.sector \in Int
BY ConstantsAssumption DEF Request, Sector

(* ide_init reads the first sector of a disk. *)
LEMMA ScanIs ==
  ASSUME NEW d \in Disk
  PROVE  Scan(d) \in Request /\ Scan(d).op = "read" /\ Scan(d).sector \in Sector
BY ConstantsAssumption DEF Scan, Request, Sector

-----------------------------------------------------------------------------
(* Every step preserves the invariant. *)

(* The controller finishes a command. *)
LEMMA HwDoneStep ==
  ASSUME IInv, HwDone
  PROVE  IInv'
<1>1. Types'
  <2>1. media[selected][lba] \in Data
    BY Zenon DEF IInv, Types
  <2>2. media' \in [Disk -> [Sector -> Data]]
    <3>1. CASE UNCHANGED media
      BY Zenon, <3>1 DEF IInv, Types
    <3>2. CASE media' = [media EXCEPT ![selected][lba] = latch]
      BY Zenon, <3>2 DEF IInv, Types
    <3> QED
      BY Zenon, <3>1, <3>2 DEF HwDone
  <2>3. latch' \in Data
    BY Zenon, <2>1 DEF IInv, Types, HwDone
  <2> QED
    BY Zenon, <2>2, <2>3 DEF IInv, Types, HwDone, driverVars, counts
<1>2. LockInv'
  BY Zenon DEF IInv, LockInv, HwDone, driverVars
<1>3. BootInv'
  BY Zenon DEF IInv, BootInv, Unidentified, HwDone, driverVars
<1>4. Tokens'
  BY DEF IInv, Types, Tokens, Bit, Coming, Waiting, HwDone, driverVars, counts
<1>5. ReadInv'
  BY Zenon DEF IInv, ReadInv, Chosen, HwDone
<1>6. WriteInv'
  BY Zenon DEF IInv, WriteInv, Chosen, HwDone
<1>7. StoreInv'
  BY DEF IInv, Types, StoreInv, Chosen, HwDone
<1> QED
  BY Zenon, <1>1, <1>2, <1>3, <1>4, <1>5, <1>6, <1>7 DEF IInv

(* A command fails. *)
LEMMA HwFaultStep ==
  ASSUME IInv, HwFault
  PROVE  IInv'
<1>1. Types'
  BY DEF IInv, Types, HwFault, driverVars
<1>2. LockInv'
  BY Zenon DEF IInv, LockInv, HwFault, driverVars
<1>3. BootInv'
  BY Zenon DEF IInv, BootInv, Unidentified, HwFault, driverVars
<1>4. Tokens'
  BY DEF IInv, Types, Tokens, Bit, Coming, Waiting, HwFault, driverVars
<1>5. ReadInv'
  BY Zenon DEF IInv, ReadInv, Chosen, HwFault
<1>6. WriteInv'
  BY Zenon DEF IInv, WriteInv, Chosen, HwFault
<1>7. StoreInv'
  BY DEF IInv, Types, StoreInv, Chosen, HwFault
<1> QED
  BY Zenon, <1>1, <1>2, <1>3, <1>4, <1>5, <1>6, <1>7 DEF IInv

(* A spurious interrupt. *)
LEMMA HwSpuriousStep ==
  ASSUME IInv, HwSpurious
  PROVE  IInv'
<1>1. Types'
  BY ConstantsAssumption DEF IInv, Types, HwSpurious, driverVars
<1>2. LockInv'
  BY Zenon DEF IInv, LockInv, HwSpurious, driverVars
<1>3. BootInv'
  BY Zenon DEF IInv, BootInv, Unidentified, HwSpurious, driverVars
<1>4. Tokens'
  BY DEF IInv, Types, Tokens, Bit, Coming, Waiting, HwSpurious, driverVars
<1>5. ReadInv'
  BY Zenon DEF IInv, ReadInv, Chosen, HwSpurious
<1>6. WriteInv'
  BY Zenon DEF IInv, WriteInv, Chosen, HwSpurious
<1>7. StoreInv'
  BY Zenon DEF IInv, StoreInv, Chosen, HwSpurious
<1> QED
  BY Zenon, <1>1, <1>2, <1>3, <1>4, <1>5, <1>6, <1>7 DEF IInv

(* The completion interrupt. *)
LEMMA InterruptStep ==
  ASSUME IInv, interrupt_handler
  PROVE  IInv'
<1>1. Types'
  <2>1. completion_wait' \in Nat
    BY DEF IInv, Types, interrupt_handler
  <2> QED
    BY Zenon, <2>1 DEF IInv, Types, interrupt_handler, counts
<1>2. LockInv'
  BY Zenon DEF IInv, LockInv, interrupt_handler
<1>3. BootInv'
  BY Zenon DEF IInv, BootInv, Unidentified, interrupt_handler
<1>4. Tokens'
  BY DEF IInv, Types, Tokens, Bit, Coming, Waiting, interrupt_handler, counts
<1>5. ReadInv'
  BY Zenon DEF IInv, ReadInv, Chosen, interrupt_handler
<1>6. WriteInv'
  BY Zenon DEF IInv, WriteInv, Chosen, interrupt_handler
<1>7. StoreInv'
  BY Zenon DEF IInv, StoreInv, Chosen, interrupt_handler, counts
<1> QED
  BY Zenon, <1>1, <1>2, <1>3, <1>4, <1>5, <1>6, <1>7 DEF IInv

(* Detection of the disks. *)
LEMMA DetectStep ==
  ASSUME IInv, Detect
  PROVE  IInv'
<1>1. Types'
  <2>1. is_ata' \subseteq Disk
    BY Zenon DEF Detect
  <2>2. registered' \subseteq is_ata'
    BY Zenon DEF IInv, BootInv, Detect, At
  <2>3. pc' \in [Thread -> Label]
    BY Zenon DEF IInv, Types, Detect, Goto, Label, BootLabel
  <2> QED
    BY Zenon, <2>1, <2>2, <2>3 DEF IInv, Types, Detect, reset_channel, counts
<1>2. LockInv'
  BY DEF IInv, LockInv, Using, Detect, At, Goto
<1>3. BootInv'
  BY DEF IInv, BootInv, BootLabel, Detect, At, Goto
<1>4. Tokens'
  BY ConstantsAssumption DEF IInv, Types, Tokens, Bit, Coming, Waiting, BootInv, BootLabel,
        Detect, At, reset_channel, counts
<1>5. ReadInv'
  BY DEF IInv, ReadInv, Chosen, Detect, Goto
<1>6. WriteInv'
  BY DEF IInv, WriteInv, Chosen, Detect, Goto
<1>7. StoreInv'
  BY ConstantsAssumption DEF IInv, StoreInv, BootInv, BootLabel, Detect, At, Goto
<1> QED
  BY Zenon, <1>1, <1>2, <1>3, <1>4, <1>5, <1>6, <1>7 DEF IInv

(* The command to identify a disk. *)
LEMMA IdentifyCommandStep ==
  ASSUME IInv, IdentifyCommand
  PROVE  IInv'
<1>1. Types'
  <2>1. NextDisk \in Disk
    BY Zenon, NextDiskIs DEF IInv, Types, IdentifyCommand
  <2>2. pc' \in [Thread -> Label]
    BY Zenon DEF IInv, Types, IdentifyCommand, Goto, Label, BootLabel
  <2> QED
    BY Zenon, <2>1, <2>2
    DEF IInv, Types, IdentifyCommand, select_device_wait, wait_until_idle, issue_pio_command,
        counts
<1>2. LockInv'
  BY DEF IInv, LockInv, Using, IdentifyCommand, At, Goto
<1>3. BootInv'
  BY DEF IInv, BootInv, BootLabel, Unidentified, IdentifyCommand, At, Goto
<1>4. Tokens'
  BY ConstantsAssumption DEF IInv, Types, Tokens, Bit, Waiting, BootInv, BootLabel,
        IdentifyCommand, At, Goto, select_device_wait, wait_until_idle, counts
<1>5. ReadInv'
  BY ConstantsAssumption DEF IInv, ReadInv, BootInv, BootLabel, IdentifyCommand, At, Goto
<1>6. WriteInv'
  BY ConstantsAssumption DEF IInv, WriteInv, BootInv, BootLabel, IdentifyCommand, At, Goto
<1>7. StoreInv'
  BY ConstantsAssumption DEF IInv, StoreInv, BootInv, BootLabel, IdentifyCommand, At, Goto
<1> QED
  BY Zenon, <1>1, <1>2, <1>3, <1>4, <1>5, <1>6, <1>7 DEF IInv

(* The interrupt that identification waits for. *)
LEMMA IdentifyIrqStep ==
  ASSUME IInv, IdentifyIrq
  PROVE  IInv'
<1>1. Types'
  BY ConstantsAssumption DEF IInv, Types, Label, BootLabel, IdentifyIrq, Goto,
        sema_down_completion, hwVars, counts
<1>2. LockInv'
  BY DEF IInv, LockInv, Using, IdentifyIrq, At, Goto
<1>3. BootInv'
  BY DEF IInv, BootInv, BootLabel, Unidentified, IdentifyIrq, At, Goto
<1>4. Tokens'
  BY DEF IInv, Types, Tokens, Bit, Coming, IdentifyIrq, sema_down_completion, hwVars, counts
<1>5. ReadInv'
  BY ConstantsAssumption DEF IInv, ReadInv, BootInv, BootLabel, IdentifyIrq, At, Goto
<1>6. WriteInv'
  BY ConstantsAssumption DEF IInv, WriteInv, BootInv, BootLabel, IdentifyIrq, At, Goto
<1>7. StoreInv'
  BY ConstantsAssumption DEF IInv, StoreInv, BootInv, BootLabel, IdentifyIrq, At, Goto
<1> QED
  BY Zenon, <1>1, <1>2, <1>3, <1>4, <1>5, <1>6, <1>7 DEF IInv

(* The answer of a disk. *)
LEMMA IdentifyAnswerStep ==
  ASSUME IInv, IdentifyAnswer
  PROVE  IInv'
<1>1. Types'
  <2>1. NextDisk \in Unidentified /\ NextDisk \in Disk
    BY Zenon, NextDiskIs, ConstantsAssumption DEF IInv, Types, BootInv, BootLabel, IdentifyAnswer,
       At
  <2>2. registered' \subseteq is_ata' /\ is_ata' \subseteq Disk
    BY <2>1 DEF IInv, Types, IdentifyAnswer, Unidentified
  <2>3. request' \in [Thread -> Request] /\ \A t \in Thread : request'[t].sector \in Sector
    BY Zenon, <2>1, ScanIs, ConstantsAssumption DEF IInv, Types, IdentifyAnswer
  <2>4. pc' \in [Thread -> Label]
    BY Zenon DEF IInv, Types, IdentifyAnswer, Goto, Label, BootLabel
  <2> QED
    BY <2>2, <2>3, <2>4 DEF IInv, Types, IdentifyAnswer, counts
<1>2. LockInv'
  BY Zenon DEF IInv, Types, LockInv, Using, IdentifyAnswer, At, Goto
<1>3. BootInv'
  BY Zenon DEF IInv, Types, BootInv, BootLabel, IdentifyAnswer, At, Goto
<1>4. Tokens'
  BY ConstantsAssumption DEF IInv, Types, Tokens, Bit, Coming, Waiting, BootInv, BootLabel,
        IdentifyAnswer, At, counts
<1>5. ReadInv'
  BY Zenon, ConstantsAssumption DEF IInv, Types, ReadInv, BootInv, BootLabel, IdentifyAnswer, At,
     Goto
<1>6. WriteInv'
  BY Zenon, ConstantsAssumption DEF IInv, Types, WriteInv, BootInv, BootLabel, IdentifyAnswer, At,
     Goto
<1>7. StoreInv'
  BY Zenon, ConstantsAssumption DEF IInv, Types, StoreInv, BootInv, BootLabel, IdentifyAnswer, At,
     Goto
<1> QED
  BY Zenon, <1>1, <1>2, <1>3, <1>4, <1>5, <1>6, <1>7 DEF IInv

(* The end of ide_init. *)
LEMMA BootedStep ==
  ASSUME IInv, Booted
  PROVE  IInv'
<1>1. Types'
  BY Zenon DEF IInv, Types, Label, Booted, driverVars, hwVars, counts
<1>2. LockInv'
  BY Zenon, ConstantsAssumption DEF IInv, LockInv, BootInv, BootLabel, Using, Booted, At, driverVars
<1>3. BootInv'
  BY Zenon, ConstantsAssumption DEF IInv, BootInv, BootLabel, Booted
<1>4. Tokens'
  BY Zenon, ConstantsAssumption DEF IInv, Tokens, Bit, Coming, Waiting, BootInv, BootLabel, Booted,
     At, driverVars, hwVars, counts
<1>5. ReadInv'
  BY Zenon DEF IInv, ReadInv, Booted
<1>6. WriteInv'
  BY Zenon DEF IInv, WriteInv, Booted
<1>7. StoreInv'
  BY Zenon DEF IInv, StoreInv, Booted
<1> QED
  BY Zenon, <1>1, <1>2, <1>3, <1>4, <1>5, <1>6, <1>7 DEF IInv

(* A call of block_read or block_write. *)
LEMMA CallStep ==
  ASSUME NEW t \in Thread, IInv, Call(t)
  PROVE  IInv'
<1>1. Types'
  <2>1. request' \in [Thread -> Request] /\ \A u \in Thread : request'[u].sector \in Sector
    <3>1. ASSUME NEW r \in Request, ~(r.sector >= Size) PROVE r.sector \in Sector
      BY <3>1, ConstantsAssumption DEF Request, Sector
    <3> QED
      BY Zenon, <3>1 DEF IInv, Types, Call, Panic
  <2>2. pc' \in [Thread -> Label] /\ panicked' \in {"no", "sector", "io", "held"}
    BY Zenon DEF IInv, Types, Call, Panic, Goto, Label
  <2> QED
    BY <2>1, <2>2 DEF IInv, Types, Call, Panic, driverVars, hwVars, counts
<1>2. LockInv'
  BY Zenon DEF IInv, Types, LockInv, Using, Call, Panic, At, Goto, driverVars
<1>3. BootInv'
  BY Zenon, ConstantsAssumption DEF IInv, Types, BootInv, BootLabel, Call, Panic, At, Goto
<1>4. Tokens'
  BY DEF IInv, Types, Tokens, Bit, Coming, Waiting, Call, Panic, At, Goto, driverVars, hwVars,
        counts
<1>5. ReadInv'
  BY DEF IInv, Types, ReadInv, Chosen, Call, Panic, Goto, hwVars
<1>6. WriteInv'
  BY DEF IInv, Types, WriteInv, Chosen, Call, Panic, Goto, hwVars
<1>7. StoreInv'
  BY DEF IInv, Types, StoreInv, Chosen, Call, Panic, Goto, hwVars, counts
<1> QED
  BY Zenon, <1>1, <1>2, <1>3, <1>4, <1>5, <1>6, <1>7 DEF IInv

(* lock_acquire. *)
LEMMA AcquireStep ==
  ASSUME NEW t \in Thread, IInv, Acquire(t)
  PROVE  IInv'
<1>1. Types'
  BY Zenon DEF IInv, Types, Label, Using, Acquire, Goto, hwVars, counts
<1>2. LockInv'
  BY Zenon, ConstantsAssumption DEF IInv, Types, LockInv, Using, Acquire, Goto
<1>3. BootInv'
  BY DEF IInv, BootInv, BootLabel, Acquire, At, Goto
<1>4. Tokens'
  BY ConstantsAssumption DEF IInv, Types, Tokens, Bit, Coming, Waiting, LockInv, BootInv,
        BootLabel, Using, Acquire, At, hwVars, counts
<1>5. ReadInv'
  BY ConstantsAssumption DEF IInv, ReadInv, LockInv, Using, Acquire, Goto
<1>6. WriteInv'
  BY ConstantsAssumption DEF IInv, WriteInv, LockInv, Using, Acquire, Goto
<1>7. StoreInv'
  BY ConstantsAssumption DEF IInv, StoreInv, LockInv, Using, Acquire, Goto
<1> QED
  BY Zenon, <1>1, <1>2, <1>3, <1>4, <1>5, <1>6, <1>7 DEF IInv

(* The command for a sector. *)
LEMMA CommandStep ==
  ASSUME NEW t \in Thread, IInv, Command(t)
  PROVE  IInv'
<1>1. Types'
  <2>1. /\ request[t].op \in {"read", "write"} /\ request[t].disk \in Disk
        /\ request[t].sector \in Sector
    BY Zenon, RequestFields DEF IInv, Types
  <2>2. pc' \in [Thread -> Label]
    BY Zenon DEF IInv, Types, Command, Goto, Label, Using
  <2> QED
    BY Zenon, <2>1, <2>2
    DEF IInv, Types, Command, select_sector, select_device_wait, wait_until_idle,
        issue_pio_command, counts
<1>2. LockInv'
  BY Zenon DEF IInv, Types, LockInv, Using, Command, At, Goto
<1>3. BootInv'
  BY DEF IInv, Types, BootInv, BootLabel, Command, At, Goto
<1>4. Tokens'
  <2>1. ~Waiting
    BY Zenon DEF IInv, LockInv, BootInv, BootLabel, Using, Waiting, Command, At
  <2>2. completion_wait' + Bit(irq') = completion_wait /\ completion_wait <= spurious
    BY <2>1 DEF IInv, Types, Tokens, Bit, Coming, Command, select_sector, select_device_wait,
                wait_until_idle
  <2>3. CASE request[t].op = "read"
    <3>1. Waiting'
      BY Zenon, <2>3 DEF IInv, Types, Waiting, Command, Goto
    <3> QED
      BY <2>2, <3>1 DEF IInv, Types, Tokens, Bit, Command, counts
  <2>4. CASE request[t].op # "read"
    <3>1. request[t].op = "write"
      BY Zenon, <2>4, RequestFields DEF IInv, Types
    <3>2. ~Coming'
      BY Zenon, <3>1 DEF Coming, Command, issue_pio_command
    <3> QED
      BY <2>2, <3>2 DEF IInv, Types, Tokens, Bit, Command, counts
  <2> QED
    BY Zenon, <2>3, <2>4
<1>5. ReadInv'
  BY DEF IInv, ReadInv, Chosen, LockInv, Using, Command, At, Goto, select_sector,
        select_device_wait, issue_pio_command
<1>6. WriteInv'
  BY DEF IInv, WriteInv, Chosen, LockInv, Using, Command, At, Goto, select_sector,
        select_device_wait, issue_pio_command
<1>7. StoreInv'
  BY DEF IInv, StoreInv, LockInv, Using, Command, At, Goto
<1> QED
  BY Zenon, <1>1, <1>2, <1>3, <1>4, <1>5, <1>6, <1>7 DEF IInv

(* sema_down of a request. *)
LEMMA CompletionStep ==
  ASSUME NEW t \in Thread, IInv, Completion(t)
  PROVE  IInv'
<1>1. Types'
  BY DEF IInv, Types, Label, Using, Completion, Goto, sema_down_completion, hwVars, counts
<1>2. LockInv'
  BY DEF IInv, LockInv, Using, Completion, At, Goto
<1>3. BootInv'
  BY DEF IInv, BootInv, BootLabel, Completion, At, Goto
<1>4. Tokens'
  BY DEF IInv, Types, Tokens, Bit, Coming, Completion, sema_down_completion, hwVars, counts
<1>5. ReadInv'
  BY DEF IInv, ReadInv, Chosen, Completion, At, Goto, hwVars
<1>6. WriteInv'
  BY DEF IInv, WriteInv, LockInv, Using, Completion, At, Goto
<1>7. StoreInv'
  BY DEF IInv, StoreInv, Chosen, Completion, At, Goto, hwVars, counts
<1> QED
  BY Zenon, <1>1, <1>2, <1>3, <1>4, <1>5, <1>6, <1>7 DEF IInv

(* The wait for the data request. *)
LEMMA BusyStep ==
  ASSUME NEW t \in Thread, IInv, Busy(t)
  PROVE  IInv'
<1>1. Types'
  BY Zenon DEF IInv, Types, Label, Using, Busy, Panic, Goto, wait_while_busy, driverVars, hwVars,
        counts
<1>2. LockInv'
  BY Zenon DEF IInv, Types, LockInv, Using, Busy, Panic, At, Goto, wait_while_busy, driverVars
<1>3. BootInv'
  BY ConstantsAssumption DEF IInv, Types, BootInv, BootLabel, Busy, Panic, At, Goto,
        wait_while_busy
<1>4. Tokens'
  BY DEF IInv, Types, Tokens, Bit, Coming, Waiting, LockInv, BootInv, BootLabel, Using, Busy,
        Panic, At, wait_while_busy, driverVars, hwVars, counts
<1>5. ReadInv'
  BY DEF IInv, Types, ReadInv, Chosen, Busy, Panic, At, Goto, wait_while_busy, hwVars
<1>6. WriteInv'
  BY Zenon DEF IInv, Types, WriteInv, Chosen, Busy, Panic, At, Goto, wait_while_busy, hwVars
<1>7. StoreInv'
  BY DEF IInv, Types, StoreInv, LockInv, Using, Busy, Panic, At, Goto, wait_while_busy
<1> QED
  BY Zenon, <1>1, <1>2, <1>3, <1>4, <1>5, <1>6, <1>7 DEF IInv

(* The transfer of a sector. *)
LEMMA TransferStep ==
  ASSUME NEW t \in Thread, IInv, Transfer(t)
  PROVE  IInv'
<1>1. Types'
  <2>1. request[t].data \in Data
    BY Zenon, RequestFields DEF IInv, Types
  <2>2. pc' \in [Thread -> Label] /\ buffer' \in [Thread -> Data] /\ latch' \in Data
    BY Zenon, <2>1 DEF IInv, Types, Transfer, Goto, Label, Using
  <2> QED
    BY Zenon, <2>2 DEF IInv, Types, Transfer, driverVars, counts
<1>2. LockInv'
  BY Zenon DEF IInv, Types, LockInv, Using, Transfer, At, Goto, driverVars
<1>3. BootInv'
  BY ConstantsAssumption DEF IInv, Types, BootInv, BootLabel, Transfer, At, Goto
<1>4. Tokens'
  BY DEF IInv, Types, Tokens, Bit, Coming, Waiting, LockInv, BootInv, BootLabel, Using,
        Transfer, At, Goto, driverVars, counts
<1>5. ReadInv'
  BY DEF IInv, Types, ReadInv, LockInv, Using, Transfer, At, Goto
<1>6. WriteInv'
  BY DEF IInv, Types, WriteInv, LockInv, Using, Transfer, At, Goto
<1>7. StoreInv'
  <2>1. \A u \in Thread \ {t} : pc'[u] \notin Using
    BY Zenon DEF IInv, Types, LockInv, Using, Transfer, At, Goto
  <2>2. pc'[t] \in {"irq", "release"} /\ request[t].op = "write" =>
           /\ command' = "store" /\ Chosen(t) /\ latch' = request[t].data /\ status' = "busy"
    BY Zenon DEF IInv, Types, WriteInv, Transfer, At
  <2> QED
    BY Zenon, <2>1, <2>2 DEF StoreInv, Chosen, Using, Transfer
<1> QED
  BY Zenon, <1>1, <1>2, <1>3, <1>4, <1>5, <1>6, <1>7 DEF IInv

(* lock_release. *)
LEMMA ReleaseStep ==
  ASSUME NEW t \in Thread, IInv, Release(t)
  PROVE  IInv'
<1>1. Types'
  BY Zenon DEF IInv, Types, Label, BootLabel, Release, Goto, hwVars, counts
<1>2. LockInv'
  BY Zenon, ConstantsAssumption DEF IInv, Types, LockInv, Using, Release, At, Goto
<1>3. BootInv'
  BY DEF IInv, BootInv, BootLabel, Release, At, Goto
<1>4. Tokens'
  BY DEF IInv, Types, Tokens, Bit, Coming, Waiting, LockInv, BootInv, BootLabel, Using, Release,
        At, hwVars, counts
<1>5. ReadInv'
  BY Zenon DEF IInv, Types, ReadInv, LockInv, Using, Release, At, Goto
<1>6. WriteInv'
  BY Zenon DEF IInv, Types, WriteInv, LockInv, Using, Release, At, Goto
<1>7. StoreInv'
  BY Zenon DEF IInv, Types, StoreInv, LockInv, Using, Release, At, Goto
<1> QED
  BY Zenon, <1>1, <1>2, <1>3, <1>4, <1>5, <1>6, <1>7 DEF IInv
-----------------------------------------------------------------------------
(* Every behaviour satisfies the invariant. *)

(* The invariant holds before ide_init. *)
LEMMA InitIInv == Init => IInv
<1> SUFFICES ASSUME Init PROVE IInv
  BY Zenon
<1>1. Types
  <2>1. 0 \in Disk /\ 0 \in Sector
    BY ConstantsAssumption DEF Disk, Sector
  <2>2. request \in [Thread -> Request] /\ \A t \in Thread : request[t].sector \in Sector
    BY Zenon, <2>1, ScanIs DEF Init
  <2>3. media \in [Disk -> [Sector -> Data]] /\ buffer \in [Thread -> Data]
    BY Zenon, ConstantsAssumption DEF Init
  <2>4. pc \in [Thread -> Label]
    BY Zenon DEF Init, Label, BootLabel
  <2>5. spurious \in 0 .. MaxSpurious
    BY ConstantsAssumption DEF Init
  <2> QED
    BY Zenon, <2>1, <2>2, <2>3, <2>4, <2>5, ConstantsAssumption DEF Types, Init
<1>2. LockInv /\ BootInv
  BY Zenon, ConstantsAssumption DEF Init, LockInv, BootInv, BootLabel, Using
<1>3. Tokens
  BY DEF Init, Tokens, Bit, Coming, Waiting
<1>4. ReadInv /\ WriteInv /\ StoreInv
  BY Zenon DEF Init, ReadInv, WriteInv, StoreInv
<1> QED
  BY Zenon, <1>1, <1>2, <1>3, <1>4 DEF IInv

(* A step that changes none of the variables, or only says why the kernel  *)
(* stopped.                                                                *)
LEMMA QuietStep ==
  ASSUME IInv, panicked' \in {"no", "sector", "io", "held"},
         UNCHANGED <<driverVars, hwVars, pc, request, buffer, counts>>
  PROVE  IInv'
BY ZenonT(40) DEF IInv, Types, LockInv, BootInv, Unidentified, Tokens, Coming, Waiting, Chosen,
       ReadInv, WriteInv, StoreInv, driverVars, hwVars, counts

(* Every step keeps the invariant. *)
LEMMA NextIInv == IInv /\ [Next]_vars => IInv'
<1> SUFFICES ASSUME IInv, [Next]_vars PROVE IInv'
  BY Zenon
<1>1. CASE HwDone \/ HwFault \/ HwSpurious \/ interrupt_handler
  BY Zenon, <1>1, HwDoneStep, HwFaultStep, HwSpuriousStep, InterruptStep
<1>2. CASE Boot
  BY Zenon, <1>2, DetectStep, IdentifyCommandStep, IdentifyIrqStep, IdentifyAnswerStep, BootedStep
     DEF Boot
<1>3. ASSUME NEW t \in Thread, Call(t) \/ Steps(t) PROVE IInv'
  BY Zenon, <1>3, CallStep, AcquireStep, CommandStep, CompletionStep, BusyStep, TransferStep,
     ReleaseStep DEF Steps
<1>4. ASSUME NEW t \in Thread, TransferFaults(t) PROVE IInv'
  BY Zenon, <1>4, QuietStep DEF TransferFaults, Panic
<1>5. CASE UNCHANGED vars
  BY Zenon, <1>5, QuietStep DEF vars, IInv, Types
<1> QED
  BY Zenon, <1>1, <1>2, <1>3, <1>4, <1>5 DEF Next, Stopped

(* What ide_read, ide_write and interrupt_handler rely on at each label    *)
(* holds whenever they get there.                                          *)
THEOREM Invariance == Spec => []IInv
BY InitIInv, NextIInv, PTL DEF Spec

(* The channel is used by one thread at a time, and each takes its own     *)
(* completion, data and acknowledgement from it (ide_read, ide_write and   *)
(* interrupt_handler), for any number of threads, sectors, requests,       *)
(* spurious interrupts and faults.                                         *)
THEOREM ChannelStaysSound == Spec => []ChannelSound
<1>1. IInv => ChannelSound
  <2> SUFFICES ASSUME IInv PROVE ChannelSound
    BY Zenon
  <2>1. TypeOK
    <3>1. completion_wait \in 0 .. 1 + MaxSpurious
      BY ConstantsAssumption DEF IInv, Types, Tokens, Bit
    <3> QED
      BY Zenon, <3>1 DEF IInv, Types, TypeOK
  <2>2. TransferOwn
    <3> SUFFICES ASSUME NEW t \in Thread, pc[t] = "transfer"
                 PROVE  /\ lock = t /\ status = "drq"
                        /\ selected = request[t].disk /\ lba = request[t].sector
                        /\ command = request[t].op
                        /\ command = "read" => latch = media[selected][lba]
      BY Zenon DEF TransferOwn
    <3>1. request[t].op \in {"read", "write"}
      BY Zenon, RequestFields DEF IInv, Types
    <3> QED
      BY Zenon, <3>1 DEF IInv, LockInv, Using, ReadInv, WriteInv, Chosen
  <2>3. NoStaleCompletion
    <3> SUFFICES ASSUME \A t \in Thread : pc[t] \in {"ready", "acquire"}
                 PROVE  completion_wait + (IF irq THEN 1 ELSE 0) <= spurious
      BY Zenon DEF NoStaleCompletion
    <3>1. ~Waiting
      BY Zenon DEF Waiting
    <3> QED
      BY <3>1 DEF IInv, Types, Tokens, Bit
  <2>4. WrittenOnReturn
    <3> SUFFICES ASSUME NEW t \in Thread, pc[t] = "release", request[t].op = "write",
                        spurious = 0, faults = 0
                 PROVE  media[request[t].disk][request[t].sector] = request[t].data
      BY Zenon DEF WrittenOnReturn
    <3>1. ~Waiting
      BY Zenon DEF IInv, LockInv, BootInv, BootLabel, Using, Waiting
    <3>2. ~Coming
      BY <3>1 DEF IInv, Types, Tokens, Bit
    <3> QED
      BY <3>2 DEF IInv, StoreInv, Coming
  <2> QED
    BY Zenon, <2>1, <2>2, <2>3, <2>4 DEF ChannelSound
<1> QED
  BY <1>1, Invariance, PTL

-----------------------------------------------------------------------------
(* The channel implements BlockStore. *)

Phases == [t \in Thread |-> Phase(t)]

(* A step of Ide that BlockStore does not see. *)
LEMMA Stutter ==
  ASSUME Stored' = Stored, Phases' = Phases, UNCHANGED <<request, buffer, faults>>
  PROVE  [B!Next]_(B!vars)
BY Zenon DEF Phases, B!vars

(* A step of one thread, seen from the others. *)
LEMMA PhaseStep ==
  ASSUME NEW t \in Thread, NEW l, pc \in [Thread -> Label], pc' = [pc EXCEPT ![t] = l],
         \A u \in Thread \ {t} : request'[u] = request[u]
  PROVE  Phases' = [Phases EXCEPT ![t] = Phase(t)'] /\ Phases[t] = Phase(t) /\ pc'[t] = l
<1>1. \A u \in Thread \ {t} : Phase(u)' = Phase(u)
  BY Zenon DEF Phase
<1> QED
  BY Zenon, <1>1 DEF Phases

(* A step that leaves the requests alone leaves their phases alone. *)
LEMMA SamePhase ==
  ASSUME NEW t \in Thread, NEW l, pc \in [Thread -> Label], pc' = [pc EXCEPT ![t] = l],
         request' = request, pc'[t] = l => Phase(t)' = Phase(t)
  PROVE  Phases' = Phases
<1>1. Phases' = [Phases EXCEPT ![t] = Phase(t)] /\ Phases[t] = Phase(t)
  BY Zenon, PhaseStep
<1> QED
  BY Zenon, <1>1 DEF Phases

(* The medium is up to date unless a write is being stored. *)
LEMMA StoredIs ==
  /\ status # "busy" \/ command # "store" => Stored = media
  /\ status = "busy" /\ command = "store" => Stored = [media EXCEPT ![selected][lba] = latch]
BY Zenon DEF Stored

(* The controller and the interrupt: only a fault is visible, and what it  *)
(* loses is the write that was being stored.                               *)
LEMMA ControllerRefines ==
  ASSUME IInv, HwDone \/ HwFault \/ HwSpurious \/ interrupt_handler
  PROVE  [B!Next]_(B!vars)
<1>1. Phases' = Phases
  BY Zenon DEF Phases, Phase, HwDone, HwFault, HwSpurious, interrupt_handler
<1>2. CASE HwDone
  <2>1. Stored' = Stored
    BY Zenon, <1>2 DEF HwDone, Stored
  <2> QED
    BY Zenon, <1>1, <1>2, <2>1, Stutter DEF HwDone, counts
<1>3. CASE HwFault
  <2>1. PICK d \in Disk, s \in Sector, v \in Data : Stored' = [Stored EXCEPT ![d][s] = v]
    <3> DEFINE v == media[selected][lba]
    <3>1. selected \in Disk /\ lba \in Sector /\ v \in Data
      BY Zenon DEF IInv, Types
    <3>2. Stored' = media
      BY Zenon, <1>3 DEF HwFault, Stored
    <3>3. media = [Stored EXCEPT ![selected][lba] = v]
      BY Zenon DEF IInv, Types, Stored
    <3> QED
      BY Zenon, <3>1, <3>2, <3>3
  <2>2. B!Fault
    BY Zenon, <1>1, <1>3, <2>1 DEF HwFault, B!Fault, Phases
  <2> QED
    BY Zenon, <2>2 DEF B!Next
<1>4. CASE HwSpurious \/ interrupt_handler
  <2>1. Stored' = Stored
    BY Zenon, <1>4 DEF HwSpurious, interrupt_handler, Stored
  <2> QED
    BY Zenon, <1>1, <1>4, <2>1, Stutter DEF HwSpurious, interrupt_handler, counts
<1> QED
  BY Zenon, <1>2, <1>3, <1>4

(* ide_init: the first read of a disk's partition table is a call. *)
LEMMA BootRefines ==
  ASSUME IInv, Boot
  PROVE  [B!Next]_(B!vars)
<1> USE ConstantsAssumption
<1>0. pc \in [Thread -> Label]
  BY Zenon DEF IInv, Types
<1>1. CASE Detect
  <2>1. Phases' = Phases
    BY Zenon, <1>0, <1>1, SamePhase DEF Detect, At, Goto, Phase
  <2>2. Stored' = Stored
    BY Zenon, <1>1 DEF Detect, Stored
  <2> QED
    BY Zenon, <1>1, <2>1, <2>2, Stutter DEF Detect, counts
<1>2. CASE IdentifyCommand
  <2>1. Phases' = Phases
    BY Zenon, <1>0, <1>2, SamePhase DEF IdentifyCommand, At, Goto, Phase
  <2>2. Stored' = Stored
    BY Zenon, <1>2 DEF IdentifyCommand, select_device_wait, wait_until_idle, issue_pio_command,
       Stored
  <2> QED
    BY Zenon, <1>2, <2>1, <2>2, Stutter DEF IdentifyCommand, counts
<1>3. CASE IdentifyIrq
  <2>1. Phases' = Phases
    BY Zenon, <1>0, <1>3, SamePhase DEF IdentifyIrq, At, Goto, Phase
  <2>2. Stored' = Stored
    BY Zenon, <1>3 DEF IdentifyIrq, hwVars, Stored
  <2> QED
    BY Zenon, <1>3, <2>1, <2>2, Stutter DEF IdentifyIrq, counts
<1>4. CASE IdentifyAnswer
  <2>1. Stored' = Stored
    BY Zenon, <1>4 DEF IdentifyAnswer, wait_while_busy, Stored
  <2>2. CASE Goto(Main, "identify") /\ UNCHANGED request
    <3>1. Phases' = Phases
      BY Zenon, <1>0, <1>4, <2>2, SamePhase DEF IdentifyAnswer, At, Goto, Phase
    <3> QED
      BY Zenon, <1>4, <2>1, <2>2, <3>1, Stutter DEF IdentifyAnswer, counts
  <2>3. CASE Goto(Main, "acquire") /\ request' = [request EXCEPT ![Main] = Scan(NextDisk)]
    <3>1. \A u \in Thread \ {Main} : request'[u] = request[u]
      BY Zenon, <2>3 DEF IInv, Types
    <3>2. /\ Phases' = [Phases EXCEPT ![Main] = Phase(Main)'] /\ Phases[Main] = Phase(Main)
          /\ pc'[Main] = "acquire"
      BY Zenon, <1>0, <2>3, <3>1, PhaseStep DEF Goto
    <3>3. Phase(Main) = "none" /\ Phase(Main)' = "called"
      BY Zenon, <1>4, <3>2 DEF IdentifyAnswer, At, Phase
    <3>4. B!Call(Main)
      BY Zenon, <1>4, <2>1, <3>1, <3>2, <3>3 DEF IdentifyAnswer, counts, B!Call, Phases
    <3> QED
      BY Zenon, <3>4 DEF B!Next
  <2> QED
    BY Zenon, <1>4, <2>2, <2>3 DEF IdentifyAnswer
<1>5. CASE Booted
  <2>1. \A t \in Thread : Phase(t) = "none" /\ Phase(t)' = "none"
    BY Zenon, <1>5 DEF IInv, BootInv, BootLabel, Booted, At, Phase
  <2>2. Phases' = Phases
    BY Zenon, <2>1 DEF Phases
  <2>3. Stored' = Stored
    BY Zenon, <1>5 DEF Booted, hwVars, Stored
  <2> QED
    BY Zenon, <1>5, <2>2, <2>3, Stutter DEF Booted, counts
<1> QED
  BY Zenon, <1>1, <1>2, <1>3, <1>4, <1>5 DEF Boot

(* block_read and block_write: the call and the return are those of        *)
(* BlockStore, and the transfer is the moment a request takes effect.      *)
LEMMA RequestRefines ==
  ASSUME IInv, NEW t \in Thread, Call(t) \/ Steps(t)
  PROVE  [B!Next]_(B!vars)
<1>0. pc \in [Thread -> Label] /\ request[t].op \in {"read", "write"}
  BY Zenon, RequestFields DEF IInv, Types
<1>1. CASE Call(t)
  <2>1. Stored' = Stored
    BY Zenon, <1>1 DEF Call, Panic, hwVars, Stored
  <2>2. CASE Panic("sector")
    BY Zenon, <2>1, <2>2, Stutter DEF Panic, counts, Phases, Phase
  <2>3. CASE Goto(t, "acquire") /\ \E r \in Request : request' = [request EXCEPT ![t] = r]
    <3>1. \A u \in Thread \ {t} : request'[u] = request[u]
      BY Zenon, <2>3 DEF IInv, Types
    <3>2. Phases' = [Phases EXCEPT ![t] = Phase(t)'] /\ Phases[t] = Phase(t) /\ pc'[t] = "acquire"
      BY Zenon, <1>0, <2>3, <3>1, PhaseStep DEF Goto
    <3>3. Phase(t) = "none" /\ Phase(t)' = "called"
      BY Zenon, <1>1, <3>2 DEF Call, At, Phase
    <3>4. B!Call(t)
      BY Zenon, <1>1, <2>1, <3>1, <3>2, <3>3 DEF Call, Panic, counts, B!Call, Phases
    <3> QED
      BY Zenon, <3>4 DEF B!Next
  <2> QED
    BY Zenon, <1>1, <2>2, <2>3 DEF Call
<1>2. CASE Acquire(t)
  <2>1. Phases' = Phases
    BY Zenon, <1>0, <1>2, SamePhase DEF Acquire, At, Goto, Phase
  <2>2. Stored' = Stored
    BY Zenon, <1>2 DEF Acquire, hwVars, Stored
  <2> QED
    BY Zenon, <1>2, <2>1, <2>2, Stutter DEF Acquire, counts
<1>3. CASE Command(t)
  <2>1. Phases' = Phases
    BY Zenon, <1>0, <1>3, SamePhase DEF Command, At, Goto, Phase
  <2>2. Stored' = Stored
    BY Zenon, <1>0, <1>3
    DEF Command, select_sector, select_device_wait, wait_until_idle, issue_pio_command, Stored
  <2> QED
    BY Zenon, <1>3, <2>1, <2>2, Stutter DEF Command, counts
<1>4. CASE Completion(t)
  <2>1. Phases' = Phases
    BY Zenon, <1>0, <1>4, SamePhase DEF Completion, At, Goto, Phase
  <2>2. Stored' = Stored
    BY Zenon, <1>4 DEF Completion, hwVars, Stored
  <2> QED
    BY Zenon, <1>4, <2>1, <2>2, Stutter DEF Completion, counts
<1>5. CASE Busy(t)
  <2>1. Stored' = Stored /\ UNCHANGED <<request, buffer, faults>>
    BY Zenon, <1>5 DEF Busy, Panic, hwVars, counts, vars, Stored
  <2>2. Phases' = Phases
    <3>1. CASE UNCHANGED pc
      BY Zenon, <2>1, <3>1 DEF Phases, Phase
    <3>2. CASE Goto(t, "transfer")
      BY Zenon, <1>0, <1>5, <2>1, <3>2, SamePhase DEF Busy, At, Goto, Phase
    <3> QED
      BY Zenon, <1>5, <3>1, <3>2 DEF Busy, Panic
  <2> QED
    BY Zenon, <2>1, <2>2, Stutter
<1>6. CASE Transfer(t)
  <2>1. status = "drq" /\ Chosen(t) /\ Phase(t) = "called"
    BY Zenon, <1>0, <1>6 DEF IInv, ReadInv, WriteInv, Transfer, At, Phase
  <2>2. Stored = media
    BY Zenon, <2>1, StoredIs
  <2>3. CASE request[t].op = "read"
    <3>1. Phases' = [Phases EXCEPT ![t] = Phase(t)'] /\ Phases[t] = Phase(t) /\ pc'[t] = "release"
      BY Zenon, <1>0, <1>6, <2>3, PhaseStep DEF Transfer, Goto
    <3>2. Phase(t)' = "decided"
      BY Zenon, <3>1 DEF Phase
    <3>3. Stored' = Stored
      BY Zenon, <1>6, <2>2, <2>3 DEF Transfer, Stored
    <3>4. latch = media[request[t].disk][request[t].sector]
      BY Zenon, <1>6, <2>1, <2>3 DEF IInv, ReadInv, Transfer, At
    <3>5. B!Effect(t)
      BY Zenon, <1>6, <2>1, <2>2, <2>3, <3>1, <3>2, <3>3, <3>4
      DEF Transfer, counts, B!Effect, B!At, Phases
    <3> QED
      BY Zenon, <3>5 DEF B!Next
  <2>4. CASE request[t].op = "write"
    <3>1. Phases' = [Phases EXCEPT ![t] = Phase(t)'] /\ Phases[t] = Phase(t) /\ pc'[t] = "irq"
      BY Zenon, <1>0, <1>6, <2>4, PhaseStep DEF Transfer, Goto
    <3>2. Phase(t)' = "decided"
      BY Zenon, <1>6, <2>4, <3>1 DEF Phase, Transfer
    <3>3. Stored' = [Stored EXCEPT ![request[t].disk][request[t].sector] = request[t].data]
      BY Zenon, <1>6, <2>1, <2>2, <2>4 DEF Transfer, Stored, Chosen
    <3>4. B!Effect(t)
      BY Zenon, <1>6, <2>1, <2>4, <3>1, <3>2, <3>3 DEF Transfer, counts, B!Effect, Phases
    <3> QED
      BY Zenon, <3>4 DEF B!Next
  <2> QED
    BY Zenon, <1>0, <2>3, <2>4
<1>7. CASE Release(t)
  <2>1. PICK l \in {"identify", "ready"} : pc' = [pc EXCEPT ![t] = l]
    BY Zenon, <1>7 DEF Release, Goto
  <2>2. Phases' = [Phases EXCEPT ![t] = Phase(t)'] /\ Phases[t] = Phase(t) /\ pc'[t] = l
    BY Zenon, <1>0, <1>7, <2>1, PhaseStep DEF Release
  <2>3. Phase(t) = "decided" /\ Phase(t)' = "none"
    BY Zenon, <1>7, <2>2 DEF Release, At, Phase
  <2>4. Stored' = Stored
    BY Zenon, <1>7 DEF Release, hwVars, Stored
  <2>5. B!Return(t)
    BY Zenon, <1>7, <2>2, <2>3, <2>4 DEF Release, counts, B!Return, Phases
  <2> QED
    BY Zenon, <2>5 DEF B!Next
<1> QED
  BY Zenon, <1>1, <1>2, <1>3, <1>4, <1>5, <1>6, <1>7 DEF Steps

(* block_read and block_write are atomic: each takes effect at one moment  *)
(* between its call and its return, whatever the other threads do on the   *)
(* channel, and sectors change in no other way except when the disk fails. *)
THEOREM SectorsAreAtomic == Spec => AtomicSectors
<1>1. Init => B!Init
  <2> SUFFICES ASSUME Init PROVE B!Init
    BY Zenon
  <2>1. Stored = media /\ \A t \in Thread : Phase(t) = "none"
    BY Zenon DEF Init, Stored, Phase
  <2>2. Scan(0) \in [op : {"read", "write"}, disk : Disk, sector : Sector, data : Data]
    BY ConstantsAssumption DEF Scan, Disk, Sector
  <2> QED
    BY Zenon, <2>1, <2>2 DEF Init, B!Init
<1>2. IInv /\ [Next]_vars => [B!Next]_(B!vars)
  <2> SUFFICES ASSUME IInv, [Next]_vars PROVE [B!Next]_(B!vars)
    BY Zenon
  <2>1. CASE \E t \in Thread : TransferFaults(t)
    BY Zenon, <2>1, Stutter DEF TransferFaults, Panic, hwVars, counts, Stored, Phases, Phase
  <2>2. CASE UNCHANGED vars
    BY Zenon, <2>2, Stutter DEF vars, hwVars, counts, Stored, Phases, Phase
  <2> QED
    BY Zenon, <2>1, <2>2, ControllerRefines, BootRefines, RequestRefines DEF Next, Stopped
<1> QED
  BY <1>1, <1>2, Invariance, PTL DEF Spec, AtomicSectors, B!Spec
=============================================================================
