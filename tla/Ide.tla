-------------------------------- MODULE Ide --------------------------------
(***************************************************************************)
(* One ATA channel with its two disks (devices/ide.c): detection at boot,  *)
(* then block_read and block_write (devices/block.c) by several threads,   *)
(* with the controller and the completion interrupt as actors of their     *)
(* own.  The controller is external: its status, its registers and its     *)
(* interrupt line are modelled from how the driver uses them.              *)
(*                                                                         *)
(* The driver's polling loops wait here until the controller is ready: the *)
(* controller is assumed to answer before wait_until_idle and              *)
(* wait_while_busy give up.  BlockStore is what the channel promises.      *)
(***************************************************************************)
EXTENDS Integers, FiniteSets

CONSTANTS
  Thread, Main,   \* Main runs ide_init and then uses the disks as the others do
  Size,           \* sectors of a disk
  Data,           \* contents of a sector
  Blank,          \* contents of every sector at first
  MaxRequests,    \* bound on the requests of each thread
  MaxSpurious,    \* bound on interrupts no command asked for
  MaxFaults,      \* bound on commands that fail
  NULL

ASSUME ConstantsAssumption ==
  /\ Main \in Thread /\ NULL \notin Thread /\ Blank \in Data
  /\ Size \in Nat \ {0} /\ MaxRequests \in Nat /\ MaxSpurious \in Nat /\ MaxFaults \in Nat

Disk == 0 .. 1
Sector == 0 .. Size - 1

VARIABLES
  is_ata, registered,   \* d->is_ata, and the disks the block layer knows
  expecting_interrupt, completion_wait, lock,
  selected, lba, command,   \* the controller's registers
  status,               \* "idle", "busy", "drq" or "error"
  irq,                  \* the interrupt line
  latch,                \* the sector in the controller's buffer
  media,                \* what the disks hold
  pc, request, buffer,  \* of each thread
  requests, spurious, faults,
  panicked              \* "no", or why the kernel stopped

driverVars == <<is_ata, registered, expecting_interrupt, completion_wait, lock>>
hwVars == <<selected, lba, command, status, irq, latch, media>>
counts == <<requests, spurious, faults>>
vars == <<driverVars, hwVars, pc, request, buffer, counts, panicked>>

(* What a thread asks of the block layer. *)
Request ==
  [op : {"read"}, disk : Disk, sector : 0 .. Size, data : {Blank}] \cup
  [op : {"write"}, disk : Disk, sector : Sector, data : Data]
Scan(d) == [op |-> "read", disk |-> d, sector |-> 0, data |-> Blank]

Init ==
  /\ is_ata = {} /\ registered = {}
  /\ expecting_interrupt = FALSE /\ completion_wait = 0 /\ lock = NULL
  /\ selected = 0 /\ lba = 0 /\ command = "none" /\ status = "idle" /\ irq = FALSE
  /\ latch = Blank /\ media = [d \in Disk |-> [s \in Sector |-> Blank]]
  /\ pc = [t \in Thread |-> IF t = Main THEN "reset" ELSE "boot"]
  /\ request = [t \in Thread |-> Scan(0)] /\ buffer = [t \in Thread |-> Blank]
  /\ requests = [t \in Thread |-> 0] /\ spurious = 0 /\ faults = 0
  /\ panicked = "no"

At(t, l) == panicked = "no" /\ pc[t] = l
Goto(t, l) == pc' = [pc EXCEPT ![t] = l]
Panic(why) ==
  /\ panicked' = why
  /\ UNCHANGED <<driverVars, hwVars, pc, request, buffer, counts>>

-----------------------------------------------------------------------------
(* The controller. *)

(* A command, or the data of a write, has been processed.  A read leaves   *)
(* the sector in the buffer and interrupts; a write asks for the data      *)
(* without an interrupt, and interrupts once it has stored them.           *)
HwDone ==
  /\ status = "busy" /\ panicked = "no"
  /\ \/ /\ command \in {"read", "identify"}
        /\ status' = "drq" /\ irq' = TRUE /\ latch' = media[selected][lba]
        /\ UNCHANGED media
     \/ /\ command = "write"
        /\ status' = "drq"
        /\ UNCHANGED <<irq, latch, media>>
     \/ /\ command = "store"
        /\ status' = "idle" /\ irq' = TRUE
        /\ media' = [media EXCEPT ![selected][lba] = latch]
        /\ UNCHANGED latch
  /\ UNCHANGED <<driverVars, selected, lba, command, pc, request, buffer, counts, panicked>>

(* A command fails: there is no data request, or the data are not stored. *)
HwFault ==
  /\ status = "busy" /\ panicked = "no" /\ faults < MaxFaults
  /\ faults' = faults + 1
  /\ status' = "error" /\ irq' = (irq \/ command # "write")
  /\ UNCHANGED <<driverVars, selected, lba, command, latch, media, pc, request, buffer,
                 requests, spurious, panicked>>

(* An interrupt that no command asked for. *)
HwSpurious ==
  /\ spurious < MaxSpurious /\ ~irq /\ panicked = "no"
  /\ spurious' = spurious + 1 /\ irq' = TRUE
  /\ UNCHANGED <<driverVars, selected, lba, command, status, latch, media, pc, request, buffer,
                 requests, faults, panicked>>

(* interrupt_handler: expecting_interrupt is never cleared again. *)
interrupt_handler ==
  /\ irq /\ panicked = "no"
  /\ irq' = FALSE
  /\ completion_wait' = IF expecting_interrupt THEN completion_wait + 1 ELSE completion_wait
  /\ UNCHANGED <<is_ata, registered, expecting_interrupt, lock, selected, lba, command, status,
                 latch, media, pc, request, buffer, counts, panicked>>

-----------------------------------------------------------------------------
(* The driver's primitives. *)

(* Idle is neither BSY nor DRQ.  Reading the status register takes back an *)
(* interrupt that is still pending.                                        *)
wait_until_idle == status \in {"idle", "error"} /\ irq' = FALSE
select_device_wait(d) == wait_until_idle /\ selected' = d

SelectWhileBusy(d, sec_no) == irq' = FALSE /\ selected' = d /\ lba' = sec_no
select_sector(d, sec_no) == select_device_wait(d) /\ lba' = sec_no

issue_pio_command(c) ==
  /\ expecting_interrupt' = TRUE
  /\ command' = c /\ status' = "busy"

(* wait_while_busy once BSY is clear, and the DRQ bit it returns. *)
wait_while_busy(drq) == status # "busy" /\ drq = (status = "drq")

sema_down_completion ==
  /\ completion_wait > 0
  /\ completion_wait' = completion_wait - 1

-----------------------------------------------------------------------------
(* ide_init, by Main, before any other thread runs. *)

(* reset_channel: a soft reset, and the end of it is waited for. *)
reset_channel == irq' = FALSE

(* The registers that check_device_type reads of a device: the error       *)
(* register, whether the status shows it ready, and the signature of a     *)
(* disk.                                                                   *)
Signature == [error : {0, 1, 129}, ready : BOOLEAN, ata : BOOLEAN]

(* check_device_type *)
Accepts(sig, dev_no) == sig.ready /\ (sig.error = 1 \/ (sig.error = 129 /\ dev_no = 0))
MayHaveSlave(sig) == Accepts(sig, 0) \/ sig.error # 129

(* ide_init up to identification: reset_channel, then check_device_type of *)
(* device 0 and, if it says there may be one, of device 1.                 *)
Detect ==
  /\ At(Main, "reset")
  /\ \E sig \in [Disk -> Signature] :
       is_ata' = {d \in Disk : /\ Accepts(sig[d], d) /\ sig[d].ata
                               /\ d = 1 => MayHaveSlave(sig[0])}
  /\ reset_channel
  /\ Goto(Main, "identify")
  /\ UNCHANGED <<registered, expecting_interrupt, completion_wait, lock, selected, lba, command,
                 status, latch, media, request, buffer, counts, panicked>>

(* The disk whose turn it is: identify_ata_device drops the ones it gives  *)
(* up and registers the others, in this order.                             *)
Unidentified == is_ata \ registered
NextDisk == CHOOSE d \in Unidentified : \A e \in Unidentified : d <= e

(* identify_ata_device: the command (no other thread uses the channel, and *)
(* the lock is not taken),                                                 *)
IdentifyCommand ==
  /\ At(Main, "identify") /\ Unidentified # {}
  /\ select_device_wait(NextDisk) /\ UNCHANGED lba
  /\ issue_pio_command("identify")
  /\ Goto(Main, "identify_irq")
  /\ UNCHANGED <<is_ata, registered, completion_wait, lock, latch, media, request, buffer,
                 counts, panicked>>

(* the interrupt, *)
IdentifyIrq ==
  /\ At(Main, "identify_irq")
  /\ sema_down_completion
  /\ Goto(Main, "identify_busy")
  /\ UNCHANGED <<is_ata, registered, expecting_interrupt, lock, hwVars, request, buffer, counts,
                 panicked>>

(* and the answer.  A disk without one and a disk of 1 GB or more are      *)
(* given up; another is registered, and its partition table is read.       *)
IdentifyAnswer ==
  /\ At(Main, "identify_busy")
  /\ \E drq, large \in BOOLEAN :
       /\ wait_while_busy(drq)
       /\ status' = IF drq THEN "idle" ELSE status
       /\ IF drq /\ ~large
          THEN /\ registered' = registered \cup {NextDisk}
               /\ request' = [request EXCEPT ![Main] = Scan(NextDisk)]
               /\ Goto(Main, "acquire") /\ UNCHANGED is_ata
          ELSE /\ is_ata' = is_ata \ {NextDisk}
               /\ Goto(Main, "identify") /\ UNCHANGED <<registered, request>>
  /\ UNCHANGED <<expecting_interrupt, completion_wait, lock, selected, lba, command, irq, latch,
                 media, buffer, counts, panicked>>

(* ide_init returns and the other threads start. *)
Booted ==
  /\ At(Main, "identify") /\ Unidentified = {}
  /\ pc' = [t \in Thread |-> "ready"]
  /\ UNCHANGED <<driverVars, hwVars, request, buffer, counts, panicked>>

-----------------------------------------------------------------------------
(* block_read and block_write. *)

(* The call, and check_sector. *)
Call(t) ==
  /\ At(t, "ready") /\ requests[t] < MaxRequests
  /\ \E r \in Request :
       /\ r.disk \in registered
       /\ IF r.sector >= Size
          THEN Panic("sector")
          ELSE /\ request' = [request EXCEPT ![t] = r]
               /\ requests' = [requests EXCEPT ![t] = @ + 1]
               /\ Goto(t, "acquire")
               /\ UNCHANGED <<driverVars, hwVars, buffer, spurious, faults, panicked>>

(* ide_read and ide_write: lock_acquire, *)
Acquire(t) ==
  /\ At(t, "acquire") /\ lock = NULL
  /\ lock' = t
  /\ Goto(t, "select")
  /\ UNCHANGED <<is_ata, registered, expecting_interrupt, completion_wait, hwVars, request,
                 buffer, counts, panicked>>

(* select_sector and issue_pio_command, *)
CommandReadsAtOnce(t) ==
  /\ At(t, "select")
  /\ select_sector(request[t].disk, request[t].sector)
  /\ issue_pio_command(request[t].op)
  /\ Goto(t, "busy")
  /\ UNCHANGED <<is_ata, registered, completion_wait, lock, latch, media, request, buffer,
                 counts, panicked>>
Command(t) ==
  /\ At(t, "select")
  /\ select_sector(request[t].disk, request[t].sector)
  /\ issue_pio_command(request[t].op)
  /\ Goto(t, IF request[t].op = "read" THEN "irq" ELSE "busy")
  /\ UNCHANGED <<is_ata, registered, completion_wait, lock, latch, media, request, buffer,
                 counts, panicked>>

(* sema_down on completion_wait: a read waits for it before the data, a    *)
(* write after them,                                                       *)
Completion(t) ==
  /\ At(t, "irq")
  /\ sema_down_completion
  /\ Goto(t, IF request[t].op = "read" THEN "busy" ELSE "release")
  /\ UNCHANGED <<is_ata, registered, expecting_interrupt, lock, hwVars, request, buffer, counts,
                 panicked>>

(* wait_while_busy: without a data request the kernel panics, *)
BusyPolls(t) ==
  /\ At(t, "busy")
  /\ \/ /\ wait_while_busy(TRUE)
        /\ Goto(t, "transfer")
        /\ UNCHANGED <<driverVars, hwVars, request, buffer, counts, panicked>>
     \/ wait_while_busy(FALSE) /\ UNCHANGED vars
Busy(t) ==
  /\ At(t, "busy")
  /\ \/ /\ wait_while_busy(TRUE)
        /\ Goto(t, "transfer")
        /\ UNCHANGED <<driverVars, hwVars, request, buffer, counts, panicked>>
     \/ wait_while_busy(FALSE) /\ Panic("io")

(* input_sector and output_sector.  The controller's side of the transfer  *)
(* is external: it is idle after the data of a read and busy storing those *)
(* of a write.                                                             *)
Transfer(t) ==
  /\ At(t, "transfer")
  /\ IF request[t].op = "read"
     THEN /\ buffer' = [buffer EXCEPT ![t] = latch]
          /\ status' = "idle" /\ UNCHANGED <<latch, command>>
          /\ Goto(t, "release")
     ELSE /\ latch' = request[t].data
          /\ status' = "busy" /\ command' = "store" /\ UNCHANGED buffer
          /\ Goto(t, "irq")
  /\ UNCHANGED <<driverVars, selected, lba, irq, media, request, counts, panicked>>

(* input_sector or output_sector with a buffer in user memory whose page   *)
(* is not present: page_fault loads the page from its file or evicts       *)
(* another one to swap, on this channel, and the assertion of lock_acquire *)
(* fails because the thread holds the lock.                                *)
TransferFaults(t) ==
  /\ At(t, "transfer") /\ requests[t] > 0
  /\ Panic("held")

(* lock_release, and the return. *)
Release(t) ==
  /\ At(t, "release")
  /\ lock' = NULL
  /\ Goto(t, IF \E u \in Thread : pc[u] = "boot" THEN "identify" ELSE "ready")
  /\ UNCHANGED <<is_ata, registered, expecting_interrupt, completion_wait, hwVars, request,
                 buffer, counts, panicked>>

(* The kernel has panicked, or no thread has anything left to ask for. *)
Stopped ==
  /\ \/ panicked # "no"
     \/ registered = {} /\ \A t \in Thread : pc[t] = "ready"
     \/ \A t \in Thread : pc[t] = "ready" /\ requests[t] = MaxRequests
  /\ UNCHANGED vars

Steps(t) ==
  Acquire(t) \/ Command(t) \/ Completion(t) \/ Busy(t) \/ Transfer(t) \/ Release(t)
Boot == Detect \/ IdentifyCommand \/ IdentifyIrq \/ IdentifyAnswer \/ Booted

Next ==
  \/ HwDone \/ HwFault \/ HwSpurious \/ interrupt_handler
  \/ Boot
  \/ \E t \in Thread : Call(t) \/ Steps(t) \/ TransferFaults(t)
  \/ Stopped

(* The controller answers, a pending interrupt is taken and a runnable     *)
(* thread runs.  Nothing obliges a thread to make a request.               *)
Fairness ==
  /\ WF_vars(HwDone) /\ WF_vars(interrupt_handler) /\ WF_vars(Boot)
  /\ \A t \in Thread : WF_vars(Steps(t))

Spec == Init /\ [][Next]_vars /\ Fairness

-----------------------------------------------------------------------------
(* Properties. *)

TypeOK ==
  /\ is_ata \subseteq Disk /\ registered \subseteq is_ata
  /\ expecting_interrupt \in BOOLEAN /\ lock \in Thread \cup {NULL}
  /\ completion_wait \in 0 .. 1 + MaxSpurious
  /\ selected \in Disk /\ lba \in Sector /\ status \in {"idle", "busy", "drq", "error"}
  /\ irq \in BOOLEAN /\ latch \in Data /\ media \in [Disk -> [Sector -> Data]]
  /\ request \in [Thread -> Request] /\ buffer \in [Thread -> Data]
  /\ panicked \in {"no", "sector", "io", "held"}

(* A thread that has been told that the data are ready (ide_read, ide_write *)
(* after wait_while_busy) is the only one on the channel, and what the      *)
(* controller offers or takes is the sector that this thread asked for:     *)
(* also when a spurious interrupt let it through sema_down too early.       *)
TransferOwn ==
  \A t \in Thread : pc[t] = "transfer" =>
    /\ lock = t /\ status = "drq"
    /\ selected = request[t].disk /\ lba = request[t].sector /\ command = request[t].op
    /\ command = "read" => latch = media[selected][lba]

(* A free channel has no completion left over, counted in completion_wait  *)
(* or pending on the line, beyond the interrupts no command asked for:     *)
(* ide_read and ide_write consume what they cause.                         *)
NoStaleCompletion ==
  (lock = NULL /\ panicked = "no" /\ \A t \in Thread : pc[t] \in {"ready", "acquire"}) =>
     completion_wait + (IF irq THEN 1 ELSE 0) <= spurious

(* ide_write "returns after the disk has acknowledged receiving the data": *)
(* unless the line carried a spurious interrupt or the disk failed, the    *)
(* data are on the disk when the write gives the channel back.             *)
WrittenOnReturn ==
  \A t \in Thread :
    (pc[t] = "release" /\ request[t].op = "write" /\ spurious = 0 /\ faults = 0) =>
       media[request[t].disk][request[t].sector] = request[t].data

(* The channel is used by one thread at a time, and each takes its own     *)
(* completion, data and acknowledgement from it (ide_read, ide_write and   *)
(* interrupt_handler of ide.c).                                            *)
ChannelSound == TypeOK /\ TransferOwn /\ NoStaleCompletion /\ WrittenOnReturn

(* Every request returns, or the kernel panics: no completion is missed,   *)
(* although wait_until_idle discards pending interrupts.                   *)
Served ==
  \A t \in Thread : (pc[t] = "acquire") ~> (pc[t] \in {"ready", "identify"} \/ panicked # "no")

(* What the medium holds once the data in the controller are stored. *)
Stored ==
  IF command = "store" /\ status = "busy"
  THEN [media EXCEPT ![selected][lba] = latch] ELSE media

(* Of a request: not yet decided, or decided. *)
Phase(t) ==
  CASE pc[t] \in {"acquire", "select"} -> "called"
    [] pc[t] \in {"busy", "transfer"} -> "called"
    [] pc[t] = "irq" -> IF request[t].op = "read" THEN "called" ELSE "decided"
    [] pc[t] = "release" -> "decided"
    [] OTHER -> "none"

B == INSTANCE BlockStore WITH store <- Stored, phase <- [t \in Thread |-> Phase(t)],
                              result <- buffer

(* block_read and block_write are atomic: each takes effect at one moment  *)
(* between its call and its return, whatever the other threads do on the   *)
(* channel, and sectors change in no other way except when the disk fails. *)
AtomicSectors == B!Spec
=============================================================================
