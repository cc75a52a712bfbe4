------------------------------- MODULE Serial -------------------------------
(***************************************************************************)
(* The console's input and output: the interrupt queues of devices/intq.c, *)
(* the input buffer of devices/input.c, the interrupt-driven serial port   *)
(* of devices/serial.c, the keyboard's handler and the console lock, in a  *)
(* kernel with user programs.                                              *)
(*                                                                         *)
(* The queues are used with interrupts off, so a call runs in one step     *)
(* from where it starts, or from where it is woken, to where it returns or *)
(* blocks.  Which ready thread runs is left open (module Threads has the   *)
(* scheduler), and so is which waiter of a lock sema_up wakes.             *)
(***************************************************************************)
EXTENDS Naturals, Sequences, FiniteSets

CONSTANTS
  Reader,        \* threads that call input_getc
  Writer,        \* threads that print
  Key,           \* bytes that the keyboard and the port deliver
  Char,          \* bytes that are printed
  INTQ_BUFSIZE,  \* slots of a queue; one of them stays empty
  NULL

ASSUME ConstantsAssumption ==
  /\ Reader \cap Writer = {} /\ INTQ_BUFSIZE \in Nat \ {0, 1}
  /\ NULL \notin Reader \cup Writer \cup Key \cup Char

VARIABLES
  intq,     \* input.c's `buffer' and serial.c's `txq'
  pc,       \* what a thread is doing
  byte,     \* the byte a writer is putting
  console,  \* console_lock's holder
  mode,     \* serial.c's mode
  ier,      \* the port's interrupt enable register
  thre,     \* the port can take a byte to transmit
  rbr,      \* a byte the port has received
  irq       \* where the handler running is; "panic" after a failed assertion

threadVars == <<pc, byte, console>>
portVars == <<mode, ier, thre, rbr>>
vars == <<intq, pc, byte, console, mode, ier, thre, rbr, irq>>

Thread == Reader \cup Writer
Byte == Key \cup Char

(* "run": outside; "print": holds the console lock; "waiting": in wait();  *)
(* "woken": signal() has unblocked it; "locked_out": waits for the queue's *)
(* lock; "retry": woken by that lock's release.                            *)
Label == {"run", "print", "waiting", "woken", "locked_out", "retry"}

Slot == 0 .. INTQ_BUFSIZE - 1

TypeOK ==
  /\ intq \in [{"buffer", "txq"} ->
                 [buf : [Slot -> Byte \cup {NULL}], head : Slot, tail : Slot,
                  lock : Thread \cup {NULL},
                  not_empty : Thread \cup {NULL}, not_full : Thread \cup {NULL}]]
  /\ pc \in [Thread -> Label]
  /\ byte \in [Thread -> Byte \cup {NULL}]
  /\ console \in Writer \cup {NULL}
  /\ mode \in {"POLL", "QUEUE"}
  /\ ier \subseteq {"XMIT", "RECV"}
  /\ thre \in BOOLEAN
  /\ rbr \in Byte \cup {NULL}
  /\ irq \in {"none", "recv", "xmit", "putc", "panic"}

-----------------------------------------------------------------------------
(* devices/intq.c, on the value q of a queue. *)

next(pos) == (pos + 1) % INTQ_BUFSIZE

intq_empty(q) == q.head = q.tail

(* A queue that takes bytes as long as they come. *)
intq_full_never(q) == FALSE

intq_full(q) == next(q.head) = q.tail

(* The end of intq_getc and of intq_putc.  Each ends with a signal() of    *)
(* the other condition.  A slot outside the queue is shown as NULL: what   *)
(* it holds is never read.                                                 *)
Removed(q) == [q EXCEPT !.buf[q.tail] = NULL, !.tail = next(@), !.not_full = NULL]
Added(q, b) == [q EXCEPT !.buf[q.head] = b, !.head = next(@), !.not_empty = NULL]

(* signal() that forgets to unblock. *)
signal_reset_only(pcs, waiter) == pcs

signal(pcs, waiter) ==
  IF waiter = NULL THEN pcs ELSE [pcs EXCEPT ![waiter] = "woken"]

(* Which queue a thread uses, the condition it waits for, and its test.    *)
Queue(t) == IF t \in Reader THEN "buffer" ELSE "txq"
Cond(t) == IF t \in Reader THEN "not_empty" ELSE "not_full"
MustWait(t, q) == IF t \in Reader THEN intq_empty(q) ELSE intq_full(q)

input_full(qs) == intq_full(qs["buffer"])

-----------------------------------------------------------------------------
(* devices/serial.c *)

write_ier(qs) ==
  ier' = (IF intq_empty(qs["txq"]) THEN {} ELSE {"XMIT"})
           \cup (IF input_full(qs) THEN {} ELSE {"RECV"})

serial_notify(qs) == IF mode = "QUEUE" THEN write_ier(qs) ELSE UNCHANGED ier

(* input_putc *)
input_putc(b) ==
  LET q == intq["buffer"]
      qs == [intq EXCEPT !["buffer"] = Added(q, b)]
  IN  /\ intq' = qs
      /\ pc' = signal(pc, q.not_empty)
      /\ serial_notify(qs)

(* The end of input_getc and of serial_putc(b) for thread t, when its      *)
(* queue lets it go on; qs and pcs are the queues and labels so far.       *)
Finish(t, b, qs, pcs) ==
  LET q == qs[Queue(t)]
      after == [qs EXCEPT ![Queue(t)] = IF t \in Reader THEN Removed(q) ELSE Added(q, b)]
  IN  /\ intq' = after
      /\ pc' = signal([pcs EXCEPT ![t] = IF t \in Reader THEN "run" ELSE "print"],
                      IF t \in Reader THEN q.not_full ELSE q.not_empty)
      /\ serial_notify(after)

(* wait(): it asserts that the condition still has to be waited for. *)
Wait(t, qs, pcs) ==
  LET q == qs[Queue(t)]
  IN  /\ irq' = IF MustWait(t, q) THEN irq ELSE "panic"
      /\ intq' = [qs EXCEPT ![Queue(t)] = [q EXCEPT !.lock = t, ![Cond(t)] = t]]
      /\ pc' = [pcs EXCEPT ![t] = "waiting"]
      /\ UNCHANGED ier

(* The loop of intq_getc and intq_putc, from its test on. *)
Loop(t, b, qs, pcs) ==
  LET q == qs[Queue(t)]
  IN  /\ \/ ~MustWait(t, q) /\ Finish(t, b, qs, pcs) /\ UNCHANGED irq
         \/ MustWait(t, q) /\ q.lock = NULL /\ Wait(t, qs, pcs)
         \/ /\ MustWait(t, q) /\ q.lock # NULL
            /\ pc' = [pcs EXCEPT ![t] = "locked_out"]
            /\ intq' = qs
            /\ UNCHANGED <<ier, irq>>
      /\ byte' = [byte EXCEPT ![t] = IF pc'[t] \in {"waiting", "locked_out"} THEN b ELSE NULL]
      /\ UNCHANGED <<console, mode, thre, rbr>>

-----------------------------------------------------------------------------
(* Threads. *)

InputGetc(t) ==
  /\ irq = "none" /\ pc[t] = "run"
  /\ Loop(t, NULL, intq, pc)

acquire_console(t) ==
  /\ irq = "none" /\ pc[t] = "run" /\ console = NULL
  /\ console' = t
  /\ pc' = [pc EXCEPT ![t] = "print"]
  /\ UNCHANGED <<intq, byte, portVars, irq>>

release_console(t) ==
  /\ irq = "none" /\ pc[t] = "print"
  /\ console' = NULL
  /\ pc' = [pc EXCEPT ![t] = "run"]
  /\ UNCHANGED <<intq, byte, portVars, irq>>

(* serial_putc with interrupts on. *)
SerialPutc(t, b) ==
  /\ irq = "none" /\ pc[t] = "print" /\ mode = "QUEUE"
  /\ Loop(t, b, intq, pc)

(* Before serial_init_queue it polls the port and sends the byte. *)
SerialPutcPoll(t) ==
  /\ irq = "none" /\ pc[t] = "print" /\ mode = "POLL"
  /\ thre' = FALSE
  /\ UNCHANGED <<intq, threadVars, mode, ier, rbr, irq>>

(* A thread comes back from wait(), releases the queue's lock, which wakes *)
(* a thread that waits for it, and tests again.                            *)
WaitReturns(t) ==
  /\ irq = "none" /\ pc[t] = "woken"
  /\ LET qs == [intq EXCEPT ![Queue(t)].lock = NULL]
         out == {u \in Thread : Queue(u) = Queue(t) /\ pc[u] = "locked_out"}
     IN  \/ out = {} /\ Loop(t, byte[t], qs, pc)
         \/ \E u \in out : Loop(t, byte[t], qs, [pc EXCEPT ![u] = "retry"])

(* A thread looks again at the queue's lock: it goes straight to wait(),   *)
(* without another look at the queue.                                      *)
LockRetry(t) ==
  /\ irq = "none" /\ pc[t] = "retry"
  /\ IF intq[Queue(t)].lock = NULL
     THEN Wait(t, intq, pc)
     ELSE pc' = [pc EXCEPT ![t] = "locked_out"] /\ UNCHANGED <<intq, ier, irq>>
  /\ UNCHANGED <<byte, console, mode, thre, rbr>>

SerialInitQueue ==
  /\ irq = "none" /\ mode = "POLL"
  /\ mode' = "QUEUE"
  /\ write_ier(intq)
  /\ UNCHANGED <<intq, threadVars, thre, rbr, irq>>

-----------------------------------------------------------------------------
(* Interrupt handlers. *)

(* A port that interrupts for what it receives only. *)
ReceiveInterrupt ==
  /\ irq = "none" /\ mode = "QUEUE"
  /\ "RECV" \in ier /\ rbr # NULL
  /\ irq' = "recv"
  /\ UNCHANGED <<intq, threadVars, portVars>>

SerialInterrupt ==
  /\ irq = "none" /\ mode = "QUEUE"
  /\ ("XMIT" \in ier /\ thre) \/ ("RECV" \in ier /\ rbr # NULL)
  /\ irq' = "recv"
  /\ UNCHANGED <<intq, threadVars, portVars>>

ReceiveByte ==
  /\ irq = "recv"
  /\ ~input_full(intq) /\ rbr # NULL
  /\ input_putc(rbr)
  /\ rbr' = NULL
  /\ UNCHANGED <<byte, console, mode, thre, irq>>

ReceiveDone ==
  /\ irq = "recv"
  /\ input_full(intq) \/ rbr = NULL
  /\ irq' = "xmit"
  /\ UNCHANGED <<intq, threadVars, portVars>>

TransmitByte ==
  LET q == intq["txq"]
  IN  /\ irq = "xmit"
      /\ ~intq_empty(q) /\ thre
      /\ intq' = [intq EXCEPT !["txq"] = Removed(q)]
      /\ pc' = signal(pc, q.not_full)
      /\ thre' = FALSE
      /\ UNCHANGED <<byte, console, mode, ier, rbr, irq>>

TransmitDone ==
  /\ irq = "xmit"
  /\ intq_empty(intq["txq"]) \/ ~thre
  /\ irq' = "none"
  /\ write_ier(intq)
  /\ UNCHANGED <<intq, threadVars, mode, thre, rbr>>

(* The keyboard's handler with a key that gives a character; with the      *)
(* buffer full it drops the key.                                           *)
KeyboardInterrupt(b) ==
  /\ irq = "none"
  /\ ~input_full(intq)
  /\ input_putc(b)
  /\ UNCHANGED <<byte, console, mode, thre, rbr, irq>>

(* An interrupt handler prints, without the console lock: serial_putc with *)
(* interrupts off.  On a full queue it first sends one byte by polling.    *)
IntrPutcPoll ==
  LET q == intq["txq"]
  IN  /\ irq = "none" /\ mode = "QUEUE"
      /\ intq_full(q)
      /\ irq' = "putc"
      /\ intq' = [intq EXCEPT !["txq"] = Removed(q)]
      /\ pc' = signal(pc, q.not_full)
      /\ thre' = FALSE
      /\ UNCHANGED <<byte, console, mode, ier, rbr>>

IntrPutc(b) ==
  LET q == intq["txq"]
  IN  /\ irq \in {"none", "putc"} /\ mode = "QUEUE"
      /\ ~intq_full(q)
      /\ irq' = "none"
      /\ intq' = [intq EXCEPT !["txq"] = Added(q, b)]
      /\ pc' = signal(pc, q.not_empty)
      /\ write_ier(intq')
      /\ UNCHANGED <<byte, console, mode, thre, rbr>>

(* The port. *)
PortReady ==
  /\ ~thre
  /\ thre' = TRUE
  /\ UNCHANGED <<intq, threadVars, mode, ier, rbr, irq>>

PortReceives(b) ==
  /\ rbr = NULL
  /\ rbr' = b
  /\ UNCHANGED <<intq, threadVars, mode, ier, thre, irq>>

-----------------------------------------------------------------------------
(* The console before serial_init_queue. *)
Init ==
  /\ intq = [q \in {"buffer", "txq"} |->
               [buf |-> [i \in Slot |-> NULL], head |-> 0, tail |-> 0,
                lock |-> NULL, not_empty |-> NULL, not_full |-> NULL]]
  /\ pc = [t \in Thread |-> "run"]
  /\ byte = [t \in Thread |-> NULL]
  /\ console = NULL
  /\ mode = "POLL"
  /\ ier = {}
  /\ thre = TRUE
  /\ rbr = NULL
  /\ irq = "none"

ThreadStep(t) == WaitReturns(t) \/ LockRetry(t)

Call ==
  \/ \E t \in Reader : InputGetc(t)
  \/ \E t \in Writer : acquire_console(t) \/ release_console(t) \/ SerialPutcPoll(t)
  \/ \E t \in Writer, b \in Char : SerialPutc(t, b)
  \/ SerialInitQueue

Handler == ReceiveByte \/ ReceiveDone \/ TransmitByte \/ TransmitDone

Interrupt ==
  \/ SerialInterrupt
  \/ IntrPutcPoll
  \/ \E b \in Key : KeyboardInterrupt(b)
  \/ \E b \in Char : IntrPutc(b)

Next ==
  \/ \E t \in Thread : ThreadStep(t)
  \/ Call
  \/ Interrupt
  \/ Handler
  \/ PortReady
  \/ \E b \in Key : PortReceives(b)

Spec == Init /\ [][Next]_vars

-----------------------------------------------------------------------------
(* Properties. *)

(* Nobody sleeps in wait() without a reason: the thread is the one the     *)
(* queue knows of and holds the queue's lock, and what it waits for has    *)
(* not happened, so the next signal() will find it.                        *)
SleepersKnown ==
  \A t \in Thread : LET q == intq[Queue(t)] IN
    irq # "panic" =>
      /\ pc[t] = "waiting" <=> q[Cond(t)] = t
      /\ pc[t] = "waiting" => MustWait(t, q)
      /\ pc[t] \in {"waiting", "woken"} <=> q.lock = t

(* A thread locked out of wait() has someone who will let it in: the lock  *)
(* has a holder, or another thread has been woken to take it.              *)
LockedOutKnown ==
  \A t \in Thread : irq # "panic" /\ pc[t] = "locked_out" =>
    \/ intq[Queue(t)].lock # NULL
    \/ \E u \in Thread : Queue(u) = Queue(t) /\ pc[u] = "retry"

(* Between two interrupts the port interrupts when it is ready to send and *)
(* there is something to send, and when it receives and there is room: no  *)
(* byte is stuck in the queue for want of an interrupt, and none floods    *)
(* the processor for want of room (write_ier and its callers).             *)
InterruptsEnabled ==
  mode = "QUEUE" /\ irq = "none" =>
    /\ "XMIT" \in ier <=> ~intq_empty(intq["txq"])
    /\ "RECV" \in ier <=> ~input_full(intq)

(* Nobody is forgotten, as long as no assertion has failed: every thread   *)
(* that sleeps, and every byte that is to be sent or received, has an      *)
(* event to come that will get it on.                                      *)
NobodyForgotten == TypeOK /\ SleepersKnown /\ LockedOutKnown /\ InterruptsEnabled

(* wait()'s assertion never fails: "ASSERT ((waiter == &q->not_empty &&    *)
(* intq_empty (q))" (devices/intq.c:91), and the same of not_full.         *)
WaitAssertion == irq # "panic"

(* What a queue holds, the oldest byte first. *)
Contents(q) ==
  [i \in 1 .. (q.head + INTQ_BUFSIZE - q.tail) % INTQ_BUFSIZE |->
     q.buf[(q.tail + i - 1) % INTQ_BUFSIZE]]

In == INSTANCE Fifo WITH contents <- Contents(intq["buffer"])
Out == INSTANCE Fifo WITH contents <- Contents(intq["txq"])

(* Both queues are bounded first-in first-out buffers, whoever puts and    *)
(* gets in whatever order (intq_getc, intq_putc).                          *)
QueuesAreFifos == In!Spec /\ Out!Spec

-----------------------------------------------------------------------------
(* Liveness.  A handler runs to its end; the port gets ready again after a *)
(* byte and its interrupt is taken; a thread that could go on again and    *)
(* again does, as interrupts leave time for threads.                       *)
Fairness ==
  /\ WF_vars(Handler)
  /\ WF_vars(PortReady)
  /\ SF_vars(SerialInterrupt)
  /\ \A t \in Thread : SF_vars(ThreadStep(t))
  /\ WF_vars(\E b \in Char : irq = "putc" /\ IntrPutc(b))

FairSpec == Spec /\ Fairness

(* A writer that sleeps on a full queue gets room in the end, though       *)
(* interrupt handlers print too and take the room first.                   *)
WriterProceeds ==
  \A t \in Writer : pc[t] = "waiting" ~> (pc[t] # "waiting" \/ irq = "panic")
=============================================================================
