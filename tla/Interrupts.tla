----------------------------- MODULE Interrupts -----------------------------
(***************************************************************************)
(* threads/interrupt.c with the processor, the interrupt controllers and   *)
(* the threads around it: gates that switch interrupts off, nested         *)
(* interrupts, the end-of-interrupt, a switch of threads on the way out,   *)
(* and the entry of userprog/exception.c's page_fault.                     *)
(*                                                                         *)
(* Each thread has a stack of frames.  A frame is [kind, vec, level,       *)
(* phase, addr, seen]: level is the interrupt flag saved for its end,      *)
(* vec the vector of an external interrupt, addr the address that faulted  *)
(* and seen what the handler took for it.                                  *)
(* A "critical" frame is code between intr_disable and intr_set_level.     *)
(***************************************************************************)
EXTENDS Integers, Sequences, FiniteSets, FiniteSetsExt

CONSTANTS
  Thread,
  Irq,        \* vectors of device interrupts, from 32 on; 39 is spurious
  Addr,       \* addresses that may fault
  MaxDepth    \* frames on one thread's stack

VARIABLES
  cur,               \* the running thread
  level,             \* the processor's interrupt flag
  in_external_intr,
  yield_on_return,
  frames,            \* frames[t]
  resume,            \* resume[t]: the level thread_yield restores in t
  pending,           \* interrupts requested from the controllers
  in_service,        \* interrupts delivered and not yet acknowledged
  cr2
cpu == <<cur, level, frames, resume>>
pic == <<pending, in_service>>
vars == <<cpu, pic, in_external_intr, yield_on_return, cr2>>

-----------------------------------------------------------------------------
(* The interrupt descriptor table.  A gate of type 14 switches interrupts  *)
(* off, one of type 15 does not; an INT instruction of a user program is   *)
(* let through by dpl 3 only.                                              *)
make_gate(handler, dpl, type) == [handler |-> handler, dpl |-> dpl, type |-> type]
make_intr_gate(handler, dpl) == make_gate(handler, dpl, 14)
make_trap_gate(handler, dpl) == make_gate(handler, dpl, 15)

register_handler(dpl, on, handler) ==
  IF on THEN make_trap_gate(handler, dpl) ELSE make_intr_gate(handler, dpl)
intr_register_ext(handler) == register_handler(0, FALSE, handler)
intr_register_int(dpl, on, handler) == register_handler(dpl, on, handler)

Exceptions == {0, 1, 3, 4, 5, 6, 7, 11, 12, 13, 14, 16, 19}
exception_init(vec) ==
  IF vec = 14 THEN intr_register_int(0, FALSE, "page_fault")
  ELSE intr_register_int(IF vec \in 3 .. 5 THEN 3 ELSE 0, TRUE, "kill")
syscall_init == intr_register_int(3, TRUE, "syscall_handler")

idt(vec) ==
  CASE vec \in Exceptions -> exception_init(vec)
    [] vec = 48 -> syscall_init
    [] vec \in Irq \ {39} -> intr_register_ext("device")
    [] OTHER -> make_intr_gate("none", 0)

-----------------------------------------------------------------------------

Stack == frames[cur]
TopIs(kind, phase) ==
  Stack # <<>> /\ Stack[Len(Stack)].kind = kind /\ Stack[Len(Stack)].phase = phase
InHandler == TopIs("irq", "handler")
Busy == InHandler \/ TopIs("irq", "return") \/ TopIs("fault", "entered")

Init ==
  /\ cur \in Thread /\ level = TRUE /\ frames = [t \in Thread |-> <<>>]
  /\ resume = [t \in Thread |-> TRUE]
  /\ in_external_intr = FALSE /\ yield_on_return = FALSE
  /\ pending = {} /\ in_service = {} /\ cr2 \in Addr

(* The handler that intr_handler calls for a vector, and where it starts.  *)
Kind(vec) ==
  CASE idt(vec).handler = "kill" -> "exception"
    [] idt(vec).handler = "syscall_handler" -> "syscall"
    [] idt(vec).handler = "page_fault" -> "fault"
    [] OTHER -> "irq"
Phase(kind) ==
  CASE kind = "irq" -> "handler" [] kind = "fault" -> "entered" [] OTHER -> "running"

Enter(vec, addr) ==
  /\ Len(Stack) < MaxDepth
  /\ frames' = [frames EXCEPT ![cur] =
       Append(@, [kind |-> Kind(vec), vec |-> IF Kind(vec) = "irq" THEN vec ELSE 0, level |-> level,
                  phase |-> Phase(Kind(vec)), addr |-> addr, seen |-> addr])]
  /\ level' = (level /\ idt(vec).type = 15)
  /\ UNCHANGED <<cur, resume>>

(* The end of a frame: iret, or intr_set_level. *)
Leave ==
  /\ level' = Stack[Len(Stack)].level
  /\ frames' = [frames EXCEPT ![cur] = SubSeq(@, 1, Len(@) - 1)]
  /\ UNCHANGED <<cur, resume>>

(* A device requests an interrupt. *)
Raise(vec) ==
  /\ vec \notin pending /\ pending' = pending \cup {vec}
  /\ UNCHANGED <<cpu, in_service, in_external_intr, yield_on_return, cr2>>

(* The processor takes an interrupt that no more urgent one in service     *)
(* holds back, and intr_handler starts.  A spurious one is not in service. *)
intr_handler(vec) ==
  /\ level /\ vec \in pending /\ \A v \in in_service : vec < v
  /\ Enter(vec, 0)
  /\ pending' = pending \ {vec}
  /\ in_service' = IF vec = 39 THEN in_service ELSE in_service \cup {vec}
  /\ in_external_intr' = TRUE /\ yield_on_return' = FALSE /\ UNCHANGED cr2

intr_yield_on_return ==
  /\ InHandler /\ yield_on_return' = TRUE
  /\ UNCHANGED <<cpu, pic, in_external_intr, cr2>>

(* An end-of-interrupt clears the most urgent interrupt in service. *)
pic_end_of_interrupt ==
  in_service' = IF in_service = {} THEN {} ELSE in_service \ {Min(in_service)}

(* thread_yield up to the switch: another thread, or the same one, goes on *)
(* where it called it.                                                     *)
Switch(fs) ==
  \E t \in Thread :
    /\ resume' = [resume EXCEPT ![cur] = level]
    /\ cur' = t /\ level' = resume'[t] /\ frames' = fs

(* The end of intr_handler: acknowledge, then yield when it was asked for. *)
IntrReturn ==
  /\ InHandler
  /\ in_external_intr' = FALSE /\ pic_end_of_interrupt
  /\ IF yield_on_return
     THEN Switch([frames EXCEPT ![cur][Len(Stack)].phase = "return"])
     ELSE Leave
  /\ UNCHANGED <<pending, yield_on_return, cr2>>

IretAfterYield ==
  TopIs("irq", "return") /\ Leave /\ UNCHANGED <<pic, in_external_intr, yield_on_return, cr2>>

(* A thread yields or blocks of its own will. *)
thread_yield ==
  ~Busy /\ Switch(frames) /\ UNCHANGED <<pic, in_external_intr, yield_on_return, cr2>>

(* A page fault: its address is in cr2 until another one. *)
Fault(a) ==
  /\ ~Busy /\ level /\ Enter(14, a) /\ cr2' = a
  /\ UNCHANGED <<pic, in_external_intr, yield_on_return>>

(* page_fault reads cr2 and switches interrupts back on. *)
page_fault ==
  /\ TopIs("fault", "entered")
  /\ frames' = [frames EXCEPT ![cur][Len(Stack)].phase = "running", ![cur][Len(Stack)].seen = cr2]
  /\ level' = TRUE
  /\ UNCHANGED <<cur, resume, pic, in_external_intr, yield_on_return, cr2>>

PageFaultReturns ==
  TopIs("fault", "running") /\ Leave /\ UNCHANGED <<pic, in_external_intr, yield_on_return, cr2>>

(* An exception of a user program, or an INT instruction in it: through a  *)
(* gate that does not admit it the processor raises a general protection   *)
(* exception instead.  A device's handler is then entered without a device *)
(* and page_fault without a fault, which addr 0 stands for.                *)
Exception(vec) ==
  /\ Stack = <<>> /\ Enter(vec, 0)
  /\ UNCHANGED <<pic, in_external_intr, yield_on_return, cr2>>
IntInstruction(vec) == Exception(IF idt(vec).dpl = 3 THEN vec ELSE 13)

SystemCallReturns ==
  TopIs("syscall", "running") /\ Leave /\ UNCHANGED <<pic, in_external_intr, yield_on_return, cr2>>

(* kill, of a user program: thread_exit.  A new thread takes its place,    *)
(* which kernel_thread starts with interrupts on.                          *)
kill ==
  /\ TopIs("exception", "running")
  /\ resume' = [resume EXCEPT ![cur] = TRUE]
  /\ frames' = [frames EXCEPT ![cur] = <<>>]
  /\ \E t \in Thread : cur' = t /\ level' = resume'[t]
  /\ UNCHANGED <<pic, in_external_intr, yield_on_return, cr2>>

(* intr_disable and intr_set_level in a thread. *)
intr_disable ==
  /\ ~Busy /\ level /\ Len(Stack) < MaxDepth
  /\ frames' = [frames EXCEPT ![cur] = Append(@, [kind |-> "critical", vec |-> 0, level |-> level,
                                                  phase |-> "running", addr |-> 0, seen |-> 0])]
  /\ level' = FALSE
  /\ UNCHANGED <<cur, resume, pic, in_external_intr, yield_on_return, cr2>>
intr_set_level ==
  TopIs("critical", "running") /\ Leave /\ UNCHANGED <<pic, in_external_intr, yield_on_return, cr2>>

Next ==
  \/ \E vec \in Irq : Raise(vec) \/ intr_handler(vec)
  \/ intr_yield_on_return \/ IntrReturn \/ IretAfterYield \/ thread_yield
  \/ \E a \in Addr : Fault(a)
  \/ page_fault \/ PageFaultReturns \/ SystemCallReturns \/ kill
  \/ \E vec \in {3, 14, 32, 48} : IntInstruction(vec)
  \/ intr_disable \/ intr_set_level

Spec == Init /\ [][Next]_vars

-----------------------------------------------------------------------------
(* Properties. *)

Active == {<<t, i>> \in Thread \X (1 .. MaxDepth) :
             i <= Len(frames[t]) /\ frames[t][i].kind = "irq" /\ frames[t][i].phase = "handler"}

(* intr_handler's assertions and the comment before in_external_intr:      *)
(* external handlers never nest and run with interrupts off, whatever      *)
(* threads were switched under them; and no interrupt stays unacknowledged *)
(* once its handler is over, even when the handler's thread has yielded    *)
(* and sits in the middle of intr_handler.  Nothing but a device enters    *)
(* one: no gate admits an INT instruction to it.                           *)
OneExternal ==
  /\ in_external_intr <=> Active # {}
  /\ Active # {} => ~level /\ Active = {<<cur, Len(Stack)>>}
  /\ in_service = IF InHandler THEN {Stack[Len(Stack)].vec} \ {39} ELSE {}

(* page_fault takes the address of its own fault, although other threads   *)
(* may fault as soon as interrupts are on, and is entered by faults only;  *)
(* and a thread that runs outside of every frame has interrupts on.        *)
OwnFault ==
  /\ \A t \in Thread : \A i \in DOMAIN frames[t] :
       frames[t][i].phase = "running" => frames[t][i].seen = frames[t][i].addr
  /\ Stack = <<>> => level
=============================================================================
