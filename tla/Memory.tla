------------------------------- MODULE Memory -------------------------------
(***************************************************************************)
(* What virtual memory promises a process: private pages that hold what    *)
(* the process last wrote to them, wherever the kernel keeps them.         *)
(***************************************************************************)
CONSTANTS Proc, Page, Value,
          initial    \* what each page holds before the first write to it

VARIABLES
  alive,   \* processes that still use their memory
  running, \* those that execute instructions: the others wait in the kernel
  mem      \* the pages of each live process

Init ==
  /\ alive = Proc /\ running = {}
  /\ mem = [p \in Proc |-> initial]

Write(p, v, x) ==
  /\ p \in running
  /\ mem' = [mem EXCEPT ![p][v] = x]
  /\ UNCHANGED <<alive, running>>

(* A process enters the kernel or leaves it. *)
Trap(p) ==
  /\ p \in alive
  /\ running' \in {running \union {p}, running \ {p}}
  /\ UNCHANGED <<alive, mem>>

Exit(p) ==
  /\ p \in alive
  /\ alive' = alive \ {p} /\ running' = running \ {p}
  /\ mem' = [mem EXCEPT ![p] = initial]

Next == \E p \in Proc : Trap(p) \/ Exit(p) \/ \E v \in Page, x \in Value : Write(p, v, x)

Spec == Init /\ [][Next]_<<alive, running, mem>>
=============================================================================
