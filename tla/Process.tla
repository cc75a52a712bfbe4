------------------------------ MODULE Process ------------------------------
(***************************************************************************)
(* The life of a process: process_execute, start_process, process_wait and *)
(* process_exit of userprog/process.c, kill of userprog/exception.c, and   *)
(* what thread_create, thread_exit and a switch of threads do to the       *)
(* fields of struct thread they use.                                       *)
(*                                                                         *)
(* Each step is one statement, or several that touch nothing another       *)
(* thread sees; the scheduler may switch between any two.  Semaphores have *)
(* a value only: module Threads has their waiters.  A child_list is a set: *)
(* it is searched by tid and has each child once.  The idle thread, which  *)
(* is a child of the initial thread that never exits, is not on any list   *)
(* here.                                                                   *)
(***************************************************************************)
EXTENDS Integers

CONSTANTS
  Proc,     \* the pages that thread_create can get, the initial thread's included
  Main,     \* initial_thread
  Status,   \* the numbers that processes pass to exit
  MaxTid,   \* bound on next_tid
  NULL      \* no thread; as a page directory, init_page_dir

ASSUME ConstantsAssumption ==
  /\ Main \in Proc /\ NULL \notin Proc
  /\ Status \subseteq Int /\ MaxTid \in Nat \ {0}

VARIABLES
  cr3,        \* the page directory that is active while a thread runs
  pagedirs,   \* the page directories that exist
  th,         \* struct thread, NULL in a free page
  next_tid,
  pc,
  temp,       \* the local variable of process_wait: a child
  result,     \* what process_execute or process_wait is about to return
  loaded,     \* start_process' `success'
  death       \* history: "exit" when the process called exit, "kill" when killed

vars == <<cr3, pagedirs, th, next_tid, pc, temp, result, loaded, death>>

TID_ERROR == -1

(* "exec_down": in process_execute's sema_down; "start", "report",         *)
(* "report_up": in start_process; "wait_down", "wait_take", "wait_up": in  *)
(* process_wait; "exit" and the labels named after it: in process_exit;    *)
(* "exit_free": in thread_exit after it; "run_task": the initial thread    *)
(* between process_execute and process_wait.                               *)
Label == {"run", "run_task", "exec_down", "start", "report", "report_up", "wait_down",
          "wait_take", "wait_up", "exit", "exit_down", "exit_null",
          "exit_activate", "exit_destroy", "exit_free"}

Tid == 1 .. MaxTid

(* The fields of struct thread that matter here. *)
Struct ==
  [tid : Tid, parent : Proc, child_list : SUBSET Proc,
   parent_sema : {0, 1}, parent_sema2 : {0, 1}, create_sema : {0, 1},
   create_success : BOOLEAN, exit_number : Status \cup {0}, pagedir : BOOLEAN]

ASSUME NullAssumption == NULL \notin Struct

TypeOK ==
  /\ cr3 \in [Proc -> Proc \cup {NULL}]
  /\ pagedirs \subseteq Proc
  /\ th \in [Proc -> Struct \cup {NULL}]
  /\ next_tid \in 1 .. MaxTid + 1
  /\ pc \in [Proc -> Label]
  /\ temp \in [Proc -> Proc \cup {NULL}]
  /\ result \in [Proc -> Tid \cup Status \cup {TID_ERROR, 0}]
  /\ loaded \in [Proc -> BOOLEAN]
  /\ death \in [Proc -> {"none", "exit", "kill"}]

(* init_thread, on behalf of the running thread. *)
init_thread(parent) ==
  [tid |-> next_tid, parent |-> parent, child_list |-> {},
   parent_sema |-> 0, parent_sema2 |-> 0, create_sema |-> 0,
   create_success |-> TRUE, exit_number |-> 0, pagedir |-> FALSE]

At(t, l) == th[t] # NULL /\ pc[t] = l
Goto(t, l) == pc' = [pc EXCEPT ![t] = l]

(* sema_down of the semaphore f in t's page, and sema_up. *)
Down(t, f) == th[t][f] > 0 /\ th' = [th EXCEPT ![t][f] = @ - 1]
Up(t, f) == th' = [th EXCEPT ![t][f] = @ + 1]

-----------------------------------------------------------------------------
(* process_execute *)

(* The page that thread_create gets: free pages are alike. *)
FreePage == CHOOSE c \in Proc : th[c] = NULL

(* Where a thread is after process_execute. *)
Returned(t) == IF t = Main THEN "run_task" ELSE "run"

(* No page for the copy of the file name. *)
CopyFails(t) ==
  /\ At(t, "run")
  /\ \A c \in Proc : th[c] # NULL
  /\ result' = [result EXCEPT ![t] = TID_ERROR]
  /\ Goto(t, Returned(t))
  /\ UNCHANGED <<cr3, pagedirs, th, next_tid, temp, loaded, death>>

ThreadCreate(t) ==
  /\ At(t, "run")
  /\ \E c \in Proc : th[c] = NULL
  /\ next_tid <= MaxTid
  /\ th' = [th EXCEPT ![FreePage] = init_thread(t), ![t].child_list = @ \cup {FreePage}]
  /\ next_tid' = next_tid + 1
  /\ result' = [result EXCEPT ![t] = next_tid]
  /\ pc' = [pc EXCEPT ![t] = "exec_down", ![FreePage] = "start"]
  /\ UNCHANGED <<cr3, pagedirs, temp, loaded, death>>

(* No page for the new thread, though there was one for the file name: it  *)
(* still goes on to sema_down.                                             *)
ThreadCreateFails(t) ==
  /\ At(t, "run")
  /\ \A c \in Proc : th[c] # NULL
  /\ result' = [result EXCEPT ![t] = TID_ERROR]
  /\ Goto(t, "exec_down")
  /\ UNCHANGED <<cr3, pagedirs, th, next_tid, temp, loaded, death>>

ExecReturn(t) ==
  /\ At(t, "exec_down")
  /\ Down(t, "create_sema")
  /\ result' = [result EXCEPT ![t] = IF th[t].create_success THEN @ ELSE -1]
  /\ Goto(t, Returned(t))
  /\ UNCHANGED <<cr3, pagedirs, next_tid, temp, loaded, death>>

-----------------------------------------------------------------------------
(* start_process *)

(* load: it may fail, before or after it has made and activated a page     *)
(* directory.                                                              *)
Load(t, pd, success) ==
  /\ At(t, "start")
  /\ success => pd
  /\ th' = [th EXCEPT ![t].pagedir = pd]
  /\ pagedirs' = IF pd THEN pagedirs \cup {t} ELSE pagedirs
  /\ cr3' = [cr3 EXCEPT ![t] = IF pd THEN t ELSE @]
  /\ loaded' = [loaded EXCEPT ![t] = success]
  /\ Goto(t, "report")
  /\ UNCHANGED <<next_tid, temp, result, death>>

Report(t) ==
  /\ At(t, "report")
  /\ th' = [th EXCEPT ![th[t].parent].create_success = loaded[t]]
  /\ Goto(t, "report_up")
  /\ UNCHANGED <<cr3, pagedirs, next_tid, temp, result, loaded, death>>

ReportUp(t) ==
  /\ At(t, "report_up")
  /\ Up(th[t].parent, "create_sema")
  /\ Goto(t, IF loaded[t] THEN "run" ELSE "exit")
  /\ UNCHANGED <<cr3, pagedirs, next_tid, temp, result, loaded, death>>

-----------------------------------------------------------------------------
(* process_wait *)

process_wait(t, tid) ==
  LET found == {c \in th[t].child_list : th[c].tid = tid}
  IN  /\ IF found = {}
         THEN /\ result' = [result EXCEPT ![t] = -1]
              /\ Goto(t, "run")
              /\ UNCHANGED temp
         ELSE /\ temp' = [temp EXCEPT ![t] = CHOOSE c \in found : TRUE]
              /\ Goto(t, "wait_down")
              /\ UNCHANGED result
      /\ UNCHANGED <<cr3, pagedirs, th, next_tid, loaded, death>>

(* A process passes any number; the initial thread passes on what          *)
(* process_execute returned, and calls process_wait nowhere else.          *)
ProcessWait(t, tid) == At(t, "run") /\ t # Main /\ process_wait(t, tid)
RunTask(t) == At(t, "run_task") /\ process_wait(t, result[t])

WaitDown(t) ==
  /\ At(t, "wait_down")
  /\ Down(temp[t], "parent_sema")
  /\ Goto(t, "wait_take")
  /\ UNCHANGED <<cr3, pagedirs, next_tid, temp, result, loaded, death>>

WaitTake(t) ==
  /\ At(t, "wait_take")
  /\ th' = [th EXCEPT ![t].child_list = @ \ {temp[t]}]
  /\ result' = [result EXCEPT ![t] = th[temp[t]].exit_number]
  /\ Goto(t, "wait_up")
  /\ UNCHANGED <<cr3, pagedirs, next_tid, temp, loaded, death>>

(* The child never told to go. *)
WaitUpNot(t) ==
  /\ At(t, "wait_up")
  /\ temp' = [temp EXCEPT ![t] = NULL]
  /\ Goto(t, "run")
  /\ UNCHANGED <<cr3, pagedirs, th, next_tid, result, loaded, death>>

WaitUp(t) ==
  /\ At(t, "wait_up")
  /\ Up(temp[t], "parent_sema2")
  /\ temp' = [temp EXCEPT ![t] = NULL]
  /\ Goto(t, "run")
  /\ UNCHANGED <<cr3, pagedirs, next_tid, result, loaded, death>>

-----------------------------------------------------------------------------
(* exit, kill, process_exit and thread_exit *)

(* exit() that sets the number only after it has told the parent. *)
ExitUnset(t, n) ==
  /\ At(t, "run") /\ t # Main
  /\ result' = [result EXCEPT ![t] = n]
  /\ death' = [death EXCEPT ![t] = "exit"]
  /\ Goto(t, "exit")
  /\ UNCHANGED <<cr3, pagedirs, th, next_tid, temp, loaded>>

Exit(t, n) ==
  /\ At(t, "run") /\ t # Main
  /\ th' = [th EXCEPT ![t].exit_number = n]
  /\ result' = [result EXCEPT ![t] = n]
  /\ death' = [death EXCEPT ![t] = "exit"]
  /\ Goto(t, "exit")
  /\ UNCHANGED <<cr3, pagedirs, next_tid, temp, loaded>>

Kill(t) ==
  /\ At(t, "run") /\ t # Main
  /\ death' = [death EXCEPT ![t] = "kill"]
  /\ Goto(t, "exit")
  /\ UNCHANGED <<cr3, pagedirs, th, next_tid, temp, result, loaded>>

(* After the files are closed. *)
ExitUp(t) ==
  /\ At(t, "exit")
  /\ Up(t, "parent_sema")
  /\ Goto(t, "exit_down")
  /\ UNCHANGED <<cr3, pagedirs, next_tid, temp, result, loaded, death>>

(* process_exit without its wait for the parent. *)
ExitNoWait(t) ==
  /\ At(t, "exit_down")
  /\ Goto(t, IF th[t].pagedir THEN "exit_null" ELSE "exit_free")
  /\ UNCHANGED <<cr3, pagedirs, th, next_tid, temp, result, loaded, death>>

ExitDown(t) ==
  /\ At(t, "exit_down")
  /\ Down(t, "parent_sema2")
  /\ Goto(t, IF th[t].pagedir THEN "exit_null" ELSE "exit_free")
  /\ UNCHANGED <<cr3, pagedirs, next_tid, temp, result, loaded, death>>

ExitNull(t) ==
  /\ At(t, "exit_null")
  /\ th' = [th EXCEPT ![t].pagedir = FALSE]
  /\ Goto(t, "exit_activate")
  /\ UNCHANGED <<cr3, pagedirs, next_tid, temp, result, loaded, death>>

ExitActivate(t) ==
  /\ At(t, "exit_activate")
  /\ cr3' = [cr3 EXCEPT ![t] = NULL]
  /\ Goto(t, "exit_destroy")
  /\ UNCHANGED <<pagedirs, th, next_tid, temp, result, loaded, death>>

ExitDestroy(t) ==
  /\ At(t, "exit_destroy")
  /\ pagedirs' = pagedirs \ {t}
  /\ Goto(t, "exit_free")
  /\ UNCHANGED <<cr3, th, next_tid, temp, result, loaded, death>>

(* The rest of thread_exit, and the next thread freeing the page. *)
ExitFree(t) ==
  /\ At(t, "exit_free")
  /\ th' = [th EXCEPT ![t] = NULL]
  /\ Goto(t, "run")
  /\ cr3' = [cr3 EXCEPT ![t] = NULL]
  /\ loaded' = [loaded EXCEPT ![t] = FALSE]
  /\ result' = [result EXCEPT ![t] = 0]
  /\ death' = [death EXCEPT ![t] = "none"]
  /\ UNCHANGED <<pagedirs, next_tid, temp>>

(* The timer switches to another thread and later back to t, which is      *)
(* where thread_schedule_tail calls process_activate.                      *)
ProcessActivate(t) ==
  /\ th[t] # NULL
  /\ cr3' = [cr3 EXCEPT ![t] = IF th[t].pagedir THEN t ELSE NULL]
  /\ UNCHANGED <<pagedirs, th, next_tid, pc, temp, result, loaded, death>>

-----------------------------------------------------------------------------
(* The initial thread is on its own child_list: init_thread puts it there. *)
Init ==
  /\ cr3 = [t \in Proc |-> NULL] /\ pagedirs = {}
  /\ next_tid = 2
  /\ th = [t \in Proc |-> IF t # Main THEN NULL ELSE
             [tid |-> 1, parent |-> Main, child_list |-> {Main},
              parent_sema |-> 0, parent_sema2 |-> 0, create_sema |-> 0,
              create_success |-> TRUE, exit_number |-> 0, pagedir |-> FALSE]]
  /\ pc = [t \in Proc |-> "run"]
  /\ temp = [t \in Proc |-> NULL]
  /\ result = [t \in Proc |-> 0]
  /\ loaded = [t \in Proc |-> FALSE]
  /\ death = [t \in Proc |-> "none"]

KernelStep(t) ==
  \/ ExecReturn(t)
  \/ \E pd, success \in BOOLEAN : Load(t, pd, success)
  \/ Report(t) \/ ReportUp(t)
  \/ RunTask(t) \/ WaitDown(t) \/ WaitTake(t) \/ WaitUp(t)
  \/ ExitUp(t) \/ ExitDown(t) \/ ExitNull(t) \/ ExitActivate(t) \/ ExitDestroy(t)
  \/ ExitFree(t)

Call(t) ==
  \/ ThreadCreate(t) \/ ThreadCreateFails(t) \/ CopyFails(t)
  \/ \E tid \in Tid : ProcessWait(t, tid)
  \/ \E n \in Status : Exit(t, n)
  \/ Kill(t)

Next == \E t \in Proc : KernelStep(t) \/ Call(t) \/ ProcessActivate(t)

Spec == Init /\ [][Next]_vars

-----------------------------------------------------------------------------
(* Properties. *)

(* No thread looks into a freed page: every child on a list is there, so   *)
(* is the child that process_wait holds a pointer to until it has let it   *)
(* go, and so is the parent that start_process reports to, which does not  *)
(* leave process_execute before.                                           *)
NoUseAfterFree ==
  \A t \in Proc : th[t] # NULL =>
    /\ \A c \in th[t].child_list : th[c] # NULL /\ th[c].parent = t
    /\ pc[t] \in {"wait_down", "wait_take", "wait_up"} =>
         th[temp[t]] # NULL /\ th[temp[t]].parent = t
    /\ pc[t] \in {"start", "report", "report_up"} =>
         th[th[t].parent] # NULL /\ pc[th[t].parent] = "exec_down"

(* The active page directory exists, at every step of process_exit and     *)
(* whenever the timer switches threads ("Correct ordering here is          *)
(* crucial", userprog/process.c).                                          *)
PagedirSafe == \A t \in Proc : cr3[t] # NULL => cr3[t] \in pagedirs

(* process_execute returns a tid only when that very child was loaded,     *)
(* whatever became of it since: create_success is never another child's.   *)
ExecTruthful(t) ==
  pc[t] = "exec_down" /\ pc'[t] = Returned(t) /\ result'[t] # TID_ERROR =>
    \E c \in Proc : th[c] # NULL /\ th[c].tid = result'[t] /\ loaded[c]

(* process_wait returns the number that the process waited for passed to   *)
(* exit, and finds that process at its end.  For a process that an         *)
(* exception killed it returns what init_thread left in exit_number: 0.    *)
StatusDelivered(t) ==
  pc[t] = "wait_take" /\ pc'[t] = "wait_up" =>
    LET c == temp[t]
    IN  /\ pc[c] = "exit_down"
        /\ death[c] = "exit" => result'[t] = result[c]
        /\ death[c] = "kill" => result'[t] = 0

(* What process_execute and process_wait answer is true of the child they  *)
(* answer for.                                                             *)
AnswersTrue == [][\A t \in Proc : ExecTruthful(t) /\ StatusDelivered(t)]_vars

(* A child's status is collected once: when process_wait lets it go it is  *)
(* on no list, so that a second wait for its tid returns -1.               *)
WaitOnce ==
  \A t \in Proc : th[t] # NULL /\ (pc[t] = "exit_down" => th[t].parent_sema2 = 1)
                    /\ pc[t] \in {"exit_down", "exit_null", "exit_activate",
                                  "exit_destroy", "exit_free"} =>
    \A p \in Proc : th[p] # NULL => t \notin th[p].child_list

(* Whatever processes and the timer do, nobody uses what has been given    *)
(* back: a struct thread, a page directory or a child's status.            *)
NothingStale == TypeOK /\ NoUseAfterFree /\ PagedirSafe /\ WaitOnce

-----------------------------------------------------------------------------
(* Liveness.  A thread that can take its next step inside a kernel call    *)
(* takes it in the end: the scheduler is round-robin and all processes     *)
(* have the default priority.                                              *)
Fairness == \A t \in Proc : WF_vars(KernelStep(t))

FairSpec == Spec /\ Fairness

(* A parent that waits for a process that is exiting gets its status. *)
WaitReturns ==
  \A t \in Proc :
    (pc[t] = "wait_down" /\ pc[temp[t]] \in {"exit", "exit_down"}) ~> pc[t] = "run"

(* A process that its parent has waited for gives its page back. *)
WaitedFreed ==
  \A t \in Proc : (\E p \in Proc : pc[p] = "wait_up" /\ temp[p] = t) ~> th[t] = NULL

(* process_execute comes back when it got a thread. *)
ExecReturns ==
  \A t \in Proc : (pc[t] = "exec_down" /\ result[t] # TID_ERROR) ~> pc[t] = Returned(t)

(* The calls of process.c that should end do, and what was waited for is   *)
(* freed.                                                                  *)
CallsReturn == WaitReturns /\ WaitedFreed /\ ExecReturns

(* "All of a process's resources, including its struct thread, must be     *)
(* freed whether its parent ever waits for it or not" (doc/userprog.texi). *)
AlwaysFreed == \A t \in Proc : pc[t] = "exit" ~> th[t] = NULL
=============================================================================
