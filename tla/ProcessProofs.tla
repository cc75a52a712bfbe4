--------------------------- MODULE ProcessProofs ---------------------------
(***************************************************************************)
(* Proofs about the life of processes (module Process), for any number of  *)
(* pages, tids and exit numbers: nothing is used after it has been given   *)
(* back, and process_execute and process_wait answer for the right child.  *)
(***************************************************************************)
EXTENDS Process, TLAPS

Starting == {"start", "report", "report_up"}
Gone == {"exit_null", "exit_activate", "exit_destroy", "exit_free"}
Exiting == {"exit", "exit_down"} \cup Gone

Live(t) == th[t] # NULL

(* A free page is as ExitFree left it. *)
FreeInv ==
  \A t \in Proc : th[t] = NULL => pc[t] = "run" /\ cr3[t] = NULL /\ death[t] = "none"

(* Two threads never have one tid, and next_tid is new. *)
TidInv ==
  \A t \in Proc : Live(t) =>
    /\ th[t].tid < next_tid
    /\ \A u \in Proc : Live(u) /\ th[u].tid = th[t].tid => u = t

(* A child on a list exists and has not been let go. *)
ChildInv ==
  \A p, c \in Proc : Live(p) /\ c \in th[p].child_list =>
    Live(c) /\ th[c].parent = p /\ pc[c] \notin Gone /\ th[c].parent_sema2 = 0

(* What process_wait knows of the child it waits for: it is on the list    *)
(* until it is taken off, it has come to its sema_down when its status is  *)
(* taken, and nobody else lets it go.                                      *)
WaitInv ==
  \A p \in Proc : Live(p) =>
    /\ pc[p] \in {"wait_down", "wait_take"} => temp[p] \in th[p].child_list
    /\ pc[p] = "wait_up" =>
         temp[p] \in Proc /\ temp[p] \notin th[p].child_list /\ Live(temp[p]) /\ th[temp[p]].parent = p
    /\ pc[p] \in {"wait_take", "wait_up"} =>
         pc[temp[p]] = "exit_down" /\ th[temp[p]].parent_sema = 0 /\ th[temp[p]].parent_sema2 = 0

(* The semaphores of a process that has not come to their use are 0. *)
SemaInv ==
  \A t \in Proc : Live(t) =>
    /\ pc[t] # "exit_down" => th[t].parent_sema2 = 0
    /\ pc[t] \notin Exiting \/ pc[t] = "exit" => th[t].parent_sema = 0

(* A process that starts is the child its parent waits for in              *)
(* process_execute.                                                        *)
StartInv ==
  \A t \in Proc : Live(t) /\ pc[t] \in Starting =>
    /\ Live(th[t].parent) /\ pc[th[t].parent] = "exec_down"
    /\ t \in th[th[t].parent].child_list
    /\ th[t].tid = result[th[t].parent] /\ th[th[t].parent].create_sema = 0
    /\ pc[t] = "report_up" => th[th[t].parent].create_success = loaded[t]

(* Once it has reported, the parent has its answer. *)
AnswerInv ==
  \A t \in Proc : Live(t) /\ th[t].create_sema = 1 =>
    /\ pc[t] = "exec_down"
    /\ \E c \in th[t].child_list :
         th[c].tid = result[t] /\ pc[c] \notin Starting /\ th[t].create_success = loaded[c]

(* A page directory is active only while its process has it, or has just   *)
(* dropped it.                                                             *)
PagedirInv ==
  \A t \in Proc :
    /\ cr3[t] # NULL =>
         cr3[t] = t /\ t \in pagedirs /\ Live(t) /\ (th[t].pagedir \/ pc[t] = "exit_activate")
    /\ Live(t) /\ th[t].pagedir =>
         t \in pagedirs /\ pc[t] \notin {"start", "exit_activate", "exit_destroy", "exit_free"}
    /\ Live(t) /\ pc[t] = "exit_null" => th[t].pagedir
    /\ Live(t) /\ pc[t] = "exit_activate" => t \in pagedirs

(* The number that the parent will read. *)
DeathInv ==
  \A t \in Proc : Live(t) =>
    /\ pc[t] \notin Exiting => death[t] = "none" /\ th[t].exit_number = 0
    /\ death[t] = "exit" => th[t].exit_number = result[t]
    /\ death[t] = "kill" => th[t].exit_number = 0

IInv ==
  /\ TypeOK /\ FreeInv /\ TidInv /\ ChildInv /\ WaitInv /\ SemaInv
  /\ StartInv /\ AnswerInv /\ PagedirInv /\ DeathInv

(* The fields of a page that is in use. *)
LEMMA StructFields ==
  ASSUME IInv
  PROVE  \A u \in Proc : th[u] # NULL =>
           /\ th[u] \in Struct /\ th[u].tid \in Tid /\ th[u].parent \in Proc
           /\ th[u].child_list \subseteq Proc /\ th[u].create_sema \in {0, 1}
  BY Zenon DEF IInv, TypeOK, Struct

(* No page is taken or freed, and no thread changes its tid or parent. *)
KeepsThreads ==
  \A u \in Proc :
    /\ th'[u] = NULL <=> th[u] = NULL
    /\ th[u] # NULL => th'[u].tid = th[u].tid /\ th'[u].parent = th[u].parent

(* A field that a step leaves alone in every page. *)
KeepsChildren == \A u \in Proc : th[u] # NULL => th'[u].child_list = th[u].child_list
KeepsParentSema == \A u \in Proc : th[u] # NULL => th'[u].parent_sema = th[u].parent_sema
KeepsParentSema2 == \A u \in Proc : th[u] # NULL => th'[u].parent_sema2 = th[u].parent_sema2
KeepsCreateSema == \A u \in Proc : th[u] # NULL => th'[u].create_sema = th[u].create_sema
KeepsSuccess == \A u \in Proc : th[u] # NULL => th'[u].create_success = th[u].create_success
KeepsNumber == \A u \in Proc : th[u] # NULL => th'[u].exit_number = th[u].exit_number
KeepsPagedir == \A u \in Proc : th[u] # NULL => th'[u].pagedir = th[u].pagedir

(* What the assignment of one field changes. *)
LEMMA SetChildren ==
  ASSUME TypeOK, NEW x \in Proc, th[x] # NULL, NEW v \in SUBSET Proc,
         th' = [th EXCEPT ![x].child_list = v]
  PROVE  /\ th' \in [Proc -> Struct \cup {NULL}]
         /\ KeepsThreads /\ KeepsParentSema /\ KeepsParentSema2 /\ KeepsCreateSema
         /\ KeepsSuccess /\ KeepsNumber /\ KeepsPagedir
         /\ th'[x].child_list = v
         /\ \A u \in Proc : u # x => th'[u] = th[u]
  BY NullAssumption
  DEF TypeOK, Struct, KeepsThreads, KeepsParentSema, KeepsParentSema2, KeepsCreateSema,
      KeepsSuccess, KeepsNumber, KeepsPagedir

(* The same of the semaphore a process tells its parent with, *)
LEMMA SetParentSema ==
  ASSUME TypeOK, NEW x \in Proc, th[x] # NULL, NEW v \in {0, 1},
         th' = [th EXCEPT ![x].parent_sema = v]
  PROVE  /\ th' \in [Proc -> Struct \cup {NULL}]
         /\ KeepsThreads /\ KeepsChildren /\ KeepsParentSema2 /\ KeepsCreateSema
         /\ KeepsSuccess /\ KeepsNumber /\ KeepsPagedir
         /\ th'[x].parent_sema = v
         /\ \A u \in Proc : u # x => th'[u] = th[u]
  BY NullAssumption
  DEF TypeOK, Struct, KeepsThreads, KeepsChildren, KeepsParentSema2, KeepsCreateSema,
      KeepsSuccess, KeepsNumber, KeepsPagedir

(* of the one it waits for its parent with, *)
LEMMA SetParentSema2 ==
  ASSUME TypeOK, NEW x \in Proc, th[x] # NULL, NEW v \in {0, 1},
         th' = [th EXCEPT ![x].parent_sema2 = v]
  PROVE  /\ th' \in [Proc -> Struct \cup {NULL}]
         /\ KeepsThreads /\ KeepsChildren /\ KeepsParentSema /\ KeepsCreateSema
         /\ KeepsSuccess /\ KeepsNumber /\ KeepsPagedir
         /\ th'[x].parent_sema2 = v
         /\ \A u \in Proc : u # x => th'[u] = th[u]
  BY NullAssumption
  DEF TypeOK, Struct, KeepsThreads, KeepsChildren, KeepsParentSema, KeepsCreateSema,
      KeepsSuccess, KeepsNumber, KeepsPagedir

(* of the one process_execute waits on, *)
LEMMA SetCreateSema ==
  ASSUME TypeOK, NEW x \in Proc, th[x] # NULL, NEW v \in {0, 1},
         th' = [th EXCEPT ![x].create_sema = v]
  PROVE  /\ th' \in [Proc -> Struct \cup {NULL}]
         /\ KeepsThreads /\ KeepsChildren /\ KeepsParentSema /\ KeepsParentSema2
         /\ KeepsSuccess /\ KeepsNumber /\ KeepsPagedir
         /\ th'[x].create_sema = v
         /\ \A u \in Proc : u # x => th'[u] = th[u]
  BY NullAssumption
  DEF TypeOK, Struct, KeepsThreads, KeepsChildren, KeepsParentSema, KeepsParentSema2,
      KeepsSuccess, KeepsNumber, KeepsPagedir

(* of what start_process reports, *)
LEMMA SetSuccess ==
  ASSUME TypeOK, NEW x \in Proc, th[x] # NULL, NEW v \in BOOLEAN,
         th' = [th EXCEPT ![x].create_success = v]
  PROVE  /\ th' \in [Proc -> Struct \cup {NULL}]
         /\ KeepsThreads /\ KeepsChildren /\ KeepsParentSema /\ KeepsParentSema2
         /\ KeepsCreateSema /\ KeepsNumber /\ KeepsPagedir
         /\ th'[x].create_success = v
         /\ \A u \in Proc : u # x => th'[u] = th[u]
  BY NullAssumption
  DEF TypeOK, Struct, KeepsThreads, KeepsChildren, KeepsParentSema, KeepsParentSema2,
      KeepsCreateSema, KeepsNumber, KeepsPagedir

(* of what process_wait will return, *)
LEMMA SetNumber ==
  ASSUME TypeOK, NEW x \in Proc, th[x] # NULL, NEW v \in Status \cup {0},
         th' = [th EXCEPT ![x].exit_number = v]
  PROVE  /\ th' \in [Proc -> Struct \cup {NULL}]
         /\ KeepsThreads /\ KeepsChildren /\ KeepsParentSema /\ KeepsParentSema2
         /\ KeepsCreateSema /\ KeepsSuccess /\ KeepsPagedir
         /\ th'[x].exit_number = v
         /\ \A u \in Proc : u # x => th'[u] = th[u]
  BY NullAssumption
  DEF TypeOK, Struct, KeepsThreads, KeepsChildren, KeepsParentSema, KeepsParentSema2,
      KeepsCreateSema, KeepsSuccess, KeepsPagedir

(* and of the page directory. *)
LEMMA SetPagedir ==
  ASSUME TypeOK, NEW x \in Proc, th[x] # NULL, NEW v \in BOOLEAN,
         th' = [th EXCEPT ![x].pagedir = v]
  PROVE  /\ th' \in [Proc -> Struct \cup {NULL}]
         /\ KeepsThreads /\ KeepsChildren /\ KeepsParentSema /\ KeepsParentSema2
         /\ KeepsCreateSema /\ KeepsSuccess /\ KeepsNumber
         /\ th'[x].pagedir = v
         /\ \A u \in Proc : u # x => th'[u] = th[u]
  BY NullAssumption
  DEF TypeOK, Struct, KeepsThreads, KeepsChildren, KeepsParentSema, KeepsParentSema2,
      KeepsCreateSema, KeepsSuccess, KeepsNumber

(* sema_down waits for 1 and leaves 0. *)
LEMMA DownSema ==
  ASSUME TypeOK, NEW x \in Proc, th[x] # NULL
  PROVE  /\ Down(x, "parent_sema") => th[x].parent_sema = 1 /\ th' = [th EXCEPT ![x].parent_sema = 0]
         /\ Down(x, "parent_sema2") => th[x].parent_sema2 = 1 /\ th' = [th EXCEPT ![x].parent_sema2 = 0]
         /\ Down(x, "create_sema") => th[x].create_sema = 1 /\ th' = [th EXCEPT ![x].create_sema = 0]
<1>1. th[x].parent_sema \in {0, 1} /\ th[x].parent_sema2 \in {0, 1} /\ th[x].create_sema \in {0, 1}
  BY Zenon DEF TypeOK, Struct
<1>2. ASSUME Down(x, "parent_sema") PROVE th[x].parent_sema = 1 /\ th' = [th EXCEPT ![x].parent_sema = 0]
  <2>1. th[x].parent_sema > 0 /\ th' = [th EXCEPT ![x].parent_sema = th[x].parent_sema - 1]
    BY Zenon, <1>2 DEF Down
  <2>2. th[x].parent_sema = 1
    BY <1>1, <2>1
  <2> QED BY <2>1, <2>2
<1>3. ASSUME Down(x, "parent_sema2") PROVE th[x].parent_sema2 = 1 /\ th' = [th EXCEPT ![x].parent_sema2 = 0]
  <2>1. th[x].parent_sema2 > 0 /\ th' = [th EXCEPT ![x].parent_sema2 = th[x].parent_sema2 - 1]
    BY Zenon, <1>3 DEF Down
  <2>2. th[x].parent_sema2 = 1
    BY <1>1, <2>1
  <2> QED BY <2>1, <2>2
<1>4. ASSUME Down(x, "create_sema") PROVE th[x].create_sema = 1 /\ th' = [th EXCEPT ![x].create_sema = 0]
  <2>1. th[x].create_sema > 0 /\ th' = [th EXCEPT ![x].create_sema = th[x].create_sema - 1]
    BY Zenon, <1>4 DEF Down
  <2>2. th[x].create_sema = 1
    BY <1>1, <2>1
  <2> QED BY <2>1, <2>2
<1> QED BY Zenon, <1>2, <1>3, <1>4

(* sema_up of a semaphore that is 0. *)
LEMMA UpSema ==
  ASSUME NEW x \in Proc
  PROVE  /\ th[x].parent_sema = 0 /\ Up(x, "parent_sema") => th' = [th EXCEPT ![x].parent_sema = 1]
         /\ th[x].parent_sema2 = 0 /\ Up(x, "parent_sema2") => th' = [th EXCEPT ![x].parent_sema2 = 1]
         /\ th[x].create_sema = 0 /\ Up(x, "create_sema") => th' = [th EXCEPT ![x].create_sema = 1]
<1>1. ASSUME th[x].parent_sema = 0, Up(x, "parent_sema") PROVE th' = [th EXCEPT ![x].parent_sema = 1]
  <2>1. th' = [th EXCEPT ![x].parent_sema = th[x].parent_sema + 1]
    BY Zenon, <1>1 DEF Up
  <2> QED BY <1>1, <2>1
<1>2. ASSUME th[x].parent_sema2 = 0, Up(x, "parent_sema2") PROVE th' = [th EXCEPT ![x].parent_sema2 = 1]
  <2>1. th' = [th EXCEPT ![x].parent_sema2 = th[x].parent_sema2 + 1]
    BY Zenon, <1>2 DEF Up
  <2> QED BY <1>2, <2>1
<1>3. ASSUME th[x].create_sema = 0, Up(x, "create_sema") PROVE th' = [th EXCEPT ![x].create_sema = 1]
  <2>1. th' = [th EXCEPT ![x].create_sema = th[x].create_sema + 1]
    BY Zenon, <1>3 DEF Up
  <2> QED BY <1>3, <2>1
<1> QED BY Zenon, <1>1, <1>2, <1>3

(* Every step preserves the invariant: one lemma for each action, with one *)
(* step for each conjunct.                                                 *)
LEMMA ExecReturnStep ==
  ASSUME IInv, NEW t \in Proc, ExecReturn(t)
  PROVE  IInv'
<1>1. th[t] # NULL /\ pc[t] = "exec_down"
  BY Zenon DEF ExecReturn, At
<1>2. /\ pc' = [pc EXCEPT ![t] = Returned(t)]
      /\ result' = [result EXCEPT ![t] = IF th[t].create_success THEN @ ELSE -1]
      /\ UNCHANGED <<cr3, pagedirs, next_tid, temp, loaded, death>>
      /\ Down(t, "create_sema")
  BY Zenon, <1>1 DEF ExecReturn, Goto
<1>3. th' = [th EXCEPT ![t].create_sema = 0] /\ 0 \in {0, 1} /\ th[t].create_sema = 1
  BY Zenon, <1>1, <1>2, DownSema DEF IInv
<1>4. /\ th' \in [Proc -> Struct \cup {NULL}]
      /\ KeepsThreads /\ KeepsChildren /\ KeepsParentSema /\ KeepsParentSema2
      /\ KeepsSuccess /\ KeepsNumber /\ KeepsPagedir
      /\ th'[t].create_sema = 0
      /\ \A u \in Proc : u # t => th'[u] = th[u]
  BY Zenon, <1>1, <1>2, <1>3, SetCreateSema DEF IInv
<1>5. TypeOK'
  BY Zenon, <1>1, <1>2, <1>3, <1>4, ConstantsAssumption
  DEF IInv, TypeOK, Label, Tid, Struct, TID_ERROR, Returned
<1>6. FreeInv'
  BY <1>1, <1>2, <1>3, <1>4 DEF IInv, TypeOK, FreeInv, KeepsThreads, Returned
<1>7. TidInv'
  BY <1>1, <1>2, <1>3, <1>4 DEF IInv, TypeOK, TidInv, Live, KeepsThreads, Returned
<1>8. ChildInv'
  BY <1>1, <1>2, <1>3, <1>4
  DEF IInv, TypeOK, ChildInv, Live, Gone, KeepsThreads, KeepsChildren, KeepsParentSema2,
      Returned
<1>9. WaitInv'
  BY <1>1, <1>2, <1>3, <1>4
  DEF IInv, TypeOK, WaitInv, Live, Exiting, Gone, KeepsThreads, KeepsChildren, KeepsParentSema,
      KeepsParentSema2, Returned
<1>10. SemaInv'
  BY <1>1, <1>2, <1>3, <1>4
  DEF IInv, TypeOK, SemaInv, Live, Exiting, Gone, KeepsThreads, KeepsParentSema,
      KeepsParentSema2, Returned
<1>11. StartInv'
  BY <1>1, <1>2, <1>3, <1>4
  DEF IInv, TypeOK, StartInv, Live, Starting, KeepsThreads, KeepsChildren, KeepsSuccess,
      Returned
<1>12. AnswerInv'
  BY <1>1, <1>2, <1>3, <1>4
  DEF IInv, TypeOK, AnswerInv, Live, Starting, KeepsThreads, KeepsChildren, KeepsSuccess,
      Returned
<1>13. PagedirInv'
  BY <1>1, <1>2, <1>3, <1>4
  DEF IInv, TypeOK, PagedirInv, Live, KeepsThreads, KeepsPagedir, Returned
<1>14. DeathInv'
  BY <1>1, <1>2, <1>3, <1>4
  DEF IInv, TypeOK, DeathInv, Live, Exiting, Gone, KeepsThreads, KeepsNumber, Returned
<1> QED BY Zenon, <1>5, <1>6, <1>7, <1>8, <1>9, <1>10, <1>11, <1>12, <1>13, <1>14 DEF IInv

(* load: the process may get its page directory. *)
LEMMA LoadStep ==
  ASSUME IInv, NEW t \in Proc, NEW pd \in BOOLEAN, NEW success \in BOOLEAN, Load(t, pd, success)
  PROVE  IInv'
<1>1. th[t] # NULL /\ pc[t] = "start"
  BY Zenon DEF Load, At
<1>2. /\ pc' = [pc EXCEPT ![t] = "report"]
      /\ success => pd
      /\ pagedirs' = IF pd THEN pagedirs \cup {t} ELSE pagedirs
      /\ cr3' = [cr3 EXCEPT ![t] = IF pd THEN t ELSE @]
      /\ loaded' = [loaded EXCEPT ![t] = success]
      /\ UNCHANGED <<next_tid, temp, result, death>>
      /\ th' = [th EXCEPT ![t].pagedir = pd] /\ pd \in BOOLEAN
  BY Zenon, <1>1 DEF Load, At, Goto, IInv, TypeOK, Struct
<1>3. /\ th' \in [Proc -> Struct \cup {NULL}]
      /\ KeepsThreads /\ KeepsChildren /\ KeepsParentSema /\ KeepsParentSema2
      /\ KeepsCreateSema /\ KeepsSuccess /\ KeepsNumber
      /\ th'[t].pagedir = pd
      /\ \A u \in Proc : u # t => th'[u] = th[u]
  BY Zenon, <1>1, <1>2, SetPagedir DEF IInv
<1>4. TypeOK'
  BY Zenon, <1>1, <1>2, <1>3, ConstantsAssumption DEF IInv, TypeOK, Label, Tid, Struct
<1>5. FreeInv'
  BY <1>1, <1>2, <1>3 DEF IInv, TypeOK, FreeInv, KeepsThreads
<1>6. TidInv'
  BY <1>1, <1>2, <1>3 DEF IInv, TypeOK, TidInv, Live, KeepsThreads
<1>7. ChildInv'
  BY <1>1, <1>2, <1>3
  DEF IInv, TypeOK, ChildInv, Live, Gone, KeepsThreads, KeepsChildren, KeepsParentSema2
<1>8. WaitInv'
  BY <1>1, <1>2, <1>3
  DEF IInv, TypeOK, WaitInv, Live, Exiting, Gone, KeepsThreads, KeepsChildren, KeepsParentSema,
      KeepsParentSema2
<1>9. SemaInv'
  BY <1>1, <1>2, <1>3
  DEF IInv, TypeOK, SemaInv, Live, Exiting, Gone, KeepsThreads, KeepsParentSema,
      KeepsParentSema2
<1>10. StartInv'
  BY <1>1, <1>2, <1>3
  DEF IInv, TypeOK, StartInv, Live, Starting, KeepsThreads, KeepsChildren, KeepsCreateSema,
      KeepsSuccess
<1>11. AnswerInv'
  BY <1>1, <1>2, <1>3
  DEF IInv, TypeOK, AnswerInv, Live, Starting, KeepsThreads, KeepsChildren, KeepsCreateSema,
      KeepsSuccess
<1>12. PagedirInv'
  BY <1>1, <1>2, <1>3 DEF IInv, TypeOK, PagedirInv, Live, KeepsThreads
<1>13. DeathInv'
  BY <1>1, <1>2, <1>3 DEF IInv, TypeOK, DeathInv, Live, Exiting, Gone, KeepsThreads, KeepsNumber
<1> QED BY Zenon, <1>4, <1>5, <1>6, <1>7, <1>8, <1>9, <1>10, <1>11, <1>12, <1>13 DEF IInv

(* start_process sets create_success: no other child of the same parent is *)
(* starting.                                                               *)
LEMMA ReportStep ==
  ASSUME IInv, NEW t \in Proc, Report(t)
  PROVE  IInv'
<1>1. /\ th[t] # NULL /\ pc[t] = "report"
      /\ th[t].parent \in Proc /\ th[th[t].parent] # NULL
  BY DEF Report, At, IInv, TypeOK, Struct, WaitInv, ChildInv, StartInv, Starting, Live
<1>2. /\ pc' = [pc EXCEPT ![t] = "report_up"]
      /\ UNCHANGED <<cr3, pagedirs, next_tid, temp, result, loaded, death>>
      /\ th' = [th EXCEPT ![th[t].parent].create_success = loaded[t]] /\ loaded[t] \in BOOLEAN
  BY Zenon, <1>1 DEF Report, At, Goto, IInv, TypeOK, Struct
<1>3. \A u \in Proc : th[u] # NULL /\ pc[u] \in Starting /\ th[u].parent = th[t].parent => u = t
  BY <1>1, StructFields DEF IInv, StartInv, TidInv, Starting, Live
<1>4. /\ th' \in [Proc -> Struct \cup {NULL}]
      /\ KeepsThreads /\ KeepsChildren /\ KeepsParentSema /\ KeepsParentSema2
      /\ KeepsCreateSema /\ KeepsNumber /\ KeepsPagedir
      /\ th'[th[t].parent].create_success = loaded[t]
      /\ \A u \in Proc : u # th[t].parent => th'[u] = th[u]
  BY Zenon, <1>1, <1>2, SetSuccess DEF IInv
<1>5. TypeOK'
  BY Zenon, <1>1, <1>2, <1>4, ConstantsAssumption DEF IInv, TypeOK, Label, Tid, Struct
<1>6. FreeInv'
  BY <1>1, <1>2, <1>4 DEF IInv, TypeOK, FreeInv, KeepsThreads
<1>7. TidInv'
  BY <1>1, <1>2, <1>4 DEF IInv, TypeOK, TidInv, Live, KeepsThreads
<1>8. ChildInv'
  BY <1>1, <1>2, <1>4, SMTT(20)
  DEF IInv, TypeOK, ChildInv, Live, Gone, KeepsThreads, KeepsChildren, KeepsParentSema2
<1>9. WaitInv'
  BY <1>1, <1>2, <1>4, SMTT(20)
  DEF IInv, TypeOK, WaitInv, Live, Exiting, Gone, KeepsThreads, KeepsChildren, KeepsParentSema,
      KeepsParentSema2
<1>10. SemaInv'
  BY <1>1, <1>2, <1>4, SMTT(20)
  DEF IInv, TypeOK, SemaInv, Live, Exiting, Gone, KeepsThreads, KeepsParentSema,
      KeepsParentSema2
<1>11. StartInv'
  <2> SUFFICES ASSUME NEW u \in Proc, th'[u] # NULL, pc'[u] \in Starting
               PROVE  /\ th'[th'[u].parent] # NULL /\ pc'[th'[u].parent] = "exec_down"
                      /\ u \in th'[th'[u].parent].child_list
                      /\ th'[u].tid = result'[th'[u].parent]
                      /\ th'[th'[u].parent].create_sema = 0
                      /\ pc'[u] = "report_up" => th'[th'[u].parent].create_success = loaded'[u]
    BY Zenon DEF StartInv, Live
  <2> DEFINE q == th[u].parent
  <2>1. th[u] # NULL /\ th'[u].parent = q /\ th'[u].tid = th[u].tid /\ q \in Proc
    BY Zenon, <1>4, StructFields DEF KeepsThreads
  <2>2. pc[u] \in Starting
    BY Zenon, <1>1, <1>2 DEF IInv, TypeOK, Starting
  <2>3. /\ th[q] # NULL /\ pc[q] = "exec_down" /\ u \in th[q].child_list
        /\ th[u].tid = result[q] /\ th[q].create_sema = 0
        /\ pc[u] = "report_up" => th[q].create_success = loaded[u]
    BY Zenon, <2>1, <2>2 DEF IInv, StartInv, Live
  <2>4. q # t /\ pc'[q] = pc[q]
    BY Zenon, <1>1, <1>2, <2>1, <2>3 DEF IInv, TypeOK
  <2> HIDE DEF q
  <2>5. /\ th'[q] # NULL /\ th'[q].child_list = th[q].child_list
        /\ th'[q].create_sema = th[q].create_sema
    BY Zenon, <1>4, <2>1, <2>3 DEF KeepsThreads, KeepsChildren, KeepsCreateSema
  <2>6. pc'[u] = "report_up" => th'[q].create_success = loaded'[u]
    <3>1. CASE u = t
      BY Zenon, <1>2, <1>4, <3>1 DEF q
    <3>2. CASE u # t
      BY Zenon, <1>2, <1>3, <1>4, <2>1, <2>2, <2>3, <3>2 DEF q, IInv, TypeOK
    <3> QED BY Zenon, <3>1, <3>2
  <2> QED BY Zenon, <1>2, <2>1, <2>3, <2>4, <2>5, <2>6
<1>12. AnswerInv'
  BY <1>1, <1>2, <1>3, <1>4, SMTT(20)
  DEF IInv, TypeOK, AnswerInv, StartInv, ChildInv, Live, Starting, KeepsThreads, KeepsChildren,
      KeepsCreateSema
<1>13. PagedirInv'
  BY <1>1, <1>2, <1>4, SMTT(20) DEF IInv, TypeOK, PagedirInv, Live, KeepsThreads, KeepsPagedir
<1>14. DeathInv'
  BY <1>1, <1>2, <1>4 DEF IInv, TypeOK, DeathInv, Live, Exiting, Gone, KeepsThreads, KeepsNumber
<1> QED BY Zenon, <1>5, <1>6, <1>7, <1>8, <1>9, <1>10, <1>11, <1>12, <1>13, <1>14 DEF IInv

(* start_process wakes its parent, which then has its answer. *)
LEMMA ReportUpStep ==
  ASSUME IInv, NEW t \in Proc, ReportUp(t)
  PROVE  IInv'
<1>1. /\ th[t] # NULL /\ pc[t] = "report_up"
      /\ th[t].parent \in Proc /\ th[th[t].parent] # NULL
  BY DEF ReportUp, At, IInv, TypeOK, Struct, WaitInv, ChildInv, StartInv, Starting, Live
<1>2. /\ pc' = [pc EXCEPT ![t] = IF loaded[t] THEN "run" ELSE "exit"]
      /\ UNCHANGED <<cr3, pagedirs, next_tid, temp, result, loaded, death>>
      /\ Up(th[t].parent, "create_sema")
  BY Zenon, <1>1 DEF ReportUp, Goto
<1>3. th' = [th EXCEPT ![th[t].parent].create_sema = 1] /\ 1 \in {0, 1}
  <2>1. th[th[t].parent].create_sema = 0
    BY Zenon, <1>1 DEF IInv, SemaInv, WaitInv, StartInv, Starting, Exiting, Gone, Live
  <2> QED BY Zenon, <1>1, <1>2, <2>1, UpSema
<1>4. \A u \in Proc : th[u] # NULL /\ pc[u] \in Starting /\ th[u].parent = th[t].parent => u = t
  BY <1>1, StructFields DEF IInv, StartInv, TidInv, Starting, Live
<1>5. /\ th' \in [Proc -> Struct \cup {NULL}]
      /\ KeepsThreads /\ KeepsChildren /\ KeepsParentSema /\ KeepsParentSema2
      /\ KeepsSuccess /\ KeepsNumber /\ KeepsPagedir
      /\ th'[th[t].parent].create_sema = 1
      /\ \A u \in Proc : u # th[t].parent => th'[u] = th[u]
  BY Zenon, <1>1, <1>2, <1>3, SetCreateSema DEF IInv
<1>6. TypeOK'
  BY Zenon, <1>1, <1>2, <1>3, <1>5, ConstantsAssumption DEF IInv, TypeOK, Label, Tid, Struct
<1>7. FreeInv'
  BY <1>1, <1>2, <1>3, <1>5 DEF IInv, TypeOK, FreeInv, KeepsThreads
<1>8. TidInv'
  BY <1>1, <1>2, <1>3, <1>5 DEF IInv, TypeOK, TidInv, Live, KeepsThreads
<1>9. ChildInv'
  BY <1>1, <1>2, <1>3, <1>5, SMTT(20)
  DEF IInv, TypeOK, ChildInv, Live, Gone, KeepsThreads, KeepsChildren, KeepsParentSema2
<1>10. WaitInv'
  BY <1>1, <1>2, <1>3, <1>5, SMTT(20)
  DEF IInv, TypeOK, WaitInv, Live, Exiting, Gone, KeepsThreads, KeepsChildren, KeepsParentSema,
      KeepsParentSema2
<1>11. SemaInv'
  BY <1>1, <1>2, <1>3, <1>5, SMTT(20)
  DEF IInv, TypeOK, SemaInv, Live, Exiting, Gone, KeepsThreads, KeepsParentSema,
      KeepsParentSema2
<1>12. StartInv'
  <2> SUFFICES ASSUME NEW u \in Proc, th'[u] # NULL, pc'[u] \in Starting
               PROVE  /\ th'[th'[u].parent] # NULL /\ pc'[th'[u].parent] = "exec_down"
                      /\ u \in th'[th'[u].parent].child_list
                      /\ th'[u].tid = result'[th'[u].parent]
                      /\ th'[th'[u].parent].create_sema = 0
                      /\ pc'[u] = "report_up" => th'[th'[u].parent].create_success = loaded'[u]
    BY Zenon DEF StartInv, Live
  <2> DEFINE q == th[u].parent
  <2>1. th[u] # NULL /\ th'[u].parent = q /\ th'[u].tid = th[u].tid /\ q \in Proc
    BY Zenon, <1>5, StructFields DEF KeepsThreads
  <2>2. pc[u] \in Starting
    BY Zenon, <1>1, <1>2 DEF IInv, TypeOK, Starting
  <2>3. /\ th[q] # NULL /\ pc[q] = "exec_down" /\ u \in th[q].child_list
        /\ th[u].tid = result[q] /\ th[q].create_sema = 0
        /\ pc[u] = "report_up" => th[q].create_success = loaded[u]
    BY Zenon, <2>1, <2>2 DEF IInv, StartInv, Live
  <2>4. q # t /\ pc'[q] = pc[q]
    BY Zenon, <1>1, <1>2, <2>1, <2>3 DEF IInv, TypeOK
  <2> HIDE DEF q
  <2>5. u # t
    BY Zenon, <1>1, <1>2 DEF IInv, TypeOK, Starting
  <2>6. q # th[t].parent
    BY Zenon, <1>4, <2>1, <2>2, <2>5 DEF q
  <2>7. th'[q] = th[q] /\ pc'[u] = pc[u]
    BY Zenon, <1>2, <1>5, <2>1, <2>5, <2>6 DEF IInv, TypeOK
  <2> QED BY Zenon, <1>2, <2>1, <2>3, <2>4, <2>7
<1>13. AnswerInv'
  BY <1>1, <1>2, <1>3, <1>4, <1>5, SMTT(20)
  DEF IInv, TypeOK, AnswerInv, StartInv, ChildInv, Live, Starting, KeepsThreads, KeepsChildren,
      KeepsSuccess
<1>14. PagedirInv'
  BY <1>1, <1>2, <1>3, <1>5, SMTT(20) DEF IInv, TypeOK, PagedirInv, Live, KeepsThreads, KeepsPagedir
<1>15. DeathInv'
  BY <1>1, <1>2, <1>3, <1>5
  DEF IInv, TypeOK, DeathInv, Live, Exiting, Gone, KeepsThreads, KeepsNumber
<1> QED BY Zenon, <1>6, <1>7, <1>8, <1>9, <1>10, <1>11, <1>12, <1>13, <1>14, <1>15 DEF IInv

(* The sema_down of process_wait: the child has come to its own. *)
LEMMA WaitDownStep ==
  ASSUME IInv, NEW t \in Proc, WaitDown(t)
  PROVE  IInv'
<1>1. /\ th[t] # NULL /\ pc[t] = "wait_down"
      /\ temp[t] \in Proc /\ th[temp[t]] # NULL
  BY DEF WaitDown, At, IInv, TypeOK, Struct, WaitInv, ChildInv, StartInv, Starting, Live
<1>2. /\ pc' = [pc EXCEPT ![t] = "wait_take"]
      /\ UNCHANGED <<cr3, pagedirs, next_tid, temp, result, loaded, death>>
      /\ Down(temp[t], "parent_sema")
  BY Zenon, <1>1 DEF WaitDown, Goto
<1>3. th' = [th EXCEPT ![temp[t]].parent_sema = 0] /\ 0 \in {0, 1} /\ th[temp[t]].parent_sema = 1
  BY Zenon, <1>1, <1>2, DownSema DEF IInv
<1>4. /\ th' \in [Proc -> Struct \cup {NULL}]
      /\ KeepsThreads /\ KeepsChildren /\ KeepsParentSema2 /\ KeepsCreateSema
      /\ KeepsSuccess /\ KeepsNumber /\ KeepsPagedir
      /\ th'[temp[t]].parent_sema = 0
      /\ \A u \in Proc : u # temp[t] => th'[u] = th[u]
  BY Zenon, <1>1, <1>2, <1>3, SetParentSema DEF IInv
<1>5. TypeOK'
  BY Zenon, <1>1, <1>2, <1>3, <1>4, ConstantsAssumption DEF IInv, TypeOK, Label, Tid, Struct
<1>6. FreeInv'
  BY <1>1, <1>2, <1>3, <1>4 DEF IInv, TypeOK, FreeInv, KeepsThreads
<1>7. TidInv'
  BY <1>1, <1>2, <1>3, <1>4 DEF IInv, TypeOK, TidInv, Live, KeepsThreads
<1>8. ChildInv'
  BY <1>1, <1>2, <1>3, <1>4
  DEF IInv, TypeOK, ChildInv, Live, Gone, KeepsThreads, KeepsChildren, KeepsParentSema2
<1>9. WaitInv'
  BY <1>1, <1>2, <1>3, <1>4
  DEF IInv, TypeOK, WaitInv, ChildInv, SemaInv, Live, Exiting, Gone, KeepsThreads,
      KeepsChildren, KeepsParentSema2
<1>10. SemaInv'
  BY <1>1, <1>2, <1>3, <1>4
  DEF IInv, TypeOK, SemaInv, Live, Exiting, Gone, KeepsThreads, KeepsParentSema2
<1>11. StartInv'
  BY <1>1, <1>2, <1>3, <1>4
  DEF IInv, TypeOK, StartInv, Live, Starting, KeepsThreads, KeepsChildren, KeepsCreateSema,
      KeepsSuccess
<1>12. AnswerInv'
  BY <1>1, <1>2, <1>3, <1>4
  DEF IInv, TypeOK, AnswerInv, Live, Starting, KeepsThreads, KeepsChildren, KeepsCreateSema,
      KeepsSuccess
<1>13. PagedirInv'
  BY <1>1, <1>2, <1>3, <1>4 DEF IInv, TypeOK, PagedirInv, Live, KeepsThreads, KeepsPagedir
<1>14. DeathInv'
  BY <1>1, <1>2, <1>3, <1>4
  DEF IInv, TypeOK, DeathInv, Live, Exiting, Gone, KeepsThreads, KeepsNumber
<1> QED BY Zenon, <1>5, <1>6, <1>7, <1>8, <1>9, <1>10, <1>11, <1>12, <1>13, <1>14 DEF IInv

(* process_wait takes the child off its list and reads its number. *)
LEMMA WaitTakeStep ==
  ASSUME IInv, NEW t \in Proc, WaitTake(t)
  PROVE  IInv'
<1>1. th[t] # NULL /\ pc[t] = "wait_take"
  BY Zenon DEF WaitTake, At
<1>2. /\ pc' = [pc EXCEPT ![t] = "wait_up"]
      /\ result' = [result EXCEPT ![t] = th[temp[t]].exit_number]
      /\ UNCHANGED <<cr3, pagedirs, next_tid, temp, loaded, death>>
      /\ th' = [th EXCEPT ![t].child_list = th[t].child_list \ {temp[t]}] /\ th[t].child_list \ {temp[t]} \in SUBSET Proc
  BY Zenon, <1>1 DEF WaitTake, At, Goto, IInv, TypeOK, Struct
<1>3. temp[t] \in Proc /\ temp[t] \in th[t].child_list /\ th[temp[t]] # NULL /\ th[temp[t]].parent = t
  BY <1>1 DEF IInv, TypeOK, Struct, WaitInv, ChildInv, Live
<1>4. /\ th' \in [Proc -> Struct \cup {NULL}]
      /\ KeepsThreads /\ KeepsParentSema /\ KeepsParentSema2 /\ KeepsCreateSema
      /\ KeepsSuccess /\ KeepsNumber /\ KeepsPagedir
      /\ th'[t].child_list = th[t].child_list \ {temp[t]}
      /\ \A u \in Proc : u # t => th'[u] = th[u]
  BY Zenon, <1>1, <1>2, SetChildren DEF IInv
<1>5. TypeOK'
  BY <1>1, <1>2, <1>4, ConstantsAssumption
  DEF IInv, TypeOK, Label, Tid, Struct, WaitInv, ChildInv, Live
<1>6. FreeInv'
  BY <1>1, <1>2, <1>4 DEF IInv, TypeOK, FreeInv, KeepsThreads
<1>7. TidInv'
  BY <1>1, <1>2, <1>4 DEF IInv, TypeOK, TidInv, Live, KeepsThreads
<1>8. ChildInv'
  BY <1>1, <1>2, <1>3, <1>4
  DEF IInv, TypeOK, ChildInv, Live, Gone, KeepsThreads, KeepsParentSema2
<1>9. WaitInv'
  BY <1>1, <1>2, <1>3, <1>4
  DEF IInv, TypeOK, WaitInv, Live, Exiting, Gone, KeepsThreads, KeepsParentSema,
      KeepsParentSema2
<1>10. SemaInv'
  BY <1>1, <1>2, <1>4
  DEF IInv, TypeOK, SemaInv, Live, Exiting, Gone, KeepsThreads, KeepsParentSema,
      KeepsParentSema2
<1>11. StartInv'
  BY <1>1, <1>2, <1>4
  DEF IInv, TypeOK, StartInv, Live, Starting, KeepsThreads, KeepsCreateSema, KeepsSuccess
<1>12. AnswerInv'
  BY <1>1, <1>2, <1>3, <1>4
  DEF IInv, TypeOK, AnswerInv, Live, Starting, KeepsThreads, KeepsCreateSema, KeepsSuccess
<1>13. PagedirInv'
  BY <1>1, <1>2, <1>4 DEF IInv, TypeOK, PagedirInv, Live, KeepsThreads, KeepsPagedir
<1>14. DeathInv'
  BY <1>1, <1>2, <1>4 DEF IInv, TypeOK, DeathInv, Live, Exiting, Gone, KeepsThreads, KeepsNumber
<1> QED BY Zenon, <1>5, <1>6, <1>7, <1>8, <1>9, <1>10, <1>11, <1>12, <1>13, <1>14 DEF IInv

(* process_wait lets the child go. *)
LEMMA WaitUpStep ==
  ASSUME IInv, NEW t \in Proc, WaitUp(t)
  PROVE  IInv'
<1>1. /\ th[t] # NULL /\ pc[t] = "wait_up"
      /\ temp[t] \in Proc /\ th[temp[t]] # NULL
  BY Zenon DEF WaitUp, At, IInv, TypeOK, Struct, WaitInv, ChildInv, StartInv, Starting, Live
<1>2. /\ pc' = [pc EXCEPT ![t] = "run"]
      /\ temp' = [temp EXCEPT ![t] = NULL]
      /\ UNCHANGED <<cr3, pagedirs, next_tid, result, loaded, death>>
      /\ Up(temp[t], "parent_sema2")
  BY Zenon, <1>1 DEF WaitUp, Goto
<1>3. th' = [th EXCEPT ![temp[t]].parent_sema2 = 1] /\ 1 \in {0, 1}
  <2>1. th[temp[t]].parent_sema2 = 0
    BY Zenon, <1>1 DEF IInv, SemaInv, WaitInv, StartInv, Starting, Exiting, Gone, Live
  <2> QED BY Zenon, <1>1, <1>2, <2>1, UpSema
<1>4. /\ th' \in [Proc -> Struct \cup {NULL}]
      /\ KeepsThreads /\ KeepsChildren /\ KeepsParentSema /\ KeepsCreateSema
      /\ KeepsSuccess /\ KeepsNumber /\ KeepsPagedir
      /\ th'[temp[t]].parent_sema2 = 1
      /\ \A u \in Proc : u # temp[t] => th'[u] = th[u]
  BY Zenon, <1>1, <1>2, <1>3, SetParentSema2 DEF IInv
<1>5. TypeOK'
  BY Zenon, <1>1, <1>2, <1>3, <1>4, ConstantsAssumption DEF IInv, TypeOK, Label, Tid, Struct
<1>6. FreeInv'
  BY <1>1, <1>2, <1>3, <1>4 DEF IInv, TypeOK, FreeInv, KeepsThreads
<1>7. TidInv'
  BY <1>1, <1>2, <1>3, <1>4 DEF IInv, TypeOK, TidInv, Live, KeepsThreads
<1>8. ChildInv'
  BY <1>1, <1>2, <1>3, <1>4
  DEF IInv, TypeOK, ChildInv, WaitInv, Live, Gone, KeepsThreads, KeepsChildren
<1>9. WaitInv'
  BY <1>1, <1>2, <1>3, <1>4
  DEF IInv, TypeOK, WaitInv, ChildInv, SemaInv, Live, Exiting, Gone, KeepsThreads,
      KeepsChildren, KeepsParentSema
<1>10. SemaInv'
  BY <1>1, <1>2, <1>3, <1>4
  DEF IInv, TypeOK, SemaInv, ChildInv, WaitInv, Live, Exiting, Gone, KeepsThreads,
      KeepsParentSema
<1>11. StartInv'
  BY <1>1, <1>2, <1>3, <1>4
  DEF IInv, TypeOK, StartInv, Live, Starting, KeepsThreads, KeepsChildren, KeepsCreateSema,
      KeepsSuccess
<1>12. AnswerInv'
  BY <1>1, <1>2, <1>3, <1>4
  DEF IInv, TypeOK, AnswerInv, Live, Starting, KeepsThreads, KeepsChildren, KeepsCreateSema,
      KeepsSuccess
<1>13. PagedirInv'
  BY <1>1, <1>2, <1>3, <1>4 DEF IInv, TypeOK, PagedirInv, Live, KeepsThreads, KeepsPagedir
<1>14. DeathInv'
  BY <1>1, <1>2, <1>3, <1>4
  DEF IInv, TypeOK, DeathInv, Live, Exiting, Gone, KeepsThreads, KeepsNumber
<1> QED BY Zenon, <1>5, <1>6, <1>7, <1>8, <1>9, <1>10, <1>11, <1>12, <1>13, <1>14 DEF IInv

(* exit sets the number. *)
LEMMA ExitStep ==
  ASSUME IInv, NEW t \in Proc, NEW n \in Status, Exit(t, n)
  PROVE  IInv'
<1>1. th[t] # NULL /\ pc[t] = "run"
  BY Zenon DEF Exit, At
<1>2. /\ pc' = [pc EXCEPT ![t] = "exit"]
      /\ result' = [result EXCEPT ![t] = n]
      /\ death' = [death EXCEPT ![t] = "exit"]
      /\ UNCHANGED <<cr3, pagedirs, next_tid, temp, loaded>>
      /\ th' = [th EXCEPT ![t].exit_number = n] /\ n \in Status \cup {0}
  BY Zenon, <1>1 DEF Exit, At, Goto, IInv, TypeOK, Struct
<1>3. /\ th' \in [Proc -> Struct \cup {NULL}]
      /\ KeepsThreads /\ KeepsChildren /\ KeepsParentSema /\ KeepsParentSema2
      /\ KeepsCreateSema /\ KeepsSuccess /\ KeepsPagedir
      /\ th'[t].exit_number = n
      /\ \A u \in Proc : u # t => th'[u] = th[u]
  BY Zenon, <1>1, <1>2, SetNumber DEF IInv
<1>4. TypeOK'
  BY Zenon, <1>1, <1>2, <1>3, ConstantsAssumption DEF IInv, TypeOK, Label, Tid, Struct
<1>5. FreeInv'
  BY Zenon, <1>1, <1>2, <1>3 DEF IInv, TypeOK, FreeInv, KeepsThreads
<1>6. TidInv'
  BY <1>1, <1>2, <1>3 DEF IInv, TypeOK, TidInv, Live, KeepsThreads
<1>7. ChildInv'
  BY <1>1, <1>2, <1>3
  DEF IInv, TypeOK, ChildInv, Live, Gone, KeepsThreads, KeepsChildren, KeepsParentSema2
<1>8. WaitInv'
  BY <1>1, <1>2, <1>3
  DEF IInv, TypeOK, WaitInv, Live, Exiting, Gone, KeepsThreads, KeepsChildren, KeepsParentSema,
      KeepsParentSema2
<1>9. SemaInv'
  BY <1>1, <1>2, <1>3
  DEF IInv, TypeOK, SemaInv, Live, Exiting, Gone, KeepsThreads, KeepsParentSema,
      KeepsParentSema2
<1>10. StartInv'
  BY <1>1, <1>2, <1>3, SMTT(20)
  DEF IInv, TypeOK, StartInv, Live, Starting, KeepsThreads, KeepsChildren, KeepsCreateSema,
      KeepsSuccess
<1>11. AnswerInv'
  BY <1>1, <1>2, <1>3
  DEF IInv, TypeOK, AnswerInv, Live, Starting, KeepsThreads, KeepsChildren, KeepsCreateSema,
      KeepsSuccess
<1>12. PagedirInv'
  BY <1>1, <1>2, <1>3 DEF IInv, TypeOK, PagedirInv, Live, KeepsThreads, KeepsPagedir
<1>13. DeathInv'
  BY <1>1, <1>2, <1>3 DEF IInv, TypeOK, DeathInv, Live, Exiting, Gone, KeepsThreads
<1> QED BY Zenon, <1>4, <1>5, <1>6, <1>7, <1>8, <1>9, <1>10, <1>11, <1>12, <1>13 DEF IInv

(* process_exit tells the parent, *)
LEMMA ExitUpStep ==
  ASSUME IInv, NEW t \in Proc, ExitUp(t)
  PROVE  IInv'
<1>1. th[t] # NULL /\ pc[t] = "exit"
  BY Zenon DEF ExitUp, At
<1>2. /\ pc' = [pc EXCEPT ![t] = "exit_down"]
      /\ UNCHANGED <<cr3, pagedirs, next_tid, temp, result, loaded, death>>
      /\ Up(t, "parent_sema")
  BY Zenon, <1>1 DEF ExitUp, Goto
<1>3. th' = [th EXCEPT ![t].parent_sema = 1] /\ 1 \in {0, 1}
  <2>1. th[t].parent_sema = 0
    BY Zenon, <1>1 DEF IInv, SemaInv, WaitInv, StartInv, Starting, Exiting, Gone, Live
  <2> QED BY Zenon, <1>1, <1>2, <2>1, UpSema
<1>4. /\ th' \in [Proc -> Struct \cup {NULL}]
      /\ KeepsThreads /\ KeepsChildren /\ KeepsParentSema2 /\ KeepsCreateSema
      /\ KeepsSuccess /\ KeepsNumber /\ KeepsPagedir
      /\ th'[t].parent_sema = 1
      /\ \A u \in Proc : u # t => th'[u] = th[u]
  BY Zenon, <1>1, <1>2, <1>3, SetParentSema DEF IInv
<1>5. TypeOK'
  BY Zenon, <1>1, <1>2, <1>3, <1>4, ConstantsAssumption DEF IInv, TypeOK, Label, Tid, Struct
<1>6. FreeInv'
  BY <1>1, <1>2, <1>3, <1>4 DEF IInv, TypeOK, FreeInv, KeepsThreads
<1>7. TidInv'
  BY <1>1, <1>2, <1>3, <1>4 DEF IInv, TypeOK, TidInv, Live, KeepsThreads
<1>8. ChildInv'
  BY <1>1, <1>2, <1>3, <1>4
  DEF IInv, TypeOK, ChildInv, Live, Gone, KeepsThreads, KeepsChildren, KeepsParentSema2
<1>9. WaitInv'
  BY <1>1, <1>2, <1>3, <1>4
  DEF IInv, TypeOK, WaitInv, Live, Exiting, Gone, KeepsThreads, KeepsChildren, KeepsParentSema2
<1>10. SemaInv'
  BY Zenon, <1>1, <1>2, <1>3, <1>4
  DEF IInv, TypeOK, SemaInv, Live, Exiting, Gone, KeepsThreads, KeepsParentSema2
<1>11. StartInv'
  BY <1>1, <1>2, <1>3, <1>4
  DEF IInv, TypeOK, StartInv, Live, Starting, KeepsThreads, KeepsChildren, KeepsCreateSema,
      KeepsSuccess
<1>12. AnswerInv'
  BY <1>1, <1>2, <1>3, <1>4
  DEF IInv, TypeOK, AnswerInv, Live, Starting, KeepsThreads, KeepsChildren, KeepsCreateSema,
      KeepsSuccess
<1>13. PagedirInv'
  BY <1>1, <1>2, <1>3, <1>4 DEF IInv, TypeOK, PagedirInv, Live, KeepsThreads, KeepsPagedir
<1>14. DeathInv'
  BY <1>1, <1>2, <1>3, <1>4
  DEF IInv, TypeOK, DeathInv, Live, Exiting, Gone, KeepsThreads, KeepsNumber
<1> QED BY Zenon, <1>5, <1>6, <1>7, <1>8, <1>9, <1>10, <1>11, <1>12, <1>13, <1>14 DEF IInv

(* is let go, and so on no list any more, *)
LEMMA ExitDownStep ==
  ASSUME IInv, NEW t \in Proc, ExitDown(t)
  PROVE  IInv'
<1>1. th[t] # NULL /\ pc[t] = "exit_down"
  BY Zenon DEF ExitDown, At
<1>2. /\ pc' = [pc EXCEPT ![t] = IF th[t].pagedir THEN "exit_null" ELSE "exit_free"]
      /\ UNCHANGED <<cr3, pagedirs, next_tid, temp, result, loaded, death>>
      /\ Down(t, "parent_sema2")
  BY Zenon, <1>1 DEF ExitDown, Goto
<1>3. th' = [th EXCEPT ![t].parent_sema2 = 0] /\ 0 \in {0, 1} /\ th[t].parent_sema2 = 1
  BY Zenon, <1>1, <1>2, DownSema DEF IInv
<1>4. /\ th' \in [Proc -> Struct \cup {NULL}]
      /\ KeepsThreads /\ KeepsChildren /\ KeepsParentSema /\ KeepsCreateSema
      /\ KeepsSuccess /\ KeepsNumber /\ KeepsPagedir
      /\ th'[t].parent_sema2 = 0
      /\ \A u \in Proc : u # t => th'[u] = th[u]
  BY Zenon, <1>1, <1>2, <1>3, SetParentSema2 DEF IInv
<1>5. TypeOK'
  BY Zenon, <1>1, <1>2, <1>3, <1>4, ConstantsAssumption DEF IInv, TypeOK, Label, Tid, Struct
<1>6. FreeInv'
  BY Zenon, <1>1, <1>2, <1>3, <1>4 DEF IInv, TypeOK, FreeInv, KeepsThreads
<1>7. TidInv'
  BY <1>1, <1>2, <1>3, <1>4 DEF IInv, TypeOK, TidInv, Live, KeepsThreads
<1>8. ChildInv'
  BY <1>1, <1>2, <1>3, <1>4 DEF IInv, TypeOK, ChildInv, Live, Gone, KeepsThreads, KeepsChildren
<1>9. WaitInv'
  BY <1>1, <1>2, <1>3, <1>4
  DEF IInv, TypeOK, WaitInv, Live, Exiting, Gone, KeepsThreads, KeepsChildren, KeepsParentSema
<1>10. SemaInv'
  BY <1>1, <1>2, <1>3, <1>4
  DEF IInv, TypeOK, SemaInv, Live, Exiting, Gone, KeepsThreads, KeepsParentSema
<1>11. StartInv'
  BY <1>1, <1>2, <1>3, <1>4
  DEF IInv, TypeOK, StartInv, Live, Starting, KeepsThreads, KeepsChildren, KeepsCreateSema,
      KeepsSuccess
<1>12. AnswerInv'
  BY <1>1, <1>2, <1>3, <1>4
  DEF IInv, TypeOK, AnswerInv, Live, Starting, KeepsThreads, KeepsChildren, KeepsCreateSema,
      KeepsSuccess
<1>13. PagedirInv'
  BY <1>1, <1>2, <1>3, <1>4 DEF IInv, TypeOK, PagedirInv, Live, KeepsThreads, KeepsPagedir
<1>14. DeathInv'
  BY <1>1, <1>2, <1>3, <1>4
  DEF IInv, TypeOK, DeathInv, Live, Exiting, Gone, KeepsThreads, KeepsNumber
<1> QED BY Zenon, <1>5, <1>6, <1>7, <1>8, <1>9, <1>10, <1>11, <1>12, <1>13, <1>14 DEF IInv

(* and drops its page directory. *)
LEMMA ExitNullStep ==
  ASSUME IInv, NEW t \in Proc, ExitNull(t)
  PROVE  IInv'
<1>1. th[t] # NULL /\ pc[t] = "exit_null"
  BY Zenon DEF ExitNull, At
<1>2. /\ pc' = [pc EXCEPT ![t] = "exit_activate"]
      /\ UNCHANGED <<cr3, pagedirs, next_tid, temp, result, loaded, death>>
      /\ th' = [th EXCEPT ![t].pagedir = FALSE] /\ FALSE \in BOOLEAN
  BY Zenon, <1>1 DEF ExitNull, At, Goto, IInv, TypeOK, Struct
<1>3. /\ th' \in [Proc -> Struct \cup {NULL}]
      /\ KeepsThreads /\ KeepsChildren /\ KeepsParentSema /\ KeepsParentSema2
      /\ KeepsCreateSema /\ KeepsSuccess /\ KeepsNumber
      /\ th'[t].pagedir = FALSE
      /\ \A u \in Proc : u # t => th'[u] = th[u]
  BY Zenon, <1>1, <1>2, SetPagedir DEF IInv
<1>4. TypeOK'
  BY Zenon, <1>1, <1>2, <1>3, ConstantsAssumption DEF IInv, TypeOK, Label, Tid, Struct
<1>5. FreeInv'
  BY Zenon, <1>1, <1>2, <1>3 DEF IInv, TypeOK, FreeInv, KeepsThreads
<1>6. TidInv'
  BY <1>1, <1>2, <1>3 DEF IInv, TypeOK, TidInv, Live, KeepsThreads
<1>7. ChildInv'
  BY <1>1, <1>2, <1>3
  DEF IInv, TypeOK, ChildInv, Live, Gone, KeepsThreads, KeepsChildren, KeepsParentSema2
<1>8. WaitInv'
  BY <1>1, <1>2, <1>3
  DEF IInv, TypeOK, WaitInv, Live, Exiting, Gone, KeepsThreads, KeepsChildren, KeepsParentSema,
      KeepsParentSema2
<1>9. SemaInv'
  BY <1>1, <1>2, <1>3
  DEF IInv, TypeOK, SemaInv, Live, Exiting, Gone, KeepsThreads, KeepsParentSema,
      KeepsParentSema2
<1>10. StartInv'
  BY <1>1, <1>2, <1>3
  DEF IInv, TypeOK, StartInv, Live, Starting, KeepsThreads, KeepsChildren, KeepsCreateSema,
      KeepsSuccess
<1>11. AnswerInv'
  BY <1>1, <1>2, <1>3
  DEF IInv, TypeOK, AnswerInv, Live, Starting, KeepsThreads, KeepsChildren, KeepsCreateSema,
      KeepsSuccess
<1>12. PagedirInv'
  BY <1>1, <1>2, <1>3 DEF IInv, TypeOK, PagedirInv, Live, KeepsThreads
<1>13. DeathInv'
  BY <1>1, <1>2, <1>3 DEF IInv, TypeOK, DeathInv, Live, Exiting, Gone, KeepsThreads, KeepsNumber
<1> QED BY Zenon, <1>4, <1>5, <1>6, <1>7, <1>8, <1>9, <1>10, <1>11, <1>12, <1>13 DEF IInv

(* The failures of process_execute change nothing that others see. *)
LEMMA CopyFailsStep ==
  ASSUME IInv, NEW t \in Proc, CopyFails(t)
  PROVE  IInv'
<1>1. /\ th[t] # NULL /\ pc[t] = "run"
      /\ pc' = [pc EXCEPT ![t] = Returned(t)]
      /\ result' = [result EXCEPT ![t] = TID_ERROR]
      /\ UNCHANGED <<cr3, pagedirs, th, next_tid, temp, loaded, death>>
  BY Zenon DEF CopyFails, At, Goto
<1>2. TypeOK'
  BY Zenon, <1>1, ConstantsAssumption DEF IInv, TypeOK, Label, Returned
<1>3. FreeInv'
  BY Zenon, <1>1 DEF IInv, TypeOK, FreeInv, Returned
<1>4. TidInv'
  BY Zenon, <1>1 DEF IInv, TypeOK, TidInv, Live, Returned
<1>5. ChildInv'
  BY <1>1 DEF IInv, TypeOK, ChildInv, Live, Gone, Returned
<1>6. WaitInv'
  BY <1>1 DEF IInv, TypeOK, WaitInv, Live, Exiting, Gone, Returned
<1>7. SemaInv'
  BY Zenon, <1>1 DEF IInv, TypeOK, SemaInv, Live, Exiting, Gone, Returned
<1>8. StartInv'
  BY <1>1 DEF IInv, TypeOK, StartInv, Live, Starting, Returned
<1>9. AnswerInv'
  BY <1>1 DEF IInv, TypeOK, AnswerInv, Live, Starting, Returned
<1>10. PagedirInv'
  BY Zenon, <1>1 DEF IInv, TypeOK, PagedirInv, Live, Returned
<1>11. DeathInv'
  BY Zenon, <1>1 DEF IInv, TypeOK, DeathInv, Live, Exiting, Gone, Returned
<1> QED BY Zenon, <1>2, <1>3, <1>4, <1>5, <1>6, <1>7, <1>8, <1>9, <1>10, <1>11 DEF IInv

(* Nor does the one that goes on to wait. *)
LEMMA ThreadCreateFailsStep ==
  ASSUME IInv, NEW t \in Proc, ThreadCreateFails(t)
  PROVE  IInv'
<1>1. /\ th[t] # NULL /\ pc[t] = "run"
      /\ pc' = [pc EXCEPT ![t] = "exec_down"]
      /\ result' = [result EXCEPT ![t] = TID_ERROR]
      /\ UNCHANGED <<cr3, pagedirs, th, next_tid, temp, loaded, death>>
  BY Zenon DEF ThreadCreateFails, At, Goto
<1>2. TypeOK'
  BY Zenon, <1>1, ConstantsAssumption DEF IInv, TypeOK, Label
<1>3. FreeInv'
  BY Zenon, <1>1 DEF IInv, TypeOK, FreeInv
<1>4. TidInv'
  BY Zenon, <1>1 DEF IInv, TypeOK, TidInv, Live
<1>5. ChildInv'
  BY <1>1 DEF IInv, TypeOK, ChildInv, Live, Gone
<1>6. WaitInv'
  BY <1>1 DEF IInv, TypeOK, WaitInv, Live, Exiting, Gone
<1>7. SemaInv'
  BY Zenon, <1>1 DEF IInv, TypeOK, SemaInv, Live, Exiting, Gone
<1>8. StartInv'
  BY <1>1 DEF IInv, TypeOK, StartInv, Live, Starting
<1>9. AnswerInv'
  BY <1>1 DEF IInv, TypeOK, AnswerInv, Live, Starting
<1>10. PagedirInv'
  BY Zenon, <1>1 DEF IInv, TypeOK, PagedirInv, Live
<1>11. DeathInv'
  BY Zenon, <1>1 DEF IInv, TypeOK, DeathInv, Live, Exiting, Gone
<1> QED BY Zenon, <1>2, <1>3, <1>4, <1>5, <1>6, <1>7, <1>8, <1>9, <1>10, <1>11 DEF IInv

(* A killed process leaves its number at 0. *)
LEMMA KillStep ==
  ASSUME IInv, NEW t \in Proc, Kill(t)
  PROVE  IInv'
<1>1. /\ th[t] # NULL /\ pc[t] = "run"
      /\ pc' = [pc EXCEPT ![t] = "exit"]
      /\ death' = [death EXCEPT ![t] = "kill"]
      /\ UNCHANGED <<cr3, pagedirs, th, next_tid, temp, result, loaded>>
  BY Zenon DEF Kill, At, Goto
<1>2. TypeOK'
  BY Zenon, <1>1, ConstantsAssumption DEF IInv, TypeOK, Label
<1>3. FreeInv'
  BY Zenon, <1>1 DEF IInv, TypeOK, FreeInv
<1>4. TidInv'
  BY Zenon, <1>1 DEF IInv, TypeOK, TidInv, Live
<1>5. ChildInv'
  BY <1>1 DEF IInv, TypeOK, ChildInv, Live, Gone
<1>6. WaitInv'
  BY <1>1 DEF IInv, TypeOK, WaitInv, Live, Exiting, Gone
<1>7. SemaInv'
  BY Zenon, <1>1 DEF IInv, TypeOK, SemaInv, Live, Exiting, Gone
<1>8. StartInv'
  BY <1>1 DEF IInv, TypeOK, StartInv, Live, Starting
<1>9. AnswerInv'
  BY <1>1 DEF IInv, TypeOK, AnswerInv, Live, Starting
<1>10. PagedirInv'
  BY Zenon, <1>1 DEF IInv, TypeOK, PagedirInv, Live
<1>11. DeathInv'
  BY Zenon, <1>1 DEF IInv, TypeOK, DeathInv, Live, Exiting, Gone
<1> QED BY Zenon, <1>2, <1>3, <1>4, <1>5, <1>6, <1>7, <1>8, <1>9, <1>10, <1>11 DEF IInv

(* The page directory is not active any more *)
LEMMA ExitActivateStep ==
  ASSUME IInv, NEW t \in Proc, ExitActivate(t)
  PROVE  IInv'
<1>1. /\ th[t] # NULL /\ pc[t] = "exit_activate"
      /\ pc' = [pc EXCEPT ![t] = "exit_destroy"]
      /\ cr3' = [cr3 EXCEPT ![t] = NULL]
      /\ UNCHANGED <<pagedirs, th, next_tid, temp, result, loaded, death>>
  BY Zenon DEF ExitActivate, At, Goto
<1>2. TypeOK'
  BY Zenon, <1>1, ConstantsAssumption DEF IInv, TypeOK, Label
<1>3. FreeInv'
  BY Zenon, <1>1 DEF IInv, TypeOK, FreeInv
<1>4. TidInv'
  BY Zenon, <1>1 DEF IInv, TypeOK, TidInv, Live
<1>5. ChildInv'
  BY <1>1 DEF IInv, TypeOK, ChildInv, Live, Gone
<1>6. WaitInv'
  BY <1>1 DEF IInv, TypeOK, WaitInv, Live, Exiting, Gone
<1>7. SemaInv'
  BY Zenon, <1>1 DEF IInv, TypeOK, SemaInv, Live, Exiting, Gone
<1>8. StartInv'
  BY <1>1 DEF IInv, TypeOK, StartInv, Live, Starting
<1>9. AnswerInv'
  BY <1>1 DEF IInv, TypeOK, AnswerInv, Live, Starting
<1>10. PagedirInv'
  BY Zenon, <1>1 DEF IInv, TypeOK, PagedirInv, Live
<1>11. DeathInv'
  BY Zenon, <1>1 DEF IInv, TypeOK, DeathInv, Live, Exiting, Gone
<1> QED BY Zenon, <1>2, <1>3, <1>4, <1>5, <1>6, <1>7, <1>8, <1>9, <1>10, <1>11 DEF IInv

(* when it is destroyed. *)
LEMMA ExitDestroyStep ==
  ASSUME IInv, NEW t \in Proc, ExitDestroy(t)
  PROVE  IInv'
<1>1. /\ th[t] # NULL /\ pc[t] = "exit_destroy"
      /\ pc' = [pc EXCEPT ![t] = "exit_free"]
      /\ pagedirs' = pagedirs \ {t}
      /\ UNCHANGED <<cr3, th, next_tid, temp, result, loaded, death>>
  BY Zenon DEF ExitDestroy, At, Goto
<1>2. TypeOK'
  BY Zenon, <1>1, ConstantsAssumption DEF IInv, TypeOK, Label
<1>3. FreeInv'
  BY Zenon, <1>1 DEF IInv, TypeOK, FreeInv
<1>4. TidInv'
  BY Zenon, <1>1 DEF IInv, TypeOK, TidInv, Live
<1>5. ChildInv'
  BY <1>1 DEF IInv, TypeOK, ChildInv, Live, Gone
<1>6. WaitInv'
  BY <1>1 DEF IInv, TypeOK, WaitInv, Live, Exiting, Gone
<1>7. SemaInv'
  BY Zenon, <1>1 DEF IInv, TypeOK, SemaInv, Live, Exiting, Gone
<1>8. StartInv'
  BY <1>1 DEF IInv, TypeOK, StartInv, Live, Starting
<1>9. AnswerInv'
  BY <1>1 DEF IInv, TypeOK, AnswerInv, Live, Starting
<1>10. PagedirInv'
  BY Zenon, <1>1 DEF IInv, TypeOK, PagedirInv, Live
<1>11. DeathInv'
  BY Zenon, <1>1 DEF IInv, TypeOK, DeathInv, Live, Exiting, Gone
<1> QED BY Zenon, <1>2, <1>3, <1>4, <1>5, <1>6, <1>7, <1>8, <1>9, <1>10, <1>11 DEF IInv

(* process_wait up to its sema_down, for ProcessWait and RunTask. *)
LEMMA WaitCallStep ==
  ASSUME IInv, NEW t \in Proc, NEW tid, th[t] # NULL, pc[t] \in {"run", "run_task"},
         process_wait(t, tid)
  PROVE  IInv'
<1> DEFINE found == {c \in th[t].child_list : th[c].tid = tid}
<1>1. UNCHANGED <<cr3, pagedirs, th, next_tid, loaded, death>>
  BY Zenon DEF process_wait
<1>2. CASE found = {}
  <2>1. /\ result' = [result EXCEPT ![t] = -1]
        /\ pc' = [pc EXCEPT ![t] = "run"] /\ UNCHANGED temp
    BY Zenon, <1>2 DEF process_wait, Goto
  <2>2. TypeOK' /\ FreeInv' /\ TidInv' /\ ChildInv'
    BY <1>1, <2>1 DEF IInv, TypeOK, FreeInv, TidInv, ChildInv, Label, Live, Gone, TID_ERROR
  <2>3. WaitInv' /\ SemaInv'
    BY <1>1, <2>1 DEF IInv, TypeOK, WaitInv, SemaInv, ChildInv, Live, Exiting, Gone
  <2>4. StartInv' /\ AnswerInv'
    BY <1>1, <2>1 DEF IInv, TypeOK, StartInv, AnswerInv, ChildInv, Live, Starting
  <2>5. PagedirInv' /\ DeathInv'
    BY <1>1, <2>1 DEF IInv, TypeOK, PagedirInv, DeathInv, Live, Exiting, Gone
  <2> QED BY Zenon, <2>2, <2>3, <2>4, <2>5 DEF IInv
<1>3. CASE found # {}
  <2>1. PICK c \in th[t].child_list : /\ temp' = [temp EXCEPT ![t] = c]
                                     /\ pc' = [pc EXCEPT ![t] = "wait_down"]
                                     /\ UNCHANGED result
    BY Zenon, <1>3 DEF process_wait, Goto
  <2>2. c \in Proc
    BY Zenon DEF IInv, TypeOK, Struct
  <2>3. TypeOK' /\ FreeInv' /\ TidInv' /\ ChildInv'
    BY <1>1, <2>1, <2>2 DEF IInv, TypeOK, FreeInv, TidInv, ChildInv, Label, Live, Gone
  <2>4. WaitInv' /\ SemaInv'
    BY <1>1, <2>1, <2>2 DEF IInv, TypeOK, WaitInv, SemaInv, ChildInv, Live, Exiting, Gone
  <2>5. StartInv' /\ AnswerInv'
    BY <1>1, <2>1 DEF IInv, TypeOK, StartInv, AnswerInv, ChildInv, Live, Starting
  <2>6. PagedirInv' /\ DeathInv'
    BY <1>1, <2>1 DEF IInv, TypeOK, PagedirInv, DeathInv, Live, Exiting, Gone
  <2> QED BY Zenon, <2>3, <2>4, <2>5, <2>6 DEF IInv
<1> QED BY Zenon, <1>2, <1>3

(* The one action that frees a page: no list has it, and nobody waits for  *)
(* it, for it was let go.                                                  *)
LEMMA ExitFreeStep ==
  ASSUME IInv, NEW t \in Proc, ExitFree(t)
  PROVE  IInv'
<1>1. /\ th[t] # NULL /\ pc[t] = "exit_free"
      /\ pc' = [pc EXCEPT ![t] = "run"] /\ cr3' = [cr3 EXCEPT ![t] = NULL]
      /\ loaded' = [loaded EXCEPT ![t] = FALSE] /\ result' = [result EXCEPT ![t] = 0]
      /\ death' = [death EXCEPT ![t] = "none"] /\ UNCHANGED <<pagedirs, next_tid, temp>>
  BY Zenon DEF ExitFree, At, Goto
<1>2. /\ th' \in [Proc -> Struct \cup {NULL}]
      /\ th'[t] = NULL /\ \A u \in Proc : u # t => th'[u] = th[u]
  BY Zenon DEF ExitFree, IInv, TypeOK
<1>3. \A p \in Proc : th[p] # NULL => t \notin th[p].child_list
  BY Zenon, <1>1 DEF IInv, ChildInv, Live, Gone
<1>4. TypeOK'
  BY Zenon, <1>1, <1>2 DEF IInv, TypeOK, Label
<1>5. \A u \in Proc : u # t => /\ pc'[u] = pc[u] /\ cr3'[u] = cr3[u] /\ loaded'[u] = loaded[u]
                               /\ result'[u] = result[u] /\ death'[u] = death[u]
  BY Zenon, <1>1 DEF IInv, TypeOK
<1>6. pc'[t] = "run" /\ cr3'[t] = NULL /\ death'[t] = "none"
  BY Zenon, <1>1 DEF IInv, TypeOK
<1>7. FreeInv' /\ TidInv' /\ SemaInv'
  BY <1>1, <1>2, <1>5, <1>6 DEF IInv, FreeInv, TidInv, SemaInv, Live, Exiting, Gone
<1>8. PagedirInv' /\ DeathInv'
  BY <1>1, <1>2, <1>5, <1>6 DEF IInv, PagedirInv, DeathInv, Live, Exiting, Gone
<1>9. ChildInv'
  BY <1>1, <1>2, <1>3, StructFields DEF IInv, TypeOK, ChildInv, Live
<1>10. WaitInv'
  BY <1>1, <1>2, <1>3, <1>5, StructFields DEF IInv, WaitInv, ChildInv, Live
<1>11. StartInv'
  <2> SUFFICES ASSUME NEW u \in Proc, th'[u] # NULL, pc'[u] \in Starting
               PROVE  /\ th'[th'[u].parent] # NULL /\ pc'[th'[u].parent] = "exec_down"
                      /\ u \in th'[th'[u].parent].child_list
                      /\ th'[u].tid = result'[th'[u].parent]
                      /\ th'[th'[u].parent].create_sema = 0
                      /\ pc'[u] = "report_up" => th'[th'[u].parent].create_success = loaded'[u]
    BY Zenon DEF StartInv, Live
  <2> DEFINE q == th[u].parent
  <2>1. u # t /\ th'[u] = th[u] /\ pc'[u] = pc[u] /\ loaded'[u] = loaded[u]
    BY Zenon, <1>2, <1>5
  <2>2. /\ q \in Proc /\ th[q] # NULL /\ pc[q] = "exec_down" /\ u \in th[q].child_list
        /\ th[u].tid = result[q] /\ th[q].create_sema = 0
        /\ pc[u] = "report_up" => th[q].create_success = loaded[u]
    BY Zenon, <2>1, StructFields DEF IInv, StartInv, Live
  <2>3. th'[q] = th[q] /\ pc'[q] = pc[q] /\ result'[q] = result[q]
    BY Zenon, <1>1, <1>2, <1>5, <2>2
  <2> QED BY Zenon, <2>1, <2>2, <2>3
<1>12. AnswerInv'
  <2> SUFFICES ASSUME NEW u \in Proc, th'[u] # NULL, th'[u].create_sema = 1
               PROVE  /\ pc'[u] = "exec_down"
                      /\ \E c \in th'[u].child_list :
                           /\ th'[c].tid = result'[u] /\ pc'[c] \notin Starting
                           /\ th'[u].create_success = loaded'[c]
    BY Zenon DEF AnswerInv, Live
  <2>1. u # t /\ th'[u] = th[u] /\ pc'[u] = pc[u] /\ result'[u] = result[u]
    BY Zenon, <1>1, <1>2 DEF IInv, TypeOK
  <2>2. pc[u] = "exec_down"
    BY Zenon, <2>1 DEF IInv, AnswerInv, Live
  <2>3. PICK c \in th[u].child_list :
          th[c].tid = result[u] /\ pc[c] \notin Starting /\ th[u].create_success = loaded[c]
    BY Zenon, <2>1 DEF IInv, AnswerInv, Live
  <2>4. c \in Proc /\ c # t
    BY Zenon, <1>3, <2>1, StructFields
  <2>5. th'[c] = th[c] /\ pc'[c] = pc[c] /\ loaded'[c] = loaded[c]
    BY Zenon, <1>1, <1>2, <2>4 DEF IInv, TypeOK
  <2> QED BY Zenon, <2>1, <2>2, <2>3, <2>5
<1> QED BY Zenon, <1>4, <1>7, <1>8, <1>9, <1>10, <1>11, <1>12 DEF IInv

(* A switch of threads loads the page directory of struct thread. *)
LEMMA ProcessActivateStep ==
  ASSUME IInv, NEW t \in Proc, ProcessActivate(t)
  PROVE  IInv'
<1>1. /\ th[t] # NULL /\ cr3' = [cr3 EXCEPT ![t] = IF th[t].pagedir THEN t ELSE NULL]
      /\ UNCHANGED <<pagedirs, th, next_tid, pc, temp, result, loaded, death>>
  BY Zenon DEF ProcessActivate
<1>2. TypeOK' /\ FreeInv' /\ PagedirInv'
  BY <1>1 DEF IInv, TypeOK, FreeInv, PagedirInv, Live
<1>3. TidInv' /\ SemaInv'
  BY Zenon, <1>1 DEF IInv, TidInv, SemaInv, Live
<1>4. ChildInv' /\ WaitInv'
  BY <1>1 DEF IInv, ChildInv, WaitInv, Live
<1>5. StartInv' /\ AnswerInv' /\ DeathInv'
  BY <1>1 DEF IInv, StartInv, AnswerInv, DeathInv, Live
<1> QED BY Zenon, <1>2, <1>3, <1>4, <1>5 DEF IInv

(* The one action that makes a page a thread. *)
LEMMA ThreadCreateStep ==
  ASSUME IInv, NEW t \in Proc, ThreadCreate(t)
  PROVE  IInv'
<1>1. PICK c \in Proc : c = FreePage /\ th[c] = NULL
  BY Zenon DEF ThreadCreate, FreePage
<1>2. th[t] # NULL /\ pc[t] = "run" /\ next_tid \in Tid /\ t # c
  BY <1>1 DEF ThreadCreate, At, IInv, TypeOK, Tid
<1>3. /\ pc' = [pc EXCEPT ![t] = "exec_down", ![c] = "start"]
      /\ next_tid' = next_tid + 1 /\ result' = [result EXCEPT ![t] = next_tid]
      /\ UNCHANGED <<cr3, pagedirs, temp, loaded, death>>
  BY Zenon, <1>1 DEF ThreadCreate
<1>4. /\ th'[c] = init_thread(t)
      /\ th'[t] = [th[t] EXCEPT !.child_list = @ \cup {c}]
      /\ \A u \in Proc : u # c /\ u # t => th'[u] = th[u]
      /\ DOMAIN th' = Proc /\ th' = [u \in Proc |-> th'[u]]
  BY Zenon, <1>1, <1>2 DEF ThreadCreate, IInv, TypeOK
<1>5. /\ th'[c] \in Struct /\ th'[c].tid = next_tid /\ th'[c].parent = t
      /\ th'[c].child_list = {} /\ th'[c].parent_sema = 0 /\ th'[c].parent_sema2 = 0
      /\ th'[c].create_sema = 0 /\ th'[c].exit_number = 0 /\ th'[c].pagedir = FALSE
  BY <1>1, <1>2, <1>4 DEF init_thread, Struct
<1>6. /\ th'[t] \in Struct /\ th'[t].tid = th[t].tid /\ th'[t].parent = th[t].parent
      /\ th'[t].child_list = th[t].child_list \cup {c}
      /\ th'[t].parent_sema = th[t].parent_sema /\ th'[t].parent_sema2 = th[t].parent_sema2
      /\ th'[t].create_sema = th[t].create_sema /\ th'[t].create_success = th[t].create_success
      /\ th'[t].exit_number = th[t].exit_number /\ th'[t].pagedir = th[t].pagedir
  BY <1>1, <1>2, <1>4 DEF IInv, TypeOK, Struct
<1>7. th' \in [Proc -> Struct \cup {NULL}]
  BY Zenon, <1>4, <1>5, <1>6 DEF IInv, TypeOK
<1>8. th'[c] # NULL /\ th'[t] # NULL
  BY Zenon, <1>1, <1>2, <1>5, <1>6, NullAssumption
<1>9. /\ pc' \in [Proc -> Label] /\ pc'[t] = "exec_down" /\ pc'[c] = "start"
      /\ \A u \in Proc : u # c /\ u # t => pc'[u] = pc[u]
  BY Zenon, <1>2, <1>3 DEF IInv, TypeOK, Label
<1>10. /\ result' \in [Proc -> Tid \cup Status \cup {TID_ERROR, 0}] /\ result'[t] = next_tid
      /\ \A u \in Proc : u # t => result'[u] = result[u]
  BY Zenon, <1>2, <1>3 DEF IInv, TypeOK
<1>11. next_tid' \in 1 .. MaxTid + 1 /\ next_tid' = next_tid + 1
  BY <1>2, <1>3, ConstantsAssumption DEF IInv, TypeOK, Tid
<1>12. UNCHANGED <<cr3, pagedirs, temp, loaded, death>>
  BY Zenon, <1>3
<1>13. cr3[c] = NULL /\ death[c] = "none"
  BY Zenon, <1>1 DEF IInv, FreeInv
<1>14. TypeOK'
  BY Zenon, <1>7, <1>9, <1>10, <1>11, <1>12 DEF IInv, TypeOK
<1>15. \A u \in Proc : u # c /\ u # t => th'[u] = th[u] /\ pc'[u] = pc[u] /\ result'[u] = result[u]
  BY Zenon, <1>4, <1>9, <1>10
<1>16. th[c] = NULL
  BY Zenon, <1>1
<1>17. FreeInv'
  BY Zenon, <1>8, <1>12, <1>15 DEF IInv, FreeInv
<1>18. SemaInv'
  <2> SUFFICES ASSUME NEW u \in Proc, th'[u] # NULL
               PROVE  /\ pc'[u] # "exit_down" => th'[u].parent_sema2 = 0
                      /\ pc'[u] \notin Exiting \/ pc'[u] = "exit" => th'[u].parent_sema = 0
    BY Zenon DEF SemaInv, Live
  <2>1. CASE u = c
    BY Zenon, <1>5, <1>9, <1>12, <1>13, <2>1
  <2>2. CASE u = t
    BY Zenon, <1>2, <1>6, <1>9, <1>12, <2>2 DEF IInv, SemaInv, Live, Exiting, Gone
  <2>3. CASE u # c /\ u # t
    BY Zenon, <1>12, <1>15, <2>3 DEF IInv, SemaInv, Live, Exiting, Gone
  <2> QED BY Zenon, <2>1, <2>2, <2>3
<1>19. DeathInv'
  <2> SUFFICES ASSUME NEW u \in Proc, th'[u] # NULL
               PROVE  /\ pc'[u] \notin Exiting => death'[u] = "none" /\ th'[u].exit_number = 0
                      /\ death'[u] = "exit" => th'[u].exit_number = result'[u]
                      /\ death'[u] = "kill" => th'[u].exit_number = 0
    BY Zenon DEF DeathInv, Live
  <2>1. CASE u = c
    BY Zenon, <1>5, <1>9, <1>12, <1>13, <2>1
  <2>2. CASE u = t
    BY Zenon, <1>2, <1>6, <1>9, <1>12, <2>2 DEF IInv, DeathInv, Live, Exiting, Gone
  <2>3. CASE u # c /\ u # t
    BY Zenon, <1>12, <1>15, <2>3 DEF IInv, DeathInv, Live, Exiting, Gone
  <2> QED BY Zenon, <2>1, <2>2, <2>3
<1>20. TidInv'
  <2>1. next_tid \in Int /\ \A u \in Proc : th[u] # NULL => th[u].tid \in Int /\ th[u].tid < next_tid
    BY <1>2, StructFields DEF IInv, TidInv, Live, Tid
  <2>2. \A u \in Proc : th'[u] # NULL /\ u # c => th[u] # NULL /\ th'[u].tid = th[u].tid
    BY Zenon, <1>2, <1>6, <1>15
  <2>3. \A u \in Proc : th'[u] # NULL => th'[u].tid < next_tid'
    BY <1>5, <1>11, <2>1, <2>2
  <2>4. \A u, w \in Proc : th'[u] # NULL /\ th'[w] # NULL /\ th'[u].tid = th'[w].tid => u = w
    BY <1>5, <2>1, <2>2 DEF IInv, TidInv, Live
  <2> QED BY Zenon, <2>3, <2>4 DEF TidInv, Live
<1>21. PagedirInv'
  <2> SUFFICES ASSUME NEW u \in Proc
               PROVE  /\ cr3'[u] # NULL =>
                           /\ cr3'[u] = u /\ u \in pagedirs' /\ th'[u] # NULL
                           /\ th'[u].pagedir \/ pc'[u] = "exit_activate"
                      /\ th'[u] # NULL /\ th'[u].pagedir =>
                           /\ u \in pagedirs'
                           /\ pc'[u] \notin {"start", "exit_activate", "exit_destroy", "exit_free"}
                      /\ th'[u] # NULL /\ pc'[u] = "exit_null" => th'[u].pagedir
                      /\ th'[u] # NULL /\ pc'[u] = "exit_activate" => u \in pagedirs'
    BY Zenon DEF PagedirInv, Live
  <2>1. CASE u = c
    BY Zenon, <1>5, <1>9, <1>12, <1>13, <2>1
  <2>2. CASE u = t
    BY Zenon, <1>2, <1>6, <1>8, <1>9, <1>12, <2>2 DEF IInv, PagedirInv, Live
  <2>3. CASE u # c /\ u # t
    BY Zenon, <1>12, <1>15, <2>3 DEF IInv, PagedirInv, Live
  <2> QED BY Zenon, <2>1, <2>2, <2>3
<1>22. ChildInv'
  <2> SUFFICES ASSUME NEW p \in Proc, NEW d \in Proc, th'[p] # NULL, d \in th'[p].child_list
               PROVE  /\ th'[d] # NULL /\ th'[d].parent = p
                      /\ pc'[d] \notin Gone /\ th'[d].parent_sema2 = 0
    BY Zenon DEF ChildInv, Live
  <2>1. CASE d = c
    <3>1. p # c /\ \A x \in Proc : th[x] # NULL => c \notin th[x].child_list
      BY Zenon, <1>5, <1>16, <2>1 DEF IInv, ChildInv, Live
    <3>2. p = t
      BY Zenon, <1>15, <2>1, <3>1
    <3> QED BY Zenon, <1>5, <1>8, <1>9, <2>1, <3>2 DEF Gone
  <2>2. CASE d # c
    <3>1. th[p] # NULL /\ d \in th[p].child_list
      BY Zenon, <1>2, <1>5, <1>6, <1>15, <2>2
    <3>2. th[d] # NULL /\ th[d].parent = p /\ pc[d] \notin Gone /\ th[d].parent_sema2 = 0
      BY Zenon, <3>1 DEF IInv, ChildInv, Live
    <3> QED BY Zenon, <1>6, <1>8, <1>9, <1>15, <2>2, <3>2 DEF Gone
  <2> QED BY Zenon, <2>1, <2>2
<1>23. WaitInv'
  <2> SUFFICES ASSUME NEW p \in Proc, th'[p] # NULL
               PROVE  /\ pc'[p] \in {"wait_down", "wait_take"} => temp'[p] \in th'[p].child_list
                      /\ pc'[p] = "wait_up" =>
                           /\ temp'[p] \in Proc /\ temp'[p] \notin th'[p].child_list
                           /\ th'[temp'[p]] # NULL /\ th'[temp'[p]].parent = p
                      /\ pc'[p] \in {"wait_take", "wait_up"} =>
                           /\ pc'[temp'[p]] = "exit_down" /\ th'[temp'[p]].parent_sema = 0
                           /\ th'[temp'[p]].parent_sema2 = 0
    BY Zenon DEF WaitInv, Live
  <2>1. CASE p = c \/ p = t
    BY Zenon, <1>9, <2>1
  <2>2. CASE p # c /\ p # t
    <3>1. th'[p] = th[p] /\ pc'[p] = pc[p] /\ temp'[p] = temp[p]
      BY Zenon, <1>12, <1>15, <2>2
    <3>2. pc[p] \in {"wait_take", "wait_up"} =>
            temp[p] \in Proc /\ th[temp[p]] # NULL /\ pc[temp[p]] = "exit_down"
      BY <3>1, StructFields DEF IInv, WaitInv, ChildInv, Live
    <3>3. pc[p] \in {"wait_take", "wait_up"} =>
            th'[temp[p]] = th[temp[p]] /\ pc'[temp[p]] = pc[temp[p]]
      BY Zenon, <1>2, <1>15, <1>16, <3>2
    <3> QED BY Zenon, <3>1, <3>2, <3>3 DEF IInv, WaitInv, Live
  <2> QED BY Zenon, <2>1, <2>2
<1>24. StartInv'
  <2> SUFFICES ASSUME NEW u \in Proc, th'[u] # NULL, pc'[u] \in Starting
               PROVE  /\ th'[th'[u].parent] # NULL /\ pc'[th'[u].parent] = "exec_down"
                      /\ u \in th'[th'[u].parent].child_list
                      /\ th'[u].tid = result'[th'[u].parent]
                      /\ th'[th'[u].parent].create_sema = 0
                      /\ pc'[u] = "report_up" => th'[th'[u].parent].create_success = loaded'[u]
    BY Zenon DEF StartInv, Live
  <2>1. CASE u = c
    <3>1. th[t].create_sema = 0
      BY Zenon, <1>2, StructFields DEF IInv, AnswerInv, Live
    <3> QED BY Zenon, <1>5, <1>6, <1>8, <1>9, <1>10, <2>1, <3>1
  <2>2. CASE u # c
    <3>1. u # t /\ th'[u] = th[u] /\ pc'[u] = pc[u]
      BY Zenon, <1>9, <1>15, <2>2 DEF Starting
    <3> DEFINE q == th[u].parent
    <3>2. /\ q \in Proc /\ th[q] # NULL /\ pc[q] = "exec_down" /\ u \in th[q].child_list
          /\ th[u].tid = result[q] /\ th[q].create_sema = 0
          /\ pc[u] = "report_up" => th[q].create_success = loaded[u]
      BY Zenon, <3>1, StructFields DEF IInv, StartInv, Live
    <3>3. q # t /\ q # c
      BY Zenon, <1>2, <1>16, <3>2
    <3>4. th'[q] = th[q] /\ pc'[q] = pc[q] /\ result'[q] = result[q]
      BY Zenon, <1>15, <3>2, <3>3
    <3> QED BY Zenon, <1>12, <3>1, <3>2, <3>4
  <2> QED BY Zenon, <2>1, <2>2
<1>25. AnswerInv'
  <2> SUFFICES ASSUME NEW u \in Proc, th'[u] # NULL, th'[u].create_sema = 1
               PROVE  /\ pc'[u] = "exec_down"
                      /\ \E d \in th'[u].child_list :
                           /\ th'[d].tid = result'[u] /\ pc'[d] \notin Starting
                           /\ th'[u].create_success = loaded'[d]
    BY Zenon DEF AnswerInv, Live
  <2>1. u # c
    BY <1>5
  <2>2. u # t
    BY <1>2, <1>6 DEF IInv, AnswerInv, Live
  <2>3. th'[u] = th[u] /\ pc'[u] = pc[u] /\ result'[u] = result[u]
    BY Zenon, <1>15, <2>1, <2>2
  <2>4. pc[u] = "exec_down"
    BY Zenon, <2>3 DEF IInv, AnswerInv, Live
  <2>5. PICK d \in th[u].child_list :
          th[d].tid = result[u] /\ pc[d] \notin Starting /\ th[u].create_success = loaded[d]
    BY Zenon, <2>3 DEF IInv, AnswerInv, Live
  <2>6. d \in Proc /\ d # c
    BY Zenon, <1>16, <2>3, StructFields DEF IInv, ChildInv, Live
  <2>7. th'[d].tid = th[d].tid /\ pc'[d] \notin Starting /\ loaded'[d] = loaded[d]
    BY Zenon, <1>6, <1>9, <1>12, <1>15, <2>5, <2>6 DEF Starting
  <2> QED BY Zenon, <2>3, <2>4, <2>5, <2>7
<1> QED BY Zenon, <1>14, <1>17, <1>18, <1>19, <1>20, <1>21, <1>22, <1>23, <1>24, <1>25 DEF IInv

(* The initial thread alone. *)
LEMMA InitIInv == Init => IInv
<1> SUFFICES ASSUME Init PROVE IInv
  BY Zenon
<1>1. th[Main] = [tid |-> 1, parent |-> Main, child_list |-> {Main},
                  parent_sema |-> 0, parent_sema2 |-> 0, create_sema |-> 0,
                  create_success |-> TRUE, exit_number |-> 0, pagedir |-> FALSE]
  BY Zenon, ConstantsAssumption DEF Init
<1>2. /\ th[Main] \in Struct /\ th[Main].tid = 1 /\ th[Main].parent = Main
      /\ th[Main].child_list = {Main} /\ th[Main].parent_sema = 0 /\ th[Main].parent_sema2 = 0
      /\ th[Main].create_sema = 0 /\ th[Main].exit_number = 0 /\ th[Main].pagedir = FALSE
  BY <1>1, ConstantsAssumption DEF Struct, Tid
<1>3. /\ th[Main] # NULL /\ \A t \in Proc : t # Main => th[t] = NULL
      /\ th \in [Proc -> Struct \cup {NULL}]
  BY Zenon, <1>2, NullAssumption DEF Init
<1>4. /\ pc = [t \in Proc |-> "run"] /\ cr3 = [t \in Proc |-> NULL]
      /\ death = [t \in Proc |-> "none"] /\ next_tid = 2 /\ pagedirs = {}
      /\ temp = [t \in Proc |-> NULL] /\ result = [t \in Proc |-> 0]
      /\ loaded = [t \in Proc |-> FALSE]
  BY Zenon DEF Init
<1>5. TypeOK
  BY <1>3, <1>4, ConstantsAssumption DEF TypeOK, Label
<1>6. FreeInv /\ TidInv /\ ChildInv /\ WaitInv /\ SemaInv
  BY <1>2, <1>3, <1>4, ConstantsAssumption
  DEF FreeInv, TidInv, ChildInv, WaitInv, SemaInv, Live, Gone, Exiting
<1>7. StartInv /\ AnswerInv /\ PagedirInv /\ DeathInv
  BY <1>2, <1>3, <1>4, ConstantsAssumption
  DEF StartInv, AnswerInv, PagedirInv, DeathInv, Live, Starting, Gone, Exiting
<1> QED BY Zenon, <1>5, <1>6, <1>7 DEF IInv

(* A step of a thread, or of none. *)
LEMMA NextIInv == IInv /\ [Next]_vars => IInv'
<1> SUFFICES ASSUME IInv, [Next]_vars PROVE IInv'
  BY Zenon
<1>1. ASSUME NEW t \in Proc, KernelStep(t) PROVE IInv'
  <2>1. ASSUME RunTask(t) PROVE IInv'
    BY Zenon, <2>1, WaitCallStep DEF RunTask, At
  <2> QED
    BY Zenon, <1>1, <2>1, ExecReturnStep, LoadStep, ReportStep, ReportUpStep, WaitDownStep,
       WaitTakeStep, WaitUpStep, ExitUpStep, ExitDownStep, ExitNullStep, ExitActivateStep,
       ExitDestroyStep, ExitFreeStep
    DEF KernelStep
<1>2. ASSUME NEW t \in Proc, Call(t) PROVE IInv'
  <2>1. ASSUME NEW tid \in Tid, ProcessWait(t, tid) PROVE IInv'
    BY Zenon, <2>1, WaitCallStep DEF ProcessWait, At
  <2> QED
    BY Zenon, <1>2, <2>1, ThreadCreateStep, ThreadCreateFailsStep, CopyFailsStep, ExitStep, KillStep
    DEF Call
<1>3. CASE UNCHANGED vars
  <2>1. UNCHANGED <<cr3, pagedirs, th, next_tid, pc, temp, result, loaded, death>>
    BY Zenon, <1>3 DEF vars
  <2>2. TypeOK' /\ FreeInv' /\ TidInv'
    BY Zenon, <2>1 DEF IInv, TypeOK, FreeInv, TidInv, Live
  <2>3. ChildInv' /\ WaitInv' /\ SemaInv'
    BY <2>1 DEF IInv, ChildInv, WaitInv, SemaInv, Live
  <2>4. StartInv' /\ AnswerInv'
    BY Zenon, <2>1 DEF IInv, StartInv, AnswerInv, Live
  <2>5. PagedirInv' /\ DeathInv'
    BY Zenon, <2>1 DEF IInv, PagedirInv, DeathInv, Live
  <2> QED BY Zenon, <2>2, <2>3, <2>4, <2>5 DEF IInv
<1> QED BY Zenon, <1>1, <1>2, <1>3, ProcessActivateStep DEF Next

(* The invariant of every behaviour: the theorems below follow from it. *)
THEOREM Invariance == Spec => []IInv
BY InitIInv, NextIInv, PTL DEF Spec

(* For any number of processes, whatever they and the timer do: nobody     *)
(* follows a pointer to a struct thread that thread_schedule_tail has      *)
(* freed, the active page directory exists at every step of process_exit,  *)
(* and process_wait collects a child's status once.                        *)
THEOREM NothingGivenBackIsUsed == Spec => []NothingStale
<1>1. IInv => NothingStale
  <2> SUFFICES ASSUME IInv PROVE NothingStale
    BY Zenon
  <2>1. NoUseAfterFree
    <3> SUFFICES ASSUME NEW t \in Proc, th[t] # NULL
                 PROVE  /\ \A c \in th[t].child_list : th[c] # NULL /\ th[c].parent = t
                        /\ pc[t] \in {"wait_down", "wait_take", "wait_up"} =>
                             th[temp[t]] # NULL /\ th[temp[t]].parent = t
                        /\ pc[t] \in {"start", "report", "report_up"} =>
                             th[th[t].parent] # NULL /\ pc[th[t].parent] = "exec_down"
      BY Zenon DEF NoUseAfterFree
    <3>1. \A c \in th[t].child_list : th[c] # NULL /\ th[c].parent = t
      BY Zenon, StructFields DEF IInv, ChildInv, Live
    <3>2. /\ pc[t] \in {"wait_down", "wait_take"} => temp[t] \in th[t].child_list
          /\ pc[t] = "wait_up" => th[temp[t]] # NULL /\ th[temp[t]].parent = t
      BY Zenon DEF IInv, WaitInv, Live
    <3>3. pc[t] \in Starting => th[th[t].parent] # NULL /\ pc[th[t].parent] = "exec_down"
      BY Zenon DEF IInv, StartInv, Live
    <3> QED BY Zenon, <3>1, <3>2, <3>3 DEF Starting
  <2>2. PagedirSafe
    BY Zenon DEF PagedirSafe, IInv, PagedirInv
  <2>3. WaitOnce
    BY DEF WaitOnce, IInv, ChildInv, SemaInv, Live, Gone
  <2> QED BY Zenon, <2>1, <2>2, <2>3 DEF NothingStale, IInv
<1> QED BY <1>1, Invariance, PTL

(* What a step of one thread does to where another thread is: only a step  *)
(* of t itself leaves process_execute or takes a status.                   *)
LEMMA OwnStep ==
  ASSUME IInv, [Next]_vars, NEW t \in Proc, pc[t] \in {"exec_down", "wait_take"}, pc'[t] # pc[t]
  PROVE  th[t] # NULL /\ (ExecReturn(t) \/ WaitTake(t))
<1>1. th[t] # NULL
  BY Zenon DEF IInv, FreeInv
<1>2. PICK u \in Proc : KernelStep(u) \/ Call(u) \/ ProcessActivate(u)
  BY Zenon DEF Next, vars
<1>3. CASE u = t
  BY Zenon, <1>2, <1>3
  DEF KernelStep, Call, ProcessActivate, ExecReturn, Load, Report, ReportUp, RunTask,
     WaitDown, WaitTake, WaitUp, ExitUp, ExitDown, ExitNull, ExitActivate, ExitDestroy, ExitFree,
     ThreadCreate, ThreadCreateFails, CopyFails, ProcessWait, Exit, Kill, At
<1>4. CASE u # t
  <2>1. CASE ThreadCreate(u)
    <3>1. FreePage # t
      BY Zenon, <1>1, <2>1 DEF ThreadCreate, FreePage
    <3> QED BY Zenon, <1>4, <2>1, <3>1 DEF ThreadCreate, IInv, TypeOK
  <2>2. CASE KernelStep(u)
    BY Zenon, <1>4, <2>2 DEF KernelStep, ExecReturn, Load, Report, ReportUp, RunTask, process_wait,
       WaitDown, WaitTake, WaitUp, ExitUp, ExitDown, ExitNull, ExitActivate, ExitDestroy,
       ExitFree, Goto, IInv, TypeOK
  <2>3. CASE Call(u) /\ ~ThreadCreate(u)
    BY Zenon, <1>4, <2>3 DEF Call, ThreadCreateFails, CopyFails, ProcessWait, process_wait, Exit,
       Kill, Goto, IInv, TypeOK
  <2>4. CASE ProcessActivate(u)
    BY Zenon, <2>4 DEF ProcessActivate
  <2> QED BY Zenon, <1>2, <2>1, <2>2, <2>3, <2>4
<1> QED BY Zenon, <1>1, <1>3, <1>4

(* For any number of processes: process_execute returns a tid only when    *)
(* the child with that tid was loaded, and process_wait returns the number *)
(* that the child it waited for passed to exit, or 0 when it was killed.   *)
THEOREM AnswersAreTrue == Spec => AnswersTrue
<1>1. IInv /\ [Next]_vars => [\A t \in Proc : ExecTruthful(t) /\ StatusDelivered(t)]_vars
  <2> SUFFICES ASSUME IInv, [Next]_vars, NEW t \in Proc
               PROVE  ExecTruthful(t) /\ StatusDelivered(t)
    BY Zenon
  <2>1. ExecTruthful(t)
    <3> SUFFICES ASSUME pc[t] = "exec_down", pc'[t] = Returned(t), result'[t] # TID_ERROR
                 PROVE  \E c \in Proc : th[c] # NULL /\ th[c].tid = result'[t] /\ loaded[c]
      BY Zenon DEF ExecTruthful
    <3>1. th[t] # NULL /\ ExecReturn(t)
      <4>1. pc'[t] # pc[t]
        BY Zenon DEF Returned
      <4> QED BY Zenon, <4>1, OwnStep DEF WaitTake, At
    <3>2. th[t].create_sema = 1
      BY <3>1, StructFields DEF ExecReturn, Down
    <3>3. PICK c \in th[t].child_list :
            th[c].tid = result[t] /\ th[t].create_success = loaded[c]
      BY Zenon, <3>1, <3>2 DEF IInv, AnswerInv, Live
    <3>4. c \in Proc /\ th[c] # NULL
      BY Zenon, <3>1, StructFields DEF IInv, ChildInv, Live
    <3>5. result'[t] = IF th[t].create_success THEN result[t] ELSE -1
      BY Zenon, <3>1 DEF ExecReturn, IInv, TypeOK
    <3>6. th[t].create_success /\ result'[t] = result[t]
      BY Zenon, <3>5 DEF TID_ERROR
    <3> QED BY Zenon, <3>3, <3>4, <3>6
  <2>2. StatusDelivered(t)
    <3> SUFFICES ASSUME pc[t] = "wait_take", pc'[t] = "wait_up"
                 PROVE  /\ pc[temp[t]] = "exit_down"
                        /\ death[temp[t]] = "exit" => result'[t] = result[temp[t]]
                        /\ death[temp[t]] = "kill" => result'[t] = 0
      BY Zenon DEF StatusDelivered
    <3>1. th[t] # NULL /\ WaitTake(t)
      BY Zenon, OwnStep DEF ExecReturn, At
    <3>2. temp[t] \in Proc /\ th[temp[t]] # NULL /\ pc[temp[t]] = "exit_down"
      BY Zenon, <3>1, StructFields DEF IInv, WaitInv, ChildInv, Live
    <3>3. result'[t] = th[temp[t]].exit_number
      BY Zenon, <3>1 DEF WaitTake, IInv, TypeOK
    <3> QED BY Zenon, <3>2, <3>3 DEF IInv, DeathInv, Live
  <2> QED BY Zenon, <2>1, <2>2
<1> QED BY <1>1, Invariance, PTL DEF Spec, AnswersTrue

=============================================================================
