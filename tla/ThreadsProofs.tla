--------------------------- MODULE ThreadsProofs ---------------------------
(***************************************************************************)
(* The steps of module Threads, second half: the actions that block,       *)
(* create and end threads preserve the inductive invariant.  With module   *)
(* ThreadsSteps, every step does.  What follows: the safety theorems, the  *)
(* order of the lists, and that a lock implements module Mutex.            *)
(***************************************************************************)
EXTENDS ThreadsSteps, FiniteSetTheorems

USE ConstantsAssumption

-----------------------------------------------------------------------------
(* The steps in which the running thread stops running. *)

(* A turn of sema_down's loop that waits. *)
LEMMA WaitStep ==
  ASSUME IInv, DownWait
  PROVE  IInv' /\ OwnersChange
<1> USE DEF IInv
<1>1. SchedType /\ TypeRest /\ cur \in Thread
  BY Zenon, TypeParts DEF SchedType
<1>2. PICK o \in Object :
        /\ pc[cur] = "down" /\ obj[cur] = o
        /\ waiters' = [waiters EXCEPT ![o] = list_insert_ordered(@, cur, priority)]
  BY Zenon, <1>1 DEF DownWait, At, LabelInv
<1>3. /\ thread_block /\ irq = "none" /\ cur # Idle
      /\ UNCHANGED <<priority, blocked_list, value, holder, pc, obj, irq, yield_on_return>>
  BY Zenon DEF DownWait, At, intrVars
<1>4. /\ SchedType' /\ SchedInv' /\ thread_ticks' = 0
      /\ SameKind([status EXCEPT ![cur] = "BLOCKED"])
  BY Zenon, <1>1, <1>3, BlockStep
<1>5. \A t \in Thread \ {Idle} :
        /\ status'[t] = "BLOCKED" <=> status[t] = "BLOCKED" \/ t = cur
        /\ Live(t)' <=> Live(t)
  BY <1>1, <1>4 DEF SameKind, Live, SchedType, SchedInv
<1>6. status[cur] = "RUNNING" /\ cur \notin Range(waiters[o])
  BY Zenon, <1>1 DEF SchedInv, WaitInv, WaitersInv
<1>7. LET r == list_insert_ordered(waiters[o], cur, priority)
      IN  r \in Seq(Thread) /\ NoDuplicates(r) /\ Range(r) = Range(waiters[o]) \cup {cur}
  <2>1. waiters[o] \in Seq(Thread) /\ NoDuplicates(waiters[o]) /\ priority \in [Thread -> Int]
    BY Zenon, <1>1, PriorityInt DEF TypeRest, WaitInv, WaitersInv
  <2> QED BY <1>1, <1>6, <2>1, InsertProperties
<1>8. waiters' \in [Object -> Seq(Thread)]
  BY Zenon, <1>1, <1>2, <1>7 DEF TypeRest
<1>9. \A p \in Object :
        /\ NoDuplicates(waiters'[p])
        /\ Range(waiters'[p]) = IF p = o THEN Range(waiters[p]) \cup {cur} ELSE Range(waiters[p])
  <2> SUFFICES ASSUME NEW p \in Object
               PROVE  /\ NoDuplicates(waiters'[p])
                      /\ Range(waiters'[p]) = IF p = o THEN Range(waiters[p]) \cup {cur}
                                               ELSE Range(waiters[p])
    BY Zenon
  <2>1. CASE p = o
    <3>1. waiters'[p] = list_insert_ordered(waiters[o], cur, priority)
      BY Zenon, <2>1, <1>1, <1>2 DEF TypeRest
    <3> QED BY Zenon, <2>1, <3>1, <1>7
  <2>2. CASE p # o
    <3>1. waiters'[p] = waiters[p]
      BY Zenon, <2>2, <1>1, <1>2 DEF TypeRest
    <3> QED BY Zenon, <2>2, <3>1 DEF WaitInv, WaitersInv
  <2> QED BY Zenon, <2>1, <2>2
<1>10. /\ pc[cur] = "down" /\ obj[cur] = o
       /\ \A p \in Object : \A t \in Range(waiters[p]) : t \in Thread
       /\ \A p \in Object : /\ NoDuplicates(waiters'[p])
                            /\ \A t : t \in Range(waiters'[p]) <=>
                                       t \in Range(waiters[p]) \/ (p = o /\ t = cur)
  <2>1. pc[cur] = "down" /\ obj[cur] = o
    BY Zenon, <1>2
  <2>2. \A p \in Object : \A t \in Range(waiters[p]) : t \in Thread
    BY DEF TypeOK, Range
  <2> QED BY Zenon, <1>9, <2>1, <2>2
<1>11. BlockedInv'
  <2>1. \A t \in Thread : pc[t] = "down" => obj[t] \in Object
    BY Zenon DEF LabelInv
  <2> QED BY <1>3, <1>5, <1>10, <2>1 DEF BlockedInv
<1>12. WaitInv'
  <2>1. WaitersInv'
    BY SMTT(60), <1>1, <1>3, <1>5, <1>10 DEF WaitInv, WaitersInv
  <2>2. SleepersInv'
    BY Zenon, <1>3, <1>5 DEF WaitInv, SleepersInv, TypeOK
  <2>3. CreatorsInv'
    BY Zenon, <1>3, <1>5 DEF WaitInv, CreatorsInv
  <2> QED BY Zenon, <2>1, <2>2, <2>3 DEF WaitInv
<1>13. LabelInv'
  <2>1. \A t \in Thread : Live(t)' <=> Live(t)
    BY Zenon, <1>4, <1>5 DEF SchedInv
  <2>2. \A t \in Thread : pc[t] = "start" => status'[t] = "BLOCKED"
    BY Zenon, <1>3, <1>5 DEF LabelInv
  <2> QED BY Zenon, <1>3, <2>1, <2>2 DEF LabelInv, Live
<1>14. TickInv'
  BY <1>3, <1>4 DEF TickInv
<1>15. TypeRest'
  BY Zenon, <1>1, <1>3, <1>8 DEF TypeRest
<1>16. TypeOK'
  BY Zenon, <1>4, <1>15 DEF TypeOK, SchedType, TypeRest
<1>17. MutualExclusion' /\ OwnersChange
  BY Zenon, <1>3, OwnersFrame DEF Owns
<1> QED BY Zenon, <1>4, <1>11, <1>12, <1>13, <1>14, <1>16, <1>17

(* timer_sleep puts the thread on blocked_list. *)
LEMMA SleepStep ==
  ASSUME IInv, ThreadBlockWithTime
  PROVE  IInv' /\ OwnersChange
<1> USE DEF IInv
<1>1. SchedType /\ TypeRest /\ cur \in Thread
  BY Zenon, TypeParts DEF SchedType
<1>2. /\ thread_block /\ irq = "none" /\ cur # Idle /\ pc[cur] = "run"
      /\ blocked_list' = blocked_list \cup {cur} /\ Goto("asleep", NULL)
      /\ UNCHANGED <<priority, value, waiters, holder, irq, yield_on_return>>
  BY Zenon DEF ThreadBlockWithTime, At, syncVars, intrVars
<1>3. /\ SchedType' /\ SchedInv' /\ thread_ticks' = 0
      /\ SameKind([status EXCEPT ![cur] = "BLOCKED"])
  BY Zenon, <1>1, <1>2, BlockStep
<1>4. \A t \in Thread \ {Idle} :
        /\ status'[t] = "BLOCKED" <=> status[t] = "BLOCKED" \/ t = cur
        /\ Live(t)' <=> Live(t)
  BY <1>1, <1>3 DEF SameKind, Live, SchedType, SchedInv
<1>5. /\ pc' \in [Thread -> Label] /\ obj' \in [Thread -> Object \cup Thread \cup {NULL}]
      /\ \A t \in Thread : /\ pc'[t] = IF t = cur THEN "asleep" ELSE pc[t]
                           /\ obj'[t] = IF t = cur THEN NULL ELSE obj[t]
  BY Zenon, <1>1, <1>2 DEF Goto, TypeRest, Label
<1>6. status[cur] = "RUNNING" /\ \A p \in Object : cur \notin Range(waiters[p])
  BY Zenon, <1>1 DEF SchedInv, WaitInv, WaitersInv
<1>7. \A p \in Object : \A t \in Range(waiters[p]) : t \in Thread
  BY DEF TypeOK, Range
<1>8. BlockedInv'
  BY <1>2, <1>4, <1>5 DEF BlockedInv
<1>9. WaitInv'
  <2>1. WaitersInv'
    <3>1. \A o \in Object : NoDuplicates(waiters[o])
      BY Zenon DEF WaitInv, WaitersInv
    <3>2. \A o \in Object : \A t \in Range(waiters[o]) :
            t \in Thread \ {Idle, cur} /\ status[t] = "BLOCKED" /\ pc[t] = "down" /\ obj[t] = o
      BY Zenon, <1>6, <1>7 DEF WaitInv, WaitersInv
    <3> QED BY <1>2, <1>4, <1>5, <3>1, <3>2 DEF WaitersInv
  <2>2. SleepersInv'
    BY SMTT(60), <1>1, <1>2, <1>4, <1>5 DEF WaitInv, SleepersInv, TypeOK
  <2>3. CreatorsInv'
    BY SMTT(60), <1>1, <1>4, <1>5, <1>6 DEF WaitInv, CreatorsInv
  <2> QED BY Zenon, <2>1, <2>2, <2>3 DEF WaitInv
<1>10. LabelInv'
  <2>1. \A t \in Thread : Live(t)' <=> Live(t)
    BY Zenon, <1>3, <1>4 DEF SchedInv
  <2>2. Live(cur)
    BY Zenon, <1>6 DEF Live
  <2> QED BY SMTT(60), <1>2, <1>4, <1>5, <2>1, <2>2 DEF LabelInv, Live
<1>11. TickInv'
  BY <1>2, <1>3 DEF TickInv
<1>12. blocked_list' \in SUBSET Thread
  BY Zenon, <1>1, <1>2 DEF TypeRest
<1>13. TypeRest'
  BY Zenon, <1>1, <1>2, <1>5, <1>12 DEF TypeRest
<1>14. TypeOK'
  BY Zenon, <1>3, <1>13 DEF TypeOK, SchedType, TypeRest
<1>15. MutualExclusion' /\ OwnersChange
  <2>1. \A k \in Lock, t \in Thread : Owns(t, k)' <=> Owns(t, k)
    BY Zenon, <1>2, <1>5 DEF Owns
  <2> QED BY Zenon, <1>2, <2>1, OwnersFrame
<1> QED BY Zenon, <1>3, <1>8, <1>9, <1>10, <1>11, <1>14, <1>15

(* thread_exit *)
LEMMA ExitStep ==
  ASSUME IInv, ThreadExit
  PROVE  IInv' /\ OwnersChange
<1> USE DEF IInv
<1>1. SchedType /\ TypeRest /\ cur \in Thread /\ status[cur] = "RUNNING"
  BY Zenon, TypeParts DEF SchedType, SchedInv
<1>2. /\ irq = "none" /\ cur # Idle /\ pc[cur] = "run" /\ \A l \in Lock : holder[l] # cur
      /\ UNCHANGED <<priority, blocked_list, pc, obj, value, waiters, holder, irq, yield_on_return>>
  BY Zenon DEF ThreadExit, At, syncVars, intrVars
<1> DEFINE st == [status EXCEPT ![cur] = "DYING"]
<1>3. st \in [Thread -> Status] /\ \A t \in Thread : st[t] = IF t = cur THEN "DYING" ELSE status[t]
  BY Zenon, <1>1 DEF SchedType, Status
<1>4. schedule(ready_list, st)
  BY Zenon DEF ThreadExit
<1> HIDE DEF st
<1>5. /\ SchedType' /\ SchedInv' /\ thread_ticks' = 0 /\ SameKind(st)
  <2>1. ready_list \in Seq(Thread) /\ NoDuplicates(ready_list) /\ Idle \notin Range(ready_list)
    BY Zenon, <1>1 DEF SchedType, SchedInv
  <2>2. /\ \A t \in Thread \ {Idle} : t \in Range(ready_list) <=> st[t] = "READY"
        /\ \A t \in Thread : st[t] # "RUNNING"
        /\ st[Idle] \notin {"FREE", "DYING"}
    BY Zenon, <1>1, <1>2, <1>3 DEF SchedInv, Live
  <2> QED BY Zenon, <1>1, <1>3, <1>4, <2>1, <2>2, ScheduleStep
<1>6. \A t \in Thread \ {Idle} :
        /\ status'[t] = "BLOCKED" <=> status[t] = "BLOCKED"
        /\ Live(t)' <=> Live(t) /\ t # cur
  BY Zenon, <1>1, <1>3, <1>5 DEF SameKind, Live
<1>7. \A p \in Object : \A t \in Range(waiters[p]) : t \in Thread
  BY DEF TypeOK, Range
<1>8. BlockedInv'
  BY <1>2, <1>6 DEF BlockedInv
<1>9. WaitInv'
  <2>1. WaitersInv'
    BY <1>2, <1>6, <1>7 DEF WaitInv, WaitersInv
  <2>2. SleepersInv'
    BY Zenon, <1>2, <1>6 DEF WaitInv, SleepersInv, TypeOK
  <2>3. CreatorsInv'
    BY Zenon, <1>2, <1>6 DEF WaitInv, CreatorsInv
  <2> QED BY Zenon, <2>1, <2>2, <2>3 DEF WaitInv
<1>10. LabelInv'
  <2>1. \A t \in Thread : Live(t)' <=> Live(t) /\ t # cur
    BY Zenon, <1>2, <1>5, <1>6 DEF SchedInv
  <2>2. \A t \in Thread : pc[t] = "start" => status'[t] = "BLOCKED"
    BY Zenon, <1>2, <1>6 DEF LabelInv
  <2>3. \A t \in Thread : ~Live(t)' => pc'[t] = "run"
    BY Zenon, <1>2, <2>1 DEF LabelInv
  <2>4. (\A k \in Lock : holder[k] \in Thread => holder[k] # Idle /\ Live(holder[k]))'
    BY Zenon, <1>2, <2>1 DEF LabelInv, Live
  <2> QED BY Zenon, <1>2, <2>2, <2>3, <2>4 DEF LabelInv
<1>11. TickInv'
  BY <1>2, <1>5 DEF TickInv
<1>12. TypeRest'
  BY Zenon, <1>1, <1>2 DEF TypeRest
<1>13. TypeOK'
  BY Zenon, <1>5, <1>12 DEF TypeOK, SchedType, TypeRest
<1>14. MutualExclusion' /\ OwnersChange
  BY Zenon, <1>2, OwnersFrame DEF Owns
<1> QED BY Zenon, <1>5, <1>8, <1>9, <1>10, <1>11, <1>13, <1>14

-----------------------------------------------------------------------------
(* The steps that make a thread and set it going, and the timer's wake-up. *)

(* thread_create keeps the invariant. *)
LEMMA CreateStep ==
  ASSUME IInv, NEW t \in Thread, NEW p \in Priority, ThreadCreate(t, p)
  PROVE  IInv' /\ OwnersChange
<1> USE DEF IInv
<1>1. SchedType /\ TypeRest /\ cur \in Thread /\ status[cur] = "RUNNING"
  BY Zenon, TypeParts DEF SchedType, SchedInv
<1>2. /\ irq = "none" /\ cur # Idle /\ pc[cur] = "run" /\ status[t] = "FREE"
      /\ UNCHANGED <<cur, ready_list, thread_ticks, blocked_list, value, waiters, holder,
                     irq, yield_on_return>>
  BY Zenon DEF ThreadCreate, At, syncVars, intrVars
<1>3. t # cur /\ t # Idle /\ pc[t] = "run" /\ ~Live(t)
  BY Zenon, <1>1, <1>2 DEF SchedInv, LabelInv, Live
<1>4. /\ status' \in [Thread -> Status]
      /\ \A u \in Thread : status'[u] = IF u = t THEN "BLOCKED" ELSE status[u]
  BY Zenon, <1>1 DEF ThreadCreate, SchedType, Status
<1>5. /\ pc' \in [Thread -> Label] /\ obj' \in [Thread -> Object \cup Thread \cup {NULL}]
      /\ \A u \in Thread :
           /\ pc'[u] = IF u = cur THEN "create" ELSE IF u = t THEN "start" ELSE pc[u]
           /\ obj'[u] = IF u = cur THEN t ELSE IF u = t THEN NULL ELSE obj[u]
  BY Zenon, <1>1, <1>3 DEF ThreadCreate, TypeRest, Label
<1>6. priority' \in [Thread -> Priority]
  BY Zenon, <1>1 DEF ThreadCreate, TypeRest
<1>7. SchedType' /\ SchedInv'
  <2>1. t \notin Range(ready_list)
    BY Zenon, <1>2, <1>3 DEF SchedInv
  <2> QED BY Zenon, <1>1, <1>2, <1>3, <1>4, <2>1 DEF SchedType, SchedInv, Live
<1>8. \A o \in Object : \A u \in Range(waiters[o]) : u \in Thread /\ u # t /\ u # cur
  <2>1. \A o \in Object : \A u \in Range(waiters[o]) : u \in Thread
    BY DEF TypeOK, Range
  <2> QED BY <2>1, <1>1, <1>2 DEF WaitInv, WaitersInv
<1>9. BlockedInv'
  <2> SUFFICES ASSUME NEW u \in Thread \ {Idle}, status'[u] = "BLOCKED"
               PROVE  \/ pc'[u] = "down" /\ u \in Range(waiters'[obj'[u]])
                      \/ pc'[u] = "asleep" /\ u \in blocked_list'
                      \/ pc'[u] = "start" /\ \E w \in Thread : pc'[w] = "create" /\ obj'[w] = u
    BY Zenon DEF BlockedInv
  <2>1. CASE u = t
    BY Zenon, <1>1, <1>3, <1>5, <2>1
  <2>2. CASE u # t
    <3>1. u # cur /\ status[u] = "BLOCKED" /\ pc'[u] = pc[u] /\ obj'[u] = obj[u]
      BY Zenon, <1>1, <1>4, <1>5, <2>2
    <3>2. CASE pc[u] = "start"
      <4>1. PICK w \in Thread : pc[w] = "create" /\ obj[w] = u
        BY Zenon, <3>1, <3>2 DEF BlockedInv
      <4>2. w # cur /\ w # t
        BY Zenon, <1>2, <1>3, <4>1
      <4> QED BY Zenon, <1>5, <3>1, <3>2, <4>1, <4>2
    <3>3. CASE pc[u] # "start"
      BY Zenon, <1>2, <3>1, <3>3 DEF BlockedInv
    <3> QED BY Zenon, <3>2, <3>3
  <2> QED BY Zenon, <2>1, <2>2
<1>10. WaitInv'
  <2>1. WaitersInv'
    BY SMTT(60), <1>2, <1>4, <1>5, <1>8 DEF WaitInv, WaitersInv
  <2>2. SleepersInv'
    BY Zenon, <1>1, <1>2, <1>4, <1>5 DEF WaitInv, SleepersInv, TypeOK
  <2>3. \A u \in Thread : pc[u] = "create" => obj[u] # t /\ obj[u] # cur
    BY Zenon, <1>1, <1>2 DEF WaitInv, CreatorsInv
  <2>4. \A u \in Thread : pc'[u] = "create" =>
       /\ obj'[u] \in Thread \ {Idle}
       /\ status'[obj'[u]] = "BLOCKED" /\ pc'[obj'[u]] = "start"
    BY SMTT(60), <1>1, <1>3, <1>4, <1>5, <2>3 DEF WaitInv, CreatorsInv
  <2>5. \A u, w \in Thread : pc'[u] = "create" /\ pc'[w] = "create" /\ obj'[w] = obj'[u] => w = u
    BY SMTT(60), <1>1, <1>3, <1>5, <2>3 DEF WaitInv, CreatorsInv
  <2>6. CreatorsInv'
    BY Zenon, <2>4, <2>5 DEF CreatorsInv
  <2> QED BY Zenon, <2>1, <2>2, <2>6 DEF WaitInv
<1>11. LabelInv'
  <2>1. \A u \in Thread : Live(u)' <=> Live(u) \/ u = t
    BY Zenon, <1>4 DEF Live
  <2>2. Live(cur)
    BY Zenon, <1>1 DEF Live
  <2>3. pc'[Idle] = "run"
    BY Zenon, <1>2, <1>3, <1>5 DEF LabelInv
  <2>4. \A u \in Thread : pc'[u] = "down" => obj'[u] \in Object
    BY Zenon, <1>5 DEF LabelInv
  <2>5. \A u \in Thread : pc'[u] \in {"set_holder", "release"} =>
                           obj'[u] \in Lock /\ holder'[obj'[u]] = NULL
    BY Zenon, <1>2, <1>5 DEF LabelInv
  <2>6. \A u \in Thread : pc'[u] = "start" => status'[u] = "BLOCKED"
    BY Zenon, <1>4, <1>5 DEF LabelInv
  <2>7. \A u \in Thread : ~Live(u)' => pc'[u] = "run"
    BY Zenon, <1>5, <2>1, <2>2 DEF LabelInv
  <2>8. \A l \in Lock : holder'[l] \in Thread => holder'[l] # Idle /\ status'[holder'[l]] \notin {"FREE", "DYING"}
    BY Zenon, <1>2, <1>4 DEF LabelInv, Live
  <2> QED BY Zenon, <2>3, <2>4, <2>5, <2>6, <2>7, <2>8 DEF LabelInv, Live
<1>12. TickInv'
  BY Zenon, <1>2 DEF TickInv
<1>13. TypeRest'
  BY Zenon, <1>1, <1>2, <1>5, <1>6 DEF TypeRest
<1>14. TypeOK'
  BY Zenon, <1>7, <1>13 DEF TypeOK, SchedType, TypeRest
<1>15. MutualExclusion' /\ OwnersChange
  <2>1. \A k \in Lock, u \in Thread : Owns(u, k)' <=> Owns(u, k)
    BY Zenon, <1>2, <1>3, <1>5 DEF Owns
  <2> QED BY Zenon, <1>2, <2>1, OwnersFrame
<1> QED BY Zenon, <1>7, <1>9, <1>10, <1>11, <1>12, <1>14, <1>15

(* thread_create's thread_unblock, and block_check's: t leaves the list or *)
(* the creator that had it.                                                *)
LEMMA StartStep ==
  ASSUME IInv, CreateUnblock
  PROVE  IInv' /\ OwnersChange
<1> USE DEF IInv
<1>1. SchedType /\ TypeRest /\ cur \in Thread /\ status[cur] = "RUNNING"
  BY Zenon, TypeParts DEF SchedType, SchedInv
<1>2. /\ irq = "none" /\ cur # Idle /\ pc[cur] = "create"
      /\ UNCHANGED <<priority, blocked_list, value, waiters, holder, irq, yield_on_return>>
  BY Zenon DEF CreateUnblock, At, syncVars, intrVars
<1>3. PICK t \in Thread \ {Idle} : obj[cur] = t /\ status[t] = "BLOCKED" /\ pc[t] = "start"
  BY Zenon, <1>1, <1>2 DEF WaitInv, CreatorsInv
<1>4. t # cur /\ thread_unblock(t)
  BY Zenon, <1>1, <1>3 DEF CreateUnblock
<1>5. SchedType' /\ SchedInv' /\ UNCHANGED <<cur, thread_ticks>>
  BY Zenon, <1>1, <1>3, <1>4, UnblockStep DEF TypeRest
<1>6. \A u \in Thread : status'[u] = IF u = t THEN "READY" ELSE status[u]
  BY Zenon, <1>1, <1>4 DEF thread_unblock, SchedType
<1>7. PICK l \in {"run", "yield"} : pc' = [pc EXCEPT ![cur] = l, ![t] = "run"]
  BY Zenon, <1>3 DEF CreateUnblock, YieldIf
<1>8. /\ pc' \in [Thread -> Label] /\ obj' \in [Thread -> Object \cup Thread \cup {NULL}]
      /\ \A u \in Thread :
           /\ pc'[u] = IF u = cur THEN l ELSE IF u = t THEN "run" ELSE pc[u]
           /\ obj'[u] = IF u = cur THEN NULL ELSE obj[u]
  BY Zenon, <1>1, <1>4, <1>7 DEF CreateUnblock, TypeRest, Label
<1>9. \A o \in Object : \A u \in Range(waiters[o]) : u \in Thread /\ u # t /\ u # cur
  <2>1. \A o \in Object : \A u \in Range(waiters[o]) : u \in Thread
    BY DEF TypeOK, Range
  <2> QED BY <2>1, <1>2, <1>3 DEF WaitInv, WaitersInv
<1>10. \A u \in Thread : pc[u] = "create" /\ u # cur => obj[u] # t /\ obj[u] # cur
  BY Zenon, <1>1, <1>2, <1>3 DEF WaitInv, CreatorsInv
<1>11. BlockedInv'
  <2>1. \A u \in Thread : pc[u] = "create" /\ u # cur => pc'[u] = "create" /\ obj'[u] = obj[u]
    BY Zenon, <1>3, <1>8
  <2> QED BY <1>1, <1>2, <1>3, <1>6, <1>8, <2>1 DEF BlockedInv
<1>12. WaitInv'
  <2>1. WaitersInv'
    BY SMTT(60), <1>2, <1>6, <1>8, <1>9 DEF WaitInv, WaitersInv
  <2>2. SleepersInv'
    BY <1>1, <1>2, <1>3, <1>6, <1>8 DEF WaitInv, SleepersInv, TypeOK
  <2>3. CreatorsInv'
    BY <1>1, <1>3, <1>6, <1>8, <1>10 DEF WaitInv, CreatorsInv
  <2> QED BY Zenon, <2>1, <2>2, <2>3 DEF WaitInv
<1>13. LabelInv'
  <2>1. \A u \in Thread : Live(u)' <=> Live(u)
    BY Zenon, <1>3, <1>6 DEF Live
  <2>2. Live(cur) /\ Live(t)
    BY Zenon, <1>1, <1>3 DEF Live
  <2> QED BY <1>2, <1>3, <1>6, <1>8, <2>1, <2>2 DEF LabelInv, Live
<1>14. TickInv'
  BY Zenon, <1>2, <1>5 DEF TickInv
<1>15. TypeRest'
  BY Zenon, <1>1, <1>2, <1>8 DEF TypeRest
<1>16. TypeOK'
  BY Zenon, <1>5, <1>15 DEF TypeOK, SchedType, TypeRest
<1>17. MutualExclusion' /\ OwnersChange
  <2>1. \A k \in Lock, u \in Thread : Owns(u, k)' <=> Owns(u, k)
    BY Zenon, <1>2, <1>3, <1>8 DEF Owns
  <2> QED BY Zenon, <1>2, <2>1, OwnersFrame
<1> QED BY Zenon, <1>5, <1>11, <1>12, <1>13, <1>14, <1>16, <1>17

(* thread_block's checks keep it. *)
LEMMA BlockCheckStep ==
  ASSUME IInv, NEW t \in Thread, BlockCheck(t)
  PROVE  IInv' /\ OwnersChange
<1> USE DEF IInv
<1>1. SchedType /\ TypeRest
  BY Zenon, TypeParts
<1>2. /\ thread_unblock(t) /\ t \in blocked_list /\ blocked_list' = blocked_list \ {t}
      /\ irq = "block_check"
      /\ UNCHANGED <<priority, pc, obj, value, waiters, holder, irq, yield_on_return>>
  BY Zenon DEF BlockCheck, syncVars, intrVars
<1>3. t # Idle /\ status[t] = "BLOCKED" /\ pc[t] = "asleep"
  BY Zenon, <1>2 DEF WaitInv, SleepersInv
<1>4. SchedType' /\ SchedInv' /\ UNCHANGED <<cur, thread_ticks>>
  BY Zenon, <1>1, <1>2, <1>3, UnblockStep DEF TypeRest
<1>5. \A u \in Thread : status'[u] = IF u = t THEN "READY" ELSE status[u]
  BY Zenon, <1>1, <1>2 DEF thread_unblock, SchedType
<1>6. \A o \in Object : \A u \in Range(waiters[o]) : u \in Thread /\ u # t
  <2>1. \A o \in Object : \A u \in Range(waiters[o]) : u \in Thread
    BY DEF TypeOK, Range
  <2> QED BY Zenon, <2>1, <1>3 DEF WaitInv, WaitersInv
<1>7. BlockedInv'
  BY Zenon, <1>2, <1>5 DEF BlockedInv
<1>8. WaitInv'
  <2>1. WaitersInv'
    BY <1>2, <1>5, <1>6 DEF WaitInv, WaitersInv
  <2>2. SleepersInv'
    BY Zenon, <1>2, <1>5 DEF WaitInv, SleepersInv, TypeOK
  <2>3. CreatorsInv'
    BY Zenon, <1>2, <1>3, <1>5 DEF WaitInv, CreatorsInv
  <2> QED BY Zenon, <2>1, <2>2, <2>3 DEF WaitInv
<1>9. LabelInv'
  BY Zenon, <1>2, <1>3, <1>5 DEF LabelInv, Live
<1>10. TickInv'
  BY Zenon, <1>2, <1>4 DEF TickInv
<1>11. blocked_list' \in SUBSET Thread
  BY Zenon, <1>1, <1>2 DEF TypeRest
<1>12. TypeRest'
  BY Zenon, <1>1, <1>2, <1>11 DEF TypeRest
<1>13. TypeOK'
  BY Zenon, <1>4, <1>12 DEF TypeOK, SchedType, TypeRest
<1>14. MutualExclusion' /\ OwnersChange
  BY Zenon, <1>2, OwnersFrame DEF Owns
<1> QED BY Zenon, <1>4, <1>7, <1>8, <1>9, <1>10, <1>13, <1>14

-----------------------------------------------------------------------------
(* IInv is inductive. *)
LEMMA NextIInv == IInv /\ [Next]_vars => IInv' /\ OwnersChange
<1> SUFFICES ASSUME IInv, [Next]_vars PROVE IInv' /\ OwnersChange
  BY Zenon
<1>1. CASE UNCHANGED vars
  <2>1. TypeOK'
    BY Zenon, <1>1 DEF vars, IInv, TypeOK
  <2>2. SchedInv' /\ TickInv'
    BY Zenon, <1>1 DEF vars, IInv, SchedInv, TickInv, Live
  <2>3. BlockedInv' /\ WaitInv'
    <3>1. BlockedInv'
      BY Zenon, <1>1 DEF vars, IInv, BlockedInv
    <3>2. WaitersInv'
      BY Zenon, <1>1 DEF vars, IInv, WaitInv, WaitersInv
    <3>3. SleepersInv' /\ CreatorsInv'
      BY Zenon, <1>1 DEF vars, IInv, WaitInv, SleepersInv, CreatorsInv
    <3> QED BY Zenon, <3>1, <3>2, <3>3 DEF WaitInv
  <2>4. LabelInv'
    BY Zenon, <1>1 DEF vars, IInv, LabelInv, Live
  <2>5. MutualExclusion' /\ OwnersChange
    BY SMTT(30), <1>1 DEF vars, IInv, MutualExclusion, Owns, OwnersChange
  <2> QED BY Zenon, <2>1, <2>2, <2>3, <2>4, <2>5 DEF IInv
<1>2. CASE KernelStep
  BY Zenon, <1>2, StartStep, GotoSteps, WaitStep, TakeSteps, SetHolderStep, UpSteps, TimerSteps
     DEF KernelStep
<1>3. CASE Call
  BY Zenon, <1>3, CreateStep, ExitStep, GotoSteps, SleepStep, DownSteps, UpSteps, LockReleaseStep,
     TakeSteps DEF Call
<1>4. CASE TimerInterrupt
  BY Zenon, <1>4, TimerSteps
<1>5. CASE Handler
  BY Zenon, <1>5, BlockCheckStep, TimerSteps, PriorityStep DEF Handler
<1>6. CASE \E s \in IrqSema : DeviceInterrupt(s)
  BY Zenon, <1>6, DeviceStep
<1> QED BY Zenon, <1>1, <1>2, <1>3, <1>4, <1>5, <1>6 DEF Next

(* Every state the kernel reaches satisfies the inductive invariant. *)
THEOREM Invariance == Spec => []IInv
BY InitIInv, NextIInv, PTL DEF Spec

(* The lists, labels and counters stay what the code takes them for; in    *)
(* particular thread_ticks never passes TIME_SLICE.                        *)
THEOREM TypeCorrect == Spec => []TypeOK
<1>1. IInv => TypeOK
  BY Zenon DEF IInv
<1> QED BY <1>1, Invariance, PTL

(* `elem' is never on two lists, whatever the threads and the interrupts   *)
(* do: what thread.h's comment asks for holds.                             *)
THEOREM ListsSafe == Spec => []ListsExclusive
<1>1. IInv => ListsExclusive
  <2> SUFFICES ASSUME IInv PROVE ListsExclusive
    BY Zenon
  <2>1. \A o \in Object : \A t \in Range(waiters[o]) : status[t] = "BLOCKED" /\ t \notin blocked_list
    BY Zenon DEF IInv, WaitInv, WaitersInv, SleepersInv
  <2>2. \A o \in Object : \A p \in Object \ {o} : Range(waiters[o]) \cap Range(waiters[p]) = {}
    <3>1. \A o \in Object : \A t \in Range(waiters[o]) : obj[t] = o
      BY Zenon DEF IInv, WaitInv, WaitersInv
    <3> QED
      BY <3>1, Zenon
  <2> QED BY Zenon, <2>1, <2>2 DEF IInv, SchedInv, WaitInv, WaitersInv, SleepersInv, CreatorsInv, ListsExclusive
<1> QED BY <1>1, Invariance, PTL

(* No blocked thread is ever forgotten by all who could wake it. *)
THEOREM NeverLost == Spec => []NoThreadLost
<1>1. IInv => NoThreadLost
  <2> SUFFICES ASSUME IInv, NEW t \in Thread \ {Idle}, status[t] = "BLOCKED",
                      pc[t] = "start", NEW u \in Thread, pc[u] = "create", obj[u] = t
               PROVE  /\ status[u] \in {"RUNNING", "READY"}
                      /\ \A w \in Thread : pc[w] = "create" /\ obj[w] = t => w = u
    BY DEF IInv, BlockedInv, NoThreadLost
  <2>1. u # Idle /\ Live(u)
    BY Zenon DEF IInv, LabelInv
  <2>2. status[u] # "BLOCKED"
    BY Zenon, <2>1 DEF IInv, BlockedInv
  <2>3. status[u] \in {"RUNNING", "READY"}
    BY Zenon, <2>1, <2>2 DEF IInv, TypeOK, Status, Live
  <2> QED BY Zenon, <2>3 DEF IInv, WaitInv, CreatorsInv
<1> QED BY <1>1, Invariance, PTL

(* Locks exclude, and are free exactly when no thread is between           *)
(* lock_acquire and lock_release.                                          *)
THEOREM LocksExclude == Spec => []MutualExclusion
<1>1. IInv => MutualExclusion
  BY Zenon DEF IInv
<1> QED BY <1>1, Invariance, PTL

-----------------------------------------------------------------------------
(* The order of the lists. *)

(* The order of a list depends only on the priorities of its members. *)
LEMMA OrderedLocal ==
  ASSUME NEW T, NEW s \in Seq(T), NEW p, NEW q,
         \A t \in Range(s) : p[t] = q[t], Ordered(s, p)
  PROVE  Ordered(s, q)
<1>1. \A i \in 1 .. Len(s) : p[s[i]] = q[s[i]]
  BY DEF Range
<1> QED BY Zenon, <1>1 DEF Ordered

(* Every way a step changes the run queue keeps it in order. *)
QueueChange ==
  \/ ready_list' = ready_list
  \/ ready_list # <<>> /\ ready_list' = Tail(ready_list)
  \/ \E t \in Thread \ {Idle} :
       LET r == list_insert_ordered(ready_list, t, priority)
       IN  /\ t \notin Range(ready_list)
           /\ ready_list' = r \/ (r # <<>> /\ ready_list' = Tail(r))

(* Such a change keeps ready_list ordered. *)
LEMMA QueueOrder ==
  ASSUME IInv, ReadyOrdered, QueueChange
  PROVE  Ordered(ready_list', priority)
<1>1. /\ ready_list \in Seq(Thread) /\ NoDuplicates(ready_list)
      /\ priority \in [Thread -> Int] /\ Ordered(ready_list, priority)
  BY Zenon, PriorityInt DEF IInv, TypeOK, SchedInv, ReadyOrdered
<1>2. CASE ready_list' = ready_list
  BY Zenon, <1>1, <1>2
<1>3. CASE ready_list # <<>> /\ ready_list' = Tail(ready_list)
  BY Zenon, <1>1, <1>3, TailProperties
<1>4. ASSUME NEW t \in Thread \ {Idle},
             LET r == list_insert_ordered(ready_list, t, priority)
             IN  /\ t \notin Range(ready_list)
                 /\ ready_list' = r \/ (r # <<>> /\ ready_list' = Tail(r))
      PROVE  Ordered(ready_list', priority)
  <2> DEFINE r == list_insert_ordered(ready_list, t, priority)
  <2>1. r \in Seq(Thread) /\ NoDuplicates(r) /\ Ordered(r, priority)
    BY Zenon, <1>1, <1>4, InsertProperties
  <2>2. ready_list' = r \/ (r # <<>> /\ ready_list' = Tail(r))
    BY Zenon, <1>4
  <2> HIDE DEF r
  <2>3. CASE ready_list' = r
    BY Zenon, <2>1, <2>3
  <2>4. CASE r # <<>> /\ ready_list' = Tail(r)
    BY Zenon, <2>1, <2>4, <1>1, TailProperties
  <2> QED BY Zenon, <2>2, <2>3, <2>4
<1> QED BY Zenon, <1>2, <1>3, <1>4 DEF QueueChange

(* How a step changes ready_list. *)
LEMMA QueueSteps ==
  ASSUME IInv, [Next]_vars, ~(\E pri \in [Thread -> Priority] : CalculatePriority(pri))
  PROVE  QueueChange
<1> USE DEF IInv
<1>1. cur # Idle => cur \in Thread \ {Idle} /\ cur \notin Range(ready_list)
  BY Zenon DEF SchedInv, TypeOK
<1>2. thread_block => QueueChange
  BY Zenon DEF thread_block, schedule, QueueChange
<1>3. ThreadExit => QueueChange
  BY Zenon DEF ThreadExit, schedule, QueueChange
<1>4. thread_yield => QueueChange
  <2> SUFFICES ASSUME thread_yield PROVE QueueChange
    BY Zenon
  <2> DEFINE r == list_insert_ordered(ready_list, cur, priority)
  <2>1. CASE cur = Idle
    BY Zenon, <2>1 DEF thread_yield, schedule, QueueChange
  <2>2. CASE cur # Idle
    <3>1. ready_list' = IF r = <<>> THEN r ELSE Tail(r)
      BY Zenon, <2>2 DEF thread_yield, schedule
    <3> QED BY Zenon, <1>1, <2>2, <3>1 DEF QueueChange
  <2> QED BY Zenon, <2>1, <2>2
<1>5. \A t \in Thread \ {Idle} : status[t] = "BLOCKED" /\ thread_unblock(t) => QueueChange
  BY Zenon DEF SchedInv, thread_unblock, QueueChange
<1>6. \A o \in Object : sema_up(o) => QueueChange
  <2> SUFFICES ASSUME NEW o \in Object, sema_up(o) PROVE QueueChange
    BY Zenon
  <2>1. CASE waiters[o] = <<>>
    BY Zenon, <2>1 DEF sema_up, schedVars, QueueChange
  <2>2. CASE waiters[o] # <<>>
    <3>1. waiters[o] \in Seq(Thread)
      BY Zenon DEF TypeOK
    <3>2. Head(waiters[o]) \in Range(waiters[o]) /\ Head(waiters[o]) \in Thread
      BY <2>2, <3>1 DEF Range
    <3>3. Head(waiters[o]) \in Thread \ {Idle} /\ status[Head(waiters[o])] = "BLOCKED"
      BY <3>2 DEF WaitInv, WaitersInv, SleepersInv, CreatorsInv
    <3> QED BY Zenon, <2>2, <3>3, <1>5 DEF sema_up
  <2> QED BY Zenon, <2>1, <2>2
<1>7. CASE ready_list' = ready_list
  BY Zenon, <1>7 DEF QueueChange
<1>8. CASE KernelStep
  <2>1. CASE CreateUnblock
    <3>1. obj[cur] \in Thread \ {Idle} /\ status[obj[cur]] = "BLOCKED" /\ thread_unblock(obj[cur])
      BY Zenon, <2>1 DEF CreateUnblock, At, WaitInv, WaitersInv, SleepersInv, CreatorsInv, TypeOK
    <3> QED BY Zenon, <3>1, <1>5
  <2>2. CASE ReleaseUp
    <3>1. obj[cur] \in Object /\ sema_up(obj[cur])
      BY Zenon, <2>2 DEF ReleaseUp, At, LabelInv, TypeOK, Object
    <3> QED BY Zenon, <3>1, <1>6
  <2> QED BY Zenon, <1>8, <2>1, <2>2, <1>2, <1>4, <1>7
       DEF KernelStep, ThreadYield, SleepReturn, DownWait, DownTake, SetHolder, IdleBlock, schedVars
<1>9. CASE Call
  <2>1. Sema \subseteq Object
    BY Zenon DEF Object
  <2> QED BY Zenon, <1>9, <2>1, <1>2, <1>3, <1>4, <1>6, <1>7
       DEF Call, ThreadCreate, ThreadSetPriority, ThreadYield, ThreadBlockWithTime, SemaDown,
           SemaUp, LockAcquire, LockRelease, TryDown, schedVars
<1>10. CASE Handler
  <2>1. ASSUME NEW t \in Thread, BlockCheck(t) PROVE QueueChange
    BY Zenon, <2>1, <1>5 DEF BlockCheck, WaitInv, WaitersInv, SleepersInv, CreatorsInv
  <2> QED BY Zenon, <1>10, <2>1, <1>4, <1>7 DEF Handler, BlockCheckDone, IntrReturn, schedVars
<1>11. CASE \E s \in IrqSema : DeviceInterrupt(s)
  BY Zenon, <1>11, <1>6 DEF DeviceInterrupt, Object
<1> QED BY Zenon, <1>7, <1>8, <1>9, <1>10, <1>11 DEF Next, vars, TimerInterrupt

(* Only calculate_priority changes the priority of a thread on a list. *)
LEMMA PriorityLocal ==
  ASSUME IInv, [Next]_vars, ~(\E pri \in [Thread -> Priority] : CalculatePriority(pri))
  PROVE  \/ UNCHANGED priority
         \/ /\ UNCHANGED <<ready_list, waiters>>
            /\ \A t \in Range(ready_list) : priority'[t] = priority[t]
            /\ \A o \in Object : \A t \in Range(waiters[o]) : priority'[t] = priority[t]
<1> USE DEF IInv
<1>1. CASE UNCHANGED priority
  BY Zenon, <1>1
<1>2. ASSUME NEW u \in Thread, status[u] \in {"FREE", "RUNNING"},
             NEW p \in Priority, priority' = [priority EXCEPT ![u] = p],
             UNCHANGED <<ready_list, waiters>>
      PROVE  /\ \A t \in Range(ready_list) : priority'[t] = priority[t]
             /\ \A o \in Object : \A t \in Range(waiters[o]) : priority'[t] = priority[t]
  <2>1. u \notin Range(ready_list) /\ \A o \in Object : u \notin Range(waiters[o])
    BY <1>2 DEF SchedInv, WaitInv, WaitersInv, SleepersInv, CreatorsInv
  <2>2. Range(ready_list) \subseteq Thread /\ \A o \in Object : Range(waiters[o]) \subseteq Thread
    BY DEF TypeOK, Range
  <2> QED BY <1>2, <2>1, <2>2 DEF TypeOK
<1>3. ASSUME NEW t \in Thread, NEW p \in Priority, ThreadCreate(t, p)
      PROVE  /\ UNCHANGED <<ready_list, waiters>>
             /\ status[t] = "FREE" /\ priority' = [priority EXCEPT ![t] = p]
  BY Zenon, <1>3 DEF ThreadCreate, syncVars
<1>4. ASSUME NEW p \in Priority, ThreadSetPriority(p)
      PROVE  /\ UNCHANGED <<ready_list, waiters>>
             /\ cur \in Thread /\ status[cur] = "RUNNING" /\ priority' = [priority EXCEPT ![cur] = p]
  BY Zenon, <1>4 DEF ThreadSetPriority, schedVars, syncVars, SchedInv, TypeOK
<1>5. CASE \E t \in Thread, p \in Priority : ThreadCreate(t, p)
  BY Zenon, <1>5, <1>2, <1>3
<1>6. CASE \E p \in Priority : ThreadSetPriority(p)
  BY Zenon, <1>6, <1>2, <1>4
<1>7. CASE KernelStep
  BY Zenon, <1>7, <1>1 DEF KernelStep, CreateUnblock, ThreadYield, SleepReturn, DownWait, DownTake,
     SetHolder, ReleaseUp, IdleBlock
<1>8. CASE Call
  BY Zenon, <1>8, <1>1, <1>5, <1>6 DEF Call, ThreadExit, ThreadYield, ThreadBlockWithTime, SemaDown,
     SemaUp, LockAcquire, LockRelease, TryDown
<1>9. CASE Handler
  BY Zenon, <1>9, <1>1 DEF Handler, BlockCheck, BlockCheckDone, IntrReturn
<1> QED BY Zenon, <1>1, <1>7, <1>8, <1>9 DEF Next, vars, TimerInterrupt, DeviceInterrupt

(* Every step keeps ready_list ordered. *)
LEMMA ReadyOrderedStep == IInv /\ ReadyOrdered /\ [Next]_vars => ReadyOrdered'
<1> SUFFICES ASSUME IInv, ReadyOrdered, [Next]_vars PROVE ReadyOrdered'
  BY Zenon
<1>1. ready_list \in Seq(Thread) /\ NoDuplicates(ready_list)
  BY Zenon DEF IInv, TypeOK, SchedInv
<1>2. ASSUME NEW pri \in [Thread -> Priority], CalculatePriority(pri) PROVE ReadyOrdered'
  <2>1. priority' \in [Thread -> Priority] /\ ready_list' \in list_sort(ready_list, priority')
    BY Zenon, <1>2 DEF CalculatePriority, IInv, TypeOK
  <2>2. Priority \subseteq Int
    OBVIOUS
  <2>3. priority' \in [Thread -> Int]
    BY Zenon, <2>1, <2>2
  <2> QED BY Zenon, <1>1, <2>1, <2>3, SortProperties DEF ReadyOrdered
<1>3. CASE ~(\E pri \in [Thread -> Priority] : CalculatePriority(pri))
  <2>1. Ordered(ready_list', priority)
    BY Zenon, <1>3, QueueSteps, QueueOrder
  <2>2. CASE UNCHANGED priority
    BY Zenon, <2>1, <2>2 DEF ReadyOrdered
  <2>3. CASE /\ UNCHANGED <<ready_list, waiters>>
             /\ \A t \in Range(ready_list) : priority'[t] = priority[t]
    <3>1. Ordered(ready_list, priority')
      BY Zenon, <1>1, <2>3, OrderedLocal DEF ReadyOrdered
    <3> QED BY Zenon, <2>3, <3>1 DEF ReadyOrdered
  <2> QED BY Zenon, <1>3, <2>2, <2>3, PriorityLocal
<1> QED BY Zenon, <1>2, <1>3

(* The run queue is always in order of priority, under either scheduler:   *)
(* insertion keeps it so, and calculate_priority sorts it again.           *)
THEOREM RunQueueOrdered == Spec => []ReadyOrdered
<1>1. Init => ReadyOrdered
  BY DEF Init, ReadyOrdered, Ordered
<1> QED BY <1>1, ReadyOrderedStep, Invariance, PTL DEF Spec

-----------------------------------------------------------------------------
(* What a step does to a semaphore's list. *)
WaitersChange(o) ==
  \/ waiters'[o] = waiters[o]
  \/ waiters[o] # <<>> /\ waiters'[o] = Tail(waiters[o])
  \/ waiters'[o] = list_insert_ordered(waiters[o], cur, priority)

(* How a step changes a semaphore's waiters. *)
LEMMA WaitersSteps ==
  ASSUME IInv, [Next]_vars, NEW o \in Object
  PROVE  WaitersChange(o)
<1> USE DEF WaitersChange
<1>1. waiters \in [Object -> Seq(Thread)]
  BY Zenon DEF IInv, TypeOK
<1>2. CASE UNCHANGED waiters
  BY Zenon, <1>2
<1>3. ASSUME NEW p, sema_up(p) PROVE WaitersChange(o)
  BY Zenon, <1>1, <1>3 DEF sema_up
<1>4. CASE DownWait
  BY Zenon, <1>1, <1>4 DEF DownWait
<1>5. CASE KernelStep
  BY Zenon, <1>5, <1>2, <1>3, <1>4 DEF KernelStep, CreateUnblock, ThreadYield, SleepReturn,
     DownTake, SetHolder, ReleaseUp, IdleBlock, syncVars
<1>6. CASE Call
  BY Zenon, <1>6, <1>2, <1>3 DEF Call, ThreadCreate, ThreadExit, ThreadSetPriority, ThreadYield,
     ThreadBlockWithTime, SemaDown, SemaUp, LockAcquire, LockRelease, TryDown, syncVars
<1>7. CASE Handler
  BY Zenon, <1>7, <1>2 DEF Handler, BlockCheck, BlockCheckDone, CalculatePriority, IntrReturn,
     syncVars
<1>8. CASE \E s \in IrqSema : DeviceInterrupt(s)
  BY Zenon, <1>8, <1>3 DEF DeviceInterrupt
<1> QED BY Zenon, <1>2, <1>5, <1>6, <1>7, <1>8 DEF Next, vars, TimerInterrupt, syncVars

(* Every step keeps the waiters ordered. *)
LEMMA WaitersOrderedStep ==
  ~MLFQS /\ IInv /\ WaitersOrdered /\ [Next]_vars => WaitersOrdered'
<1> SUFFICES ASSUME ~MLFQS, IInv, WaitersOrdered, [Next]_vars, NEW o \in Object
             PROVE  Ordered(waiters'[o], priority')
  BY Zenon DEF WaitersOrdered
<1>1. /\ waiters[o] \in Seq(Thread) /\ NoDuplicates(waiters[o])
      /\ priority \in [Thread -> Int] /\ Ordered(waiters[o], priority) /\ cur \in Thread
  BY PriorityInt DEF IInv, TypeOK, WaitInv, WaitersInv, SleepersInv, CreatorsInv, WaitersOrdered
<1>2. ~(\E pri \in [Thread -> Priority] : CalculatePriority(pri))
  BY Zenon DEF CalculatePriority
<1>3. CASE UNCHANGED priority
  <2>1. CASE waiters'[o] = waiters[o]
    BY Zenon, <1>1, <1>3, <2>1
  <2>2. CASE waiters[o] # <<>> /\ waiters'[o] = Tail(waiters[o])
    <3>1. Ordered(Tail(waiters[o]), priority)
      BY Zenon, <1>1, <2>2, TailProperties
    <3> QED BY Zenon, <1>3, <2>2, <3>1
  <2>3. CASE waiters'[o] = list_insert_ordered(waiters[o], cur, priority)
    <3>1. Ordered(list_insert_ordered(waiters[o], cur, priority), priority)
      BY Zenon, <1>1, InsertProperties
    <3> QED BY Zenon, <1>3, <2>3, <3>1
  <2> QED BY Zenon, <2>1, <2>2, <2>3, WaitersSteps DEF WaitersChange
<1>4. CASE UNCHANGED waiters /\ \A t \in Range(waiters[o]) : priority'[t] = priority[t]
  <2>1. Ordered(waiters[o], priority')
    BY Zenon, <1>1, <1>4, OrderedLocal
  <2> QED BY Zenon, <1>4, <2>1
<1> QED BY Zenon, <1>2, <1>3, <1>4, PriorityLocal

(* Without calculate_priority the lists of waiting threads are in order    *)
(* too, so sema_up wakes a thread of the highest priority.                 *)
THEOREM WaitQueuesOrdered ==
  ASSUME ~MLFQS
  PROVE  Spec => []WaitersOrdered
<1>1. Init => WaitersOrdered
  BY DEF Init, WaitersOrdered, Ordered
<1>2. IInv /\ WaitersOrdered /\ [Next]_vars => WaitersOrdered'
  BY Zenon, WaitersOrderedStep
<1> QED BY <1>1, <1>2, Invariance, PTL DEF Spec

(* Every queue that a wake-up or a switch takes the first thread of is in  *)
(* order of priority, with and without recomputed priorities, as far as    *)
(* the code sorts it.                                                      *)
THEOREM QueuesStayOrdered == Spec => []QueuesOrdered
<1>1. CASE MLFQS
  <2>1. ReadyOrdered => QueuesOrdered
    BY Zenon, <1>1 DEF QueuesOrdered
  <2> QED BY <2>1, RunQueueOrdered, PTL
<1>2. CASE ~MLFQS
  <2>1. ReadyOrdered /\ WaitersOrdered => QueuesOrdered
    BY Zenon DEF QueuesOrdered
  <2>2. Spec => []WaitersOrdered
    BY Zenon, <1>2, WaitQueuesOrdered
  <2> QED BY <2>1, <2>2, RunQueueOrdered, PTL
<1> QED BY Zenon, <1>1, <1>2

-----------------------------------------------------------------------------
(* A lock implements Mutex.  In every state that satisfies IInv a lock has *)
(* at most one owner, and `owner' names it.                                *)
OwnerNamed ==
  /\ owner = [l \in Lock |-> owner[l]]
  /\ \A l \in Lock : /\ \A t \in Thread : Owns(t, l) => owner[l] = t
                     /\ (\A t \in Thread : ~Owns(t, l)) => owner[l] = NULL

(* A lock that is taken names its holder. *)
LEMMA OwnerIs == IInv => OwnerNamed
<1> SUFFICES ASSUME IInv, NEW l \in Lock
             PROVE  /\ \A t \in Thread : Owns(t, l) => owner[l] = t
                    /\ (\A t \in Thread : ~Owns(t, l)) => owner[l] = NULL
  BY Zenon DEF OwnerNamed, owner
<1>1. owner[l] = IF \E t \in Thread : Owns(t, l) THEN CHOOSE t \in Thread : Owns(t, l) ELSE NULL
  BY Zenon DEF owner
<1>2. \A t, u \in Thread : Owns(t, l) /\ Owns(u, l) => t = u
  BY Zenon DEF IInv, MutualExclusion
<1>3. ASSUME NEW t \in Thread, Owns(t, l) PROVE (CHOOSE u \in Thread : Owns(u, l)) = t
  BY Zenon, <1>2, <1>3
<1> QED BY Zenon, <1>1, <1>3

(* The step of Mutex that a change of owners is. *)
LEMMA MutexStep ==
  ASSUME IInv, OwnersChange, OwnerNamed, OwnerNamed'
  PROVE  [M!Next]_owner
<1>1. cur \in Thread
  BY Zenon DEF IInv, TypeOK
<1>2. \A l \in Lock, t, u \in Thread : Owns(t, l) /\ Owns(u, l) => t = u
  BY Zenon DEF IInv, MutualExclusion
<1>3. \A l \in Lock : /\ \A t \in Thread : Owns(t, l) => owner[l] = t
                      /\ (\A t \in Thread : ~Owns(t, l)) => owner[l] = NULL
  BY Zenon DEF OwnerNamed
<1>4. \A l \in Lock : /\ \A t \in Thread : Owns(t, l)' => owner'[l] = t
                      /\ (\A t \in Thread : ~Owns(t, l)') => owner'[l] = NULL
  BY Zenon DEF OwnerNamed
<1>5. owner = [l \in Lock |-> owner[l]] /\ owner' = [l \in Lock |-> owner'[l]]
  BY Zenon DEF OwnerNamed
<1>6. CASE \A l \in Lock, t \in Thread : Owns(t, l)' <=> Owns(t, l)
  <2>1. \A l \in Lock : owner'[l] = owner[l]
    BY <1>3, <1>4, <1>6 DEF Owns
  <2> QED BY Zenon, <1>5, <2>1
<1>7. ASSUME NEW o \in Lock, \A t \in Thread : ~Owns(t, o),
             \A l \in Lock, t \in Thread : Owns(t, l)' <=> Owns(t, l) \/ (l = o /\ t = cur)
      PROVE  M!Acquire(cur, o)
  <2>1. owner[o] = NULL /\ owner'[o] = cur
    BY <1>1, <1>3, <1>4, <1>7 DEF Owns
  <2>2. \A l \in Lock : l # o => owner'[l] = owner[l]
    BY <1>3, <1>4, <1>7 DEF Owns
  <2>3. owner' = [owner EXCEPT ![o] = cur]
    BY Zenon, <1>5, <2>1, <2>2
  <2> QED BY Zenon, <2>1, <2>3 DEF M!Acquire
<1>8. ASSUME NEW o \in Lock, Owns(cur, o),
             \A l \in Lock, t \in Thread : Owns(t, l)' <=> Owns(t, l) /\ (l = o => t # cur)
      PROVE  M!Release(cur, o)
  <2>1. owner[o] = cur /\ owner'[o] = NULL
    BY <1>1, <1>2, <1>3, <1>4, <1>8 DEF Owns
  <2>2. \A l \in Lock : l # o => owner'[l] = owner[l]
    BY <1>3, <1>4, <1>8 DEF Owns
  <2>3. owner' = [owner EXCEPT ![o] = NULL]
    BY Zenon, <1>5, <2>1, <2>2
  <2> QED BY Zenon, <2>1, <2>3 DEF M!Release
<1> QED BY Zenon, <1>1, <1>6, <1>7, <1>8 DEF OwnersChange, M!Next

(* Locks implement Mutex: what a user of lock_acquire and lock_release may *)
(* rely on does not depend on semaphores, waiters or scheduling.           *)
THEOREM LockImplementsMutex == Spec => ImplementsMutex
<1>1. Init => M!Init
  <2> SUFFICES ASSUME Init PROVE owner = [l \in Lock |-> NULL]
    BY Zenon DEF M!Init
  <2>1. \A l \in Lock, t \in Thread : ~Owns(t, l)
    BY Zenon DEF Init, Owns
  <2> QED BY Zenon, <2>1 DEF owner
<1>2. IInv /\ OwnersChange /\ OwnerNamed /\ OwnerNamed' => [M!Next]_owner
  BY Zenon, MutexStep
<1> QED BY <1>1, <1>2, OwnerIs, NextIInv, Invariance, PTL DEF Spec, ImplementsMutex, M!Spec

-----------------------------------------------------------------------------
(* No wake-up is lost.  The threads that sema_up has woken are those in    *)
(* sema_down that are on no list.                                          *)
Downers(o) == {t \in Thread : pc[t] = "down" /\ obj[t] = o}

WokenOffList == \A o \in Object : Woken(o) = Downers(o) \ Range(waiters[o])

(* A woken thread is on no list of waiters. *)
LEMMA WokenIs == IInv => WokenOffList
<1> SUFFICES ASSUME IInv, NEW o \in Object, NEW t \in Thread, pc[t] = "down", obj[t] = o
             PROVE  status[t] \in {"READY", "RUNNING"} <=> t \notin Range(waiters[o])
  BY Zenon DEF WokenOffList, Woken, Downers
<1>1. Live(t) /\ t # Idle
  BY Zenon DEF IInv, LabelInv
<1>2. status[t] = "BLOCKED" <=> t \in Range(waiters[o])
  BY Zenon, <1>1 DEF IInv, BlockedInv, WaitInv, WaitersInv, SleepersInv, CreatorsInv
<1> QED BY Zenon, <1>1, <1>2 DEF IInv, TypeOK, Status, Live

(* What a step does to a semaphore's value and to the threads woken for it *)
(* while others wait.                                                      *)
WokenChange(o) ==
  \/ waiters'[o] = <<>>
  \/ value'[o] = 0
  \/ value'[o] = value[o] /\ Woken(o) \subseteq Woken(o)' /\ waiters[o] # <<>>
  \/ value[o] > 0 /\ value'[o] = value[o] - 1 /\ waiters[o] # <<>>
     /\ \E t \in Thread : Woken(o) \ {t} \subseteq Woken(o)'
  \/ value'[o] = value[o] + 1 /\ waiters[o] # <<>>
     /\ \E t \in Thread : t \notin Woken(o) /\ Woken(o) \cup {t} \subseteq Woken(o)'

(* While threads wait, every up still counts for a thread that was woken. *)
LEMMA CountStep ==
  ASSUME IsFiniteSet(Thread), NEW o \in Object, value[o] \in Nat, value'[o] \in Nat,
         waiters[o] # <<>> => value[o] <= Cardinality(Woken(o)),
         WokenChange(o), waiters'[o] # <<>>
  PROVE  value'[o] <= Cardinality(Woken(o)')
<1> DEFINE A == Woken(o)
<1>1. PICK B : B = Woken(o)'
  BY Zenon
<1>2. IsFiniteSet(A) /\ IsFiniteSet(B)
  BY Zenon, <1>1, FS_Subset DEF Woken
<1>3. Cardinality(A) \in Nat /\ Cardinality(B) \in Nat
  BY Zenon, <1>2, FS_CardinalityType
<1> HIDE DEF A
<1>4. CASE value'[o] = 0
  BY <1>1, <1>3, <1>4
<1>5. CASE value'[o] = value[o] /\ A \subseteq B /\ waiters[o] # <<>>
  <2>1. Cardinality(A) <= Cardinality(B)
    BY Zenon, <1>2, <1>5, FS_Subset
  <2> QED BY <1>1, <1>3, <1>5, <2>1 DEF A
<1>6. ASSUME value[o] > 0, value'[o] = value[o] - 1, waiters[o] # <<>>,
             NEW t \in Thread, A \ {t} \subseteq B
      PROVE  value'[o] <= Cardinality(B)
  <2>1. Cardinality(A \ {t}) <= Cardinality(B)
    BY Zenon, <1>2, <1>6, FS_Subset
  <2>2. Cardinality(A \ {t}) = IF t \in A THEN Cardinality(A) - 1 ELSE Cardinality(A)
    BY Zenon, <1>2, FS_RemoveElement
  <2> QED BY <1>3, <1>6, <2>1, <2>2 DEF A
<1>7. ASSUME value'[o] = value[o] + 1, waiters[o] # <<>>,
             NEW t \in Thread, t \notin A, A \cup {t} \subseteq B
      PROVE  value'[o] <= Cardinality(B)
  <2>1. Cardinality(A \cup {t}) <= Cardinality(B)
    BY Zenon, <1>2, <1>7, FS_Subset
  <2>2. Cardinality(A \cup {t}) = Cardinality(A) + 1
    BY Zenon, <1>2, <1>7, FS_AddElement
  <2> QED BY <1>3, <1>7, <2>1, <2>2 DEF A
<1>8. \/ value'[o] = 0
      \/ value'[o] = value[o] /\ A \subseteq B /\ waiters[o] # <<>>
      \/ value[o] > 0 /\ value'[o] = value[o] - 1 /\ waiters[o] # <<>>
         /\ \E t \in Thread : A \ {t} \subseteq B
      \/ value'[o] = value[o] + 1 /\ waiters[o] # <<>>
         /\ \E t \in Thread : t \notin A /\ A \cup {t} \subseteq B
  BY Zenon, <1>1 DEF WokenChange, A
<1> QED BY Zenon, <1>1, <1>4, <1>5, <1>6, <1>7, <1>8

(* A step that takes no thread out of sema_down and leaves the semaphore   *)
(* alone.                                                                  *)
Quiet(o) ==
  /\ waiters'[o] = waiters[o] /\ value'[o] = value[o]
  /\ \A t \in Thread : pc[t] = "down" /\ obj[t] = o => pc'[t] = "down" /\ obj'[t] = o

(* A step that leaves a semaphore alone wakes nobody for it. *)
LEMMA QuietStep ==
  ASSUME WokenOffList, WokenOffList', NEW o \in Object, Quiet(o)
  PROVE  WokenChange(o)
<1>1. Woken(o) = Downers(o) \ Range(waiters[o]) /\ Woken(o)' = Downers(o)' \ Range(waiters'[o])
  BY Zenon DEF WokenOffList
<1>2. Downers(o) \subseteq Downers(o)'
  BY Zenon DEF Quiet, Downers
<1>3. Woken(o) \subseteq Woken(o)'
  BY Zenon, <1>1, <1>2 DEF Quiet
<1> QED BY Zenon, <1>3 DEF Quiet, WokenChange

(* sema_up, by a thread that is not in sema_down or by an interrupt. *)
LEMMA UpWoken ==
  ASSUME IInv, WokenOffList, WokenOffList', NEW p \in Object, sema_up(p), NEW o \in Object,
         \A t \in Thread : pc[t] = "down" => pc'[t] = "down" /\ obj'[t] = obj[t]
  PROVE  WokenChange(o)
<1>1. waiters \in [Object -> Seq(Thread)] /\ value \in [Object -> Nat]
  BY Zenon DEF IInv, TypeOK
<1>2. CASE o # p
  <2>1. waiters'[o] = waiters[o] /\ value'[o] = value[o]
    BY Zenon, <1>1, <1>2 DEF sema_up
  <2> QED BY Zenon, <2>1, QuietStep DEF Quiet
<1>3. CASE o = p /\ waiters[o] = <<>>
  BY Zenon, <1>3 DEF sema_up, WokenChange
<1>4. CASE o = p /\ waiters[o] # <<>>
  <2> DEFINE h == Head(waiters[o])
  <2>1. waiters'[o] = Tail(waiters[o]) /\ value'[o] = value[o] + 1
    BY Zenon, <1>1, <1>4 DEF sema_up
  <2>2. h \in Range(waiters[o]) /\ Range(Tail(waiters[o])) = Range(waiters[o]) \ {h}
    <3>1. waiters[o] \in Seq(Thread) /\ NoDuplicates(waiters[o]) /\ priority \in [Thread -> Int]
      BY SMTT(30), <1>1, PriorityInt DEF IInv, WaitInv, WaitersInv, TypeOK
    <3> QED BY Zenon, <1>4, <3>1, TailProperties
  <2>3. h \in Thread /\ pc[h] = "down" /\ obj[h] = o
    <3>1. waiters[o] \in Seq(Thread)
      BY Zenon, <1>1
    <3>2. h \in Thread
      BY <1>4, <3>1
    <3> QED BY <2>2, <3>2 DEF IInv, WaitInv, WaitersInv, SleepersInv, CreatorsInv
  <2> HIDE DEF h
  <2>4. PICK A, B : A = Downers(o) /\ B = Downers(o)'
    BY Zenon
  <2>5. A \subseteq B /\ h \in B
    BY Zenon, <2>3, <2>4 DEF Downers
  <2>6. Woken(o) = A \ Range(waiters[o]) /\ Woken(o)' = B \ (Range(waiters[o]) \ {h})
    BY Zenon, <2>1, <2>2, <2>4 DEF WokenOffList
  <2>7. h \notin Woken(o) /\ Woken(o) \cup {h} \subseteq Woken(o)'
    BY Zenon, <2>2, <2>5, <2>6
  <2> QED BY Zenon, <1>4, <2>1, <2>3, <2>7 DEF WokenChange
<1> QED BY Zenon, <1>2, <1>3, <1>4

(* A unit taken, by cur in sema_down or by sema_try_down. *)
LEMMA TakeWoken ==
  ASSUME IInv, WokenOffList, WokenOffList', NEW o \in Object,
         DownTake \/ \E p \in Object : TryDown(p)
  PROVE  WokenChange(o)
<1>1. cur \in Thread /\ value \in [Object -> Nat] /\ pc \in [Thread -> Label]
      /\ obj \in [Thread -> Object \cup Thread \cup {NULL}]
  BY Zenon DEF IInv, TypeOK
<1>2. UNCHANGED waiters
  BY Zenon DEF DownTake, TryDown
<1>3. PICK p \in Object : /\ value[p] > 0 /\ value' = [value EXCEPT ![p] = @ - 1]
                          /\ pc[cur] = "down" => obj[cur] = p
  <2>1. CASE DownTake
    <3>1. obj[cur] \in Object
      BY Zenon, <1>1, <2>1 DEF DownTake, At, IInv, LabelInv
    <3> QED BY Zenon, <2>1, <3>1 DEF DownTake
  <2>2. CASE \E p \in Object : TryDown(p)
    BY Zenon, <2>2 DEF TryDown, At
  <2> QED BY Zenon, <2>1, <2>2
<1>4. \A t \in Thread : t # cur => pc'[t] = pc[t] /\ obj'[t] = obj[t]
  BY Zenon, <1>1 DEF DownTake, TryDown, Goto
<1>5. CASE o # p
  <2>1. value'[o] = value[o]
    BY Zenon, <1>1, <1>3, <1>5
  <2> QED BY Zenon, <1>2, <1>3, <1>4, <1>5, <2>1, QuietStep DEF Quiet
<1>6. CASE o = p
  <2>1. value[o] > 0 /\ value'[o] = value[o] - 1
    BY Zenon, <1>1, <1>3, <1>6
  <2>2. PICK A, B : A = Downers(o) /\ B = Downers(o)'
    BY Zenon
  <2>3. A \ {cur} \subseteq B
    BY Zenon, <1>4, <2>2 DEF Downers
  <2>4. Woken(o) = A \ Range(waiters[o]) /\ Woken(o)' = B \ Range(waiters[o])
    BY Zenon, <1>2, <2>2 DEF WokenOffList
  <2>5. Woken(o) \ {cur} \subseteq Woken(o)'
    BY Zenon, <2>3, <2>4
  <2> QED BY Zenon, <1>1, <1>2, <2>1, <2>5 DEF WokenChange
<1> QED BY Zenon, <1>5, <1>6

(* How a step changes who has been woken. *)
LEMMA WokenSteps ==
  ASSUME IInv, WokenOffList, WokenOffList', [Next]_vars, NEW o \in Object
  PROVE  WokenChange(o)
<1> DEFINE Stay == \A t \in Thread : pc[t] = "down" => pc'[t] = "down" /\ obj'[t] = obj[t]
<1>1. /\ cur \in Thread /\ pc \in [Thread -> Label]
      /\ obj \in [Thread -> Object \cup Thread \cup {NULL}]
      /\ waiters \in [Object -> Seq(Thread)]
  BY Zenon DEF IInv, TypeOK
<1>2. CASE UNCHANGED <<waiters, value>> /\ Stay
  BY Zenon, <1>2, QuietStep DEF Quiet
<1>3. CASE UNCHANGED <<waiters, value, pc, obj>>
  BY Zenon, <1>2, <1>3
<1>4. \A l, x : Goto(l, x) /\ pc[cur] # "down" => Stay
  BY Zenon, <1>1 DEF Goto
<1>5. CASE KernelStep
  <2>1. CASE CreateUnblock
    <3>1. pc[cur] = "create" /\ obj[cur] \in Thread /\ pc[obj[cur]] = "start"
      BY Zenon, <1>1, <2>1 DEF CreateUnblock, At, IInv, WaitInv, WaitersInv, SleepersInv,
         CreatorsInv
    <3>2. Stay
      BY Zenon, <1>1, <2>1, <3>1 DEF CreateUnblock
    <3> QED BY Zenon, <1>2, <2>1, <3>2 DEF CreateUnblock, syncVars
  <2>2. CASE DownWait
    <3>1. /\ value[obj[cur]] = 0 /\ UNCHANGED <<value, pc, obj>>
          /\ \A p \in Object : p # obj[cur] => waiters'[p] = waiters[p]
      BY Zenon, <1>1, <2>2 DEF DownWait
    <3>2. CASE o = obj[cur]
      BY Zenon, <3>1, <3>2 DEF WokenChange
    <3>3. CASE o # obj[cur]
      BY Zenon, <3>1, <3>3, QuietStep DEF Quiet
    <3> QED BY Zenon, <3>2, <3>3
  <2>3. CASE ReleaseUp
    <3>1. obj[cur] \in Object /\ sema_up(obj[cur]) /\ Stay
      BY Zenon, <1>1, <1>4, <2>3 DEF ReleaseUp, At, IInv, LabelInv, Object
    <3> QED BY Zenon, <3>1, UpWoken
  <2>4. CASE SleepReturn \/ SetHolder \/ (At("yield") /\ ThreadYield)
    BY Zenon, <1>2, <1>4, <2>4 DEF SleepReturn, SetHolder, ThreadYield, At, syncVars
  <2>5. CASE IdleBlock
    BY Zenon, <1>3, <2>5 DEF IdleBlock, syncVars
  <2> QED BY Zenon, <1>5, <2>1, <2>2, <2>3, <2>4, <2>5, TakeWoken DEF KernelStep
<1>6. CASE Call
  <2>1. ASSUME NEW t \in Thread, NEW p \in Priority, ThreadCreate(t, p) PROVE WokenChange(o)
    <3>1. pc[cur] = "run" /\ pc[t] = "run"
      BY Zenon, <1>1, <2>1 DEF ThreadCreate, At, IInv, LabelInv, Live
    <3>2. Stay
      BY Zenon, <1>1, <2>1, <3>1 DEF ThreadCreate
    <3> QED BY Zenon, <1>2, <2>1, <3>2 DEF ThreadCreate, syncVars
  <2>2. CASE ThreadExit
    BY Zenon, <1>3, <2>2 DEF ThreadExit, syncVars
  <2>3. CASE \/ \E p \in Priority : ThreadSetPriority(p)
             \/ At("run") /\ ThreadYield
             \/ ThreadBlockWithTime
             \/ \E s \in Sema : SemaDown(s)
             \/ \E l \in Lock : LockAcquire(l) \/ LockRelease(l)
    BY Zenon, <1>2, <1>4, <2>3 DEF ThreadSetPriority, ThreadYield, ThreadBlockWithTime, SemaDown,
       LockAcquire, LockRelease, At, syncVars
  <2>4. ASSUME NEW s \in Sema, SemaUp(s) PROVE WokenChange(o)
    <3>1. s \in Object /\ sema_up(s) /\ Stay
      BY Zenon, <1>4, <2>4 DEF SemaUp, At, Object
    <3> QED BY Zenon, <3>1, UpWoken
  <2> QED BY Zenon, <1>6, <2>1, <2>2, <2>3, <2>4, TakeWoken DEF Call
<1>7. CASE TimerInterrupt
  BY Zenon, <1>3, <1>7 DEF TimerInterrupt, syncVars
<1>8. CASE Handler
  BY Zenon, <1>3, <1>8 DEF Handler, BlockCheck, BlockCheckDone, CalculatePriority, IntrReturn,
     syncVars
<1>9. ASSUME NEW s \in IrqSema, DeviceInterrupt(s) PROVE WokenChange(o)
  <2>1. s \in Object /\ sema_up(s) /\ Stay
    BY Zenon, <1>9 DEF DeviceInterrupt, Object
  <2> QED BY Zenon, <2>1, UpWoken
<1>10. CASE UNCHANGED vars
  BY Zenon, <1>3, <1>10 DEF vars
<1> QED BY Zenon, <1>5, <1>6, <1>7, <1>8, <1>9, <1>10 DEF Next

(* For any finite number of threads: while threads wait for a semaphore,   *)
(* its value never exceeds the number of threads woken to take it.  So a   *)
(* unit is never left lying while a thread that wants it sleeps.           *)
THEOREM WakeupsKept ==
  ASSUME IsFiniteSet(Thread)
  PROVE  Spec => []NoLostWakeup
<1>1. Init => NoLostWakeup
  BY Zenon DEF Init, NoLostWakeup
<1>2. IInv /\ IInv' /\ WokenOffList /\ WokenOffList' /\ NoLostWakeup /\ [Next]_vars => NoLostWakeup'
  <2> SUFFICES ASSUME IInv, IInv', WokenOffList, WokenOffList', NoLostWakeup, [Next]_vars,
                      NEW o \in Object, waiters'[o] # <<>>
               PROVE  value'[o] <= Cardinality(Woken(o)')
    BY Zenon DEF NoLostWakeup
  <2>1. value[o] \in Nat /\ value'[o] \in Nat
    BY Zenon DEF IInv, TypeOK
  <2>2. waiters[o] # <<>> => value[o] <= Cardinality(Woken(o))
    BY Zenon DEF NoLostWakeup
  <2>3. WokenChange(o)
    BY Zenon, WokenSteps
  <2> QED BY Zenon, <2>1, <2>2, <2>3, CountStep
<1> QED BY <1>1, <1>2, WokenIs, Invariance, PTL DEF Spec
=============================================================================
