---------------------------- MODULE SerialProofs ----------------------------
(***************************************************************************)
(* Proofs about the console's input and output (module Serial), for any    *)
(* number of readers and writers and queues of any size: nobody is         *)
(* forgotten, and the queues are first-in first-out buffers.               *)
(***************************************************************************)
EXTENDS Serial, SequenceTheorems, TLAPS

QueueName == {"buffer", "txq"}
Queues ==
  [buf : [Slot -> Byte \cup {NULL}], head : Slot, tail : Slot, lock : Thread \cup {NULL},
   not_empty : Thread \cup {NULL}, not_full : Thread \cup {NULL}]

(* Who may be in the fields of a queue: a queue is locked and waited for   *)
(* by the threads that use it, and by each for its own condition.          *)
Owners(qs) ==
  /\ qs["buffer"].lock \in Reader \cup {NULL} /\ qs["buffer"].not_empty \in Reader \cup {NULL}
  /\ qs["buffer"].not_full = NULL
  /\ qs["txq"].lock \in Writer \cup {NULL} /\ qs["txq"].not_full \in Writer \cup {NULL}
  /\ qs["txq"].not_empty = NULL

(* SleepersKnown and LockedOutKnown of queues qs and labels pcs. *)
Sleepers(qs, pcs) ==
  \A t \in Thread :
    /\ pcs[t] = "waiting" <=> qs[Queue(t)][Cond(t)] = t
    /\ pcs[t] = "waiting" => MustWait(t, qs[Queue(t)])
    /\ pcs[t] \in {"waiting", "woken"} <=> qs[Queue(t)].lock = t
LockedOut(qs, pcs) ==
  \A t \in Thread : pcs[t] = "locked_out" =>
    \/ qs[Queue(t)].lock # NULL
    \/ \E u \in Thread : Queue(u) = Queue(t) /\ pcs[u] = "retry"

Good(qs, pcs) ==
  /\ qs \in [QueueName -> Queues] /\ pcs \in [Thread -> Label]
  /\ Owners(qs) /\ Sleepers(qs, pcs) /\ LockedOut(qs, pcs)

(* A writer that has to wait keeps its byte. *)
BytesKept ==
  \A t \in Writer : pc[t] \in {"waiting", "woken", "locked_out", "retry"} => byte[t] \in Byte

IInv == TypeOK /\ (irq # "panic" => Good(intq, pc)) /\ BytesKept /\ InterruptsEnabled

-----------------------------------------------------------------------------
(* A position in a queue, and one that has been taken round. *)
LEMMA Modulo ==
  ASSUME NEW x \in 0 .. 2 * INTQ_BUFSIZE - 1
  PROVE  x % INTQ_BUFSIZE = IF x < INTQ_BUFSIZE THEN x ELSE x - INTQ_BUFSIZE
BY ConstantsAssumption

(* next stays within the buffer. *)
LEMMA NextSlot ==
  ASSUME NEW i \in Slot
  PROVE  next(i) \in Slot /\ next(i) = IF i = INTQ_BUFSIZE - 1 THEN 0 ELSE i + 1
<1>1. i + 1 \in 0 .. 2 * INTQ_BUFSIZE - 1
  BY ConstantsAssumption DEF Slot
<1> QED BY <1>1, Modulo, ConstantsAssumption DEF Slot, next

(* What intq_putc and intq_getc leave in the fields of a queue. *)
LEMMA AddedFields ==
  ASSUME NEW q \in Queues, NEW b \in Byte \cup {NULL}
  PROVE  /\ Added(q, b) \in Queues
         /\ Added(q, b).buf = [q.buf EXCEPT ![q.head] = b]
         /\ Added(q, b).head = next(q.head) /\ Added(q, b).tail = q.tail
         /\ Added(q, b).lock = q.lock
         /\ Added(q, b).not_empty = NULL /\ Added(q, b).not_full = q.not_full
<1>1. next(q.head) \in Slot
  BY Zenon, NextSlot DEF Queues
<1> QED BY Zenon, <1>1 DEF Queues, Added

(* What intq_getc leaves of a queue. *)
LEMMA RemovedFields ==
  ASSUME NEW q \in Queues
  PROVE  /\ Removed(q) \in Queues
         /\ Removed(q).buf = [q.buf EXCEPT ![q.tail] = NULL]
         /\ Removed(q).head = q.head /\ Removed(q).tail = next(q.tail)
         /\ Removed(q).lock = q.lock
         /\ Removed(q).not_full = NULL /\ Removed(q).not_empty = q.not_empty
<1>1. next(q.tail) \in Slot
  BY Zenon, NextSlot DEF Queues
<1> QED BY Zenon, <1>1 DEF Queues, Removed

(* What wait() leaves in the fields of a queue. *)
Waited(q, t) == [q EXCEPT !.lock = t, ![Cond(t)] = t]

(* What wait changes of a queue. *)
LEMMA WaitFields ==
  ASSUME NEW q \in Queues, NEW t \in Thread, NEW w, w = Waited(q, t)
  PROVE  /\ w \in Queues
         /\ w.buf = q.buf /\ w.head = q.head /\ w.tail = q.tail
         /\ w.lock = t /\ w[Cond(t)] = t
         /\ t \in Reader => w.not_empty = t /\ w.not_full = q.not_full
         /\ t \notin Reader => w.not_full = t /\ w.not_empty = q.not_empty
<1>1. CASE t \in Reader
  BY Zenon, <1>1 DEF Queues, Cond, Waited
<1>2. CASE t \notin Reader
  BY Zenon, <1>2 DEF Queues, Cond, Waited
<1> QED BY Zenon, <1>1, <1>2

-----------------------------------------------------------------------------
(* signal() wakes the thread in the condition, and no other. *)
LEMMA Signalled ==
  ASSUME NEW pcs \in [Thread -> Label], NEW w \in Thread \cup {NULL}
  PROVE  /\ signal(pcs, w) \in [Thread -> Label]
         /\ \A u \in Thread : signal(pcs, w)[u] = IF u = w THEN "woken" ELSE pcs[u]
BY Zenon, ConstantsAssumption DEF signal, Thread, Label

(* intq_putc keeps the queues good: whoever waits for a byte is woken. *)
LEMMA PutKeeps ==
  ASSUME NEW qs, NEW pcs, NEW k \in QueueName, NEW b \in Byte \cup {NULL},
         Good(qs, pcs), ~intq_full(qs[k])
  PROVE  Good([qs EXCEPT ![k] = Added(qs[k], b)], signal(pcs, qs[k].not_empty))
<1> DEFINE q == qs[k]
           a == Added(qs[k], b)
           after == [qs EXCEPT ![k] = a]
           pc2 == signal(pcs, qs[k].not_empty)
<1>1. q \in Queues /\ qs \in [QueueName -> Queues]
  BY Zenon DEF Good
<1>2. q.not_empty \in Thread \cup {NULL}
  BY Zenon, <1>1 DEF Queues
<1>3. /\ a \in Queues /\ a.head = next(q.head) /\ a.tail = q.tail
      /\ a.lock = q.lock /\ a.not_empty = NULL /\ a.not_full = q.not_full
  BY Zenon, <1>1, AddedFields
<1>4. /\ pc2 \in [Thread -> Label]
      /\ \A u \in Thread : pc2[u] = IF u = q.not_empty THEN "woken" ELSE pcs[u]
  BY Zenon, <1>2, Signalled DEF Good
<1> HIDE DEF a, pc2
<1>5. after \in [QueueName -> Queues] /\ after[k] = a /\ \A j \in QueueName \ {k} : after[j] = qs[j]
  BY Zenon, <1>1, <1>3
<1> HIDE DEF after
<1>6. Owners(after)
  BY Zenon, <1>3, <1>5 DEF Good, Owners, QueueName
<1>7. ASSUME NEW t \in Thread
      PROVE  /\ pc2[t] = "waiting" <=> after[Queue(t)][Cond(t)] = t
             /\ pc2[t] = "waiting" => MustWait(t, after[Queue(t)])
             /\ pc2[t] \in {"waiting", "woken"} <=> after[Queue(t)].lock = t
  <2>1. /\ pcs[t] = "waiting" <=> qs[Queue(t)][Cond(t)] = t
        /\ pcs[t] = "waiting" => MustWait(t, qs[Queue(t)])
        /\ pcs[t] \in {"waiting", "woken"} <=> qs[Queue(t)].lock = t
    BY Zenon DEF Good, Sleepers
  <2>2. t # NULL /\ Queue(t) \in QueueName
    BY Zenon, ConstantsAssumption DEF Thread, Queue, QueueName
  <2>3. CASE t \in Reader
    <3>1. Queue(t) = "buffer" /\ Cond(t) = "not_empty" /\ t \notin Writer
      BY Zenon, <2>3, ConstantsAssumption DEF Queue, Cond
    <3>2. CASE k = "buffer"
      BY <1>3, <1>4, <1>5, <2>1, <2>2, <2>3, <3>1, <3>2
    <3>3. CASE k # "buffer"
      <4>1. after["buffer"] = qs["buffer"] /\ q.not_empty = NULL
        BY Zenon, <1>5, <3>3 DEF Good, Owners, QueueName
      <4> QED BY Zenon, <1>4, <2>1, <2>2, <3>1, <4>1
    <3> QED BY Zenon, <3>2, <3>3
  <2>4. CASE t \notin Reader
    <3>1. Queue(t) = "txq" /\ Cond(t) = "not_full" /\ t \in Writer
      BY Zenon, <2>4 DEF Queue, Cond, Thread
    <3>2. q.not_empty # t
      BY Zenon, <2>2, <2>4 DEF Good, Owners, QueueName
    <3>3. CASE k = "txq"
      <4>1. pcs[t] # "waiting"
        BY Zenon, <2>1, <2>4, <3>1, <3>3 DEF MustWait
      <4> QED BY Zenon, <1>3, <1>4, <1>5, <2>1, <3>1, <3>2, <3>3, <4>1
    <3>4. CASE k # "txq"
      BY Zenon, <1>4, <1>5, <2>1, <2>2, <3>1, <3>2, <3>4
    <3> QED BY Zenon, <3>3, <3>4
  <2> QED BY Zenon, <2>3, <2>4
<1>8. Sleepers(after, pc2)
  BY Zenon, <1>7 DEF Sleepers
<1>9. ASSUME NEW t \in Thread, pc2[t] = "locked_out"
      PROVE  \/ after[Queue(t)].lock # NULL
             \/ \E u \in Thread : Queue(u) = Queue(t) /\ pc2[u] = "retry"
  <2>1. pcs[t] = "locked_out"
    BY Zenon, <1>4, <1>9
  <2>2. Queue(t) \in QueueName
    BY Zenon DEF Queue, QueueName
  <2>3. after[Queue(t)].lock = qs[Queue(t)].lock
    BY Zenon, <1>3, <1>5, <2>2
  <2>4. CASE qs[Queue(t)].lock # NULL
    BY Zenon, <2>3, <2>4
  <2>5. CASE qs[Queue(t)].lock = NULL
    <3>1. PICK u \in Thread : Queue(u) = Queue(t) /\ pcs[u] = "retry"
      BY Zenon, <2>1, <2>5 DEF Good, LockedOut
    <3>2. q.not_empty # u
      <4>1. q.not_empty = u => u \in Reader /\ k = "buffer"
        BY Zenon, ConstantsAssumption DEF Good, Owners, QueueName, Thread
      <4>2. q.not_empty = u => pcs[u] = "waiting"
        BY Zenon, <4>1 DEF Good, Sleepers, Queue, Cond
      <4> QED BY Zenon, <3>1, <4>2
    <3> QED BY Zenon, <1>4, <3>1, <3>2
  <2> QED BY Zenon, <2>4, <2>5
<1>10. LockedOut(after, pc2)
  BY Zenon, <1>9 DEF LockedOut
<1> QED BY Zenon, <1>4, <1>5, <1>6, <1>8, <1>10 DEF Good, after, a, pc2

(* intq_getc keeps the queues good: whoever waits for room is woken. *)
LEMMA GetKeeps ==
  ASSUME NEW qs, NEW pcs, NEW k \in QueueName,
         Good(qs, pcs), ~intq_empty(qs[k])
  PROVE  Good([qs EXCEPT ![k] = Removed(qs[k])], signal(pcs, qs[k].not_full))
<1> DEFINE q == qs[k]
           a == Removed(qs[k])
           after == [qs EXCEPT ![k] = a]
           pc2 == signal(pcs, qs[k].not_full)
<1>1. q \in Queues /\ qs \in [QueueName -> Queues]
  BY Zenon DEF Good
<1>2. q.not_full \in Thread \cup {NULL}
  BY Zenon, <1>1 DEF Queues
<1>3. /\ a \in Queues /\ a.head = q.head /\ a.tail = next(q.tail)
      /\ a.lock = q.lock /\ a.not_full = NULL /\ a.not_empty = q.not_empty
  BY Zenon, <1>1, RemovedFields
<1>4. /\ pc2 \in [Thread -> Label]
      /\ \A u \in Thread : pc2[u] = IF u = q.not_full THEN "woken" ELSE pcs[u]
  BY Zenon, <1>2, Signalled DEF Good
<1> HIDE DEF a, pc2
<1>5. after \in [QueueName -> Queues] /\ after[k] = a /\ \A j \in QueueName \ {k} : after[j] = qs[j]
  BY Zenon, <1>1, <1>3
<1> HIDE DEF after
<1>6. Owners(after)
  BY Zenon, <1>3, <1>5 DEF Good, Owners, QueueName
<1>7. ASSUME NEW t \in Thread
      PROVE  /\ pc2[t] = "waiting" <=> after[Queue(t)][Cond(t)] = t
             /\ pc2[t] = "waiting" => MustWait(t, after[Queue(t)])
             /\ pc2[t] \in {"waiting", "woken"} <=> after[Queue(t)].lock = t
  <2>1. /\ pcs[t] = "waiting" <=> qs[Queue(t)][Cond(t)] = t
        /\ pcs[t] = "waiting" => MustWait(t, qs[Queue(t)])
        /\ pcs[t] \in {"waiting", "woken"} <=> qs[Queue(t)].lock = t
    BY Zenon DEF Good, Sleepers
  <2>2. t # NULL /\ Queue(t) \in QueueName
    BY Zenon, ConstantsAssumption DEF Thread, Queue, QueueName
  <2>3. CASE t \in Reader
    <3>1. Queue(t) = "buffer" /\ Cond(t) = "not_empty" /\ t \notin Writer
      BY Zenon, <2>3, ConstantsAssumption DEF Queue, Cond
    <3>2. q.not_full # t
      BY Zenon, <2>2, <3>1 DEF Good, Owners, QueueName
    <3>3. CASE k = "buffer"
      <4>1. pcs[t] # "waiting"
        BY Zenon, <2>1, <2>3, <3>1, <3>3 DEF MustWait
      <4> QED BY Zenon, <1>3, <1>4, <1>5, <2>1, <3>1, <3>2, <3>3, <4>1
    <3>4. CASE k # "buffer"
      BY Zenon, <1>4, <1>5, <2>1, <2>2, <3>1, <3>2, <3>4
    <3> QED BY Zenon, <3>3, <3>4
  <2>4. CASE t \notin Reader
    <3>1. Queue(t) = "txq" /\ Cond(t) = "not_full" /\ t \in Writer
      BY Zenon, <2>4 DEF Queue, Cond, Thread
    <3>2. CASE k = "txq"
      BY <1>3, <1>4, <1>5, <2>1, <2>2, <3>1, <3>2
    <3>3. CASE k # "txq"
      <4>1. after["txq"] = qs["txq"] /\ q.not_full = NULL
        BY Zenon, <1>5, <3>3 DEF Good, Owners, QueueName
      <4> QED BY Zenon, <1>4, <2>1, <2>2, <3>1, <4>1
    <3> QED BY Zenon, <3>2, <3>3
  <2> QED BY Zenon, <2>3, <2>4
<1>8. Sleepers(after, pc2)
  BY Zenon, <1>7 DEF Sleepers
<1>9. ASSUME NEW t \in Thread, pc2[t] = "locked_out"
      PROVE  \/ after[Queue(t)].lock # NULL
             \/ \E u \in Thread : Queue(u) = Queue(t) /\ pc2[u] = "retry"
  <2>1. pcs[t] = "locked_out"
    BY Zenon, <1>4, <1>9
  <2>2. Queue(t) \in QueueName
    BY Zenon DEF Queue, QueueName
  <2>3. after[Queue(t)].lock = qs[Queue(t)].lock
    BY Zenon, <1>3, <1>5, <2>2
  <2>4. CASE qs[Queue(t)].lock # NULL
    BY Zenon, <2>3, <2>4
  <2>5. CASE qs[Queue(t)].lock = NULL
    <3>1. PICK u \in Thread : Queue(u) = Queue(t) /\ pcs[u] = "retry"
      BY Zenon, <2>1, <2>5 DEF Good, LockedOut
    <3>2. q.not_full # u
      <4>1. q.not_full = u => u \in Writer /\ k = "txq"
        BY Zenon, ConstantsAssumption DEF Good, Owners, QueueName, Thread
      <4>2. q.not_full = u => pcs[u] = "waiting"
        BY Zenon, <4>1, ConstantsAssumption DEF Good, Sleepers, Queue, Cond
      <4> QED BY Zenon, <3>1, <4>2
    <3> QED BY Zenon, <1>4, <3>1, <3>2
  <2> QED BY Zenon, <2>4, <2>5
<1>10. LockedOut(after, pc2)
  BY Zenon, <1>9 DEF LockedOut
<1> QED BY Zenon, <1>4, <1>5, <1>6, <1>8, <1>10 DEF Good, after, a, pc2

(* A thread that sleeps nowhere goes into wait(). *)
LEMMA WaitKeeps ==
  ASSUME NEW qs, NEW pcs, NEW t \in Thread, NEW w, NEW l \in Label \ {"waiting", "woken"},
         Good(qs, [pcs EXCEPT ![t] = l]), pcs \in [Thread -> Label],
         qs[Queue(t)].lock = NULL, MustWait(t, qs[Queue(t)]),
         w = Waited(qs[Queue(t)], t)
  PROVE  Good([qs EXCEPT ![Queue(t)] = w], [pcs EXCEPT ![t] = "waiting"])
<1> DEFINE k == Queue(t)
           old == [pcs EXCEPT ![t] = l]
           pc2 == [pcs EXCEPT ![t] = "waiting"]
           after == [qs EXCEPT ![k] = w]
<1>1. k \in QueueName /\ t # NULL /\ t \in Reader \cup Writer
  BY Zenon, ConstantsAssumption DEF Queue, QueueName, Thread
<1>2. qs \in [QueueName -> Queues] /\ qs[k] \in Queues
  BY Zenon, <1>1 DEF Good
<1>3. /\ w \in Queues /\ w.head = qs[k].head /\ w.tail = qs[k].tail
      /\ w.lock = t /\ w[Cond(t)] = t
      /\ t \in Reader => w.not_empty = t /\ w.not_full = qs[k].not_full
      /\ t \notin Reader => w.not_full = t /\ w.not_empty = qs[k].not_empty
  BY <1>2, WaitFields
<1>4. after \in [QueueName -> Queues] /\ after[k] = w /\ \A j \in QueueName \ {k} : after[j] = qs[j]
  BY Zenon, <1>1, <1>2, <1>3
<1>5. /\ pc2 \in [Thread -> Label] /\ pc2[t] = "waiting" /\ old[t] = l
      /\ \A u \in Thread \ {t} : pc2[u] = old[u]
  BY Zenon DEF Label
<1>6. Owners(qs) /\ Sleepers(qs, old) /\ LockedOut(qs, old)
  BY Zenon DEF Good
<1> HIDE DEF after, pc2, old, k
<1>7. Owners(after)
  <2>1. CASE t \in Reader
    BY Zenon, <1>3, <1>4, <1>6, <2>1 DEF Owners, QueueName, k, Queue
  <2>2. CASE t \notin Reader
    BY Zenon, <1>1, <1>3, <1>4, <1>6, <2>2 DEF Owners, QueueName, k, Queue
  <2> QED BY Zenon, <2>1, <2>2
<1>8. ASSUME NEW u \in Thread
      PROVE  /\ pc2[u] = "waiting" <=> after[Queue(u)][Cond(u)] = u
             /\ pc2[u] = "waiting" => MustWait(u, after[Queue(u)])
             /\ pc2[u] \in {"waiting", "woken"} <=> after[Queue(u)].lock = u
  <2>1. CASE u = t
    BY Zenon, <1>3, <1>4, <1>5, <2>1 DEF k, MustWait, intq_empty, intq_full
  <2>2. CASE u # t
    <3>1. /\ old[u] = "waiting" <=> qs[Queue(u)][Cond(u)] = u
          /\ old[u] = "waiting" => MustWait(u, qs[Queue(u)])
          /\ old[u] \in {"waiting", "woken"} <=> qs[Queue(u)].lock = u
          /\ pc2[u] = old[u] /\ Queue(u) \in QueueName /\ u # NULL
      BY Zenon, <1>5, <1>6, <2>2, ConstantsAssumption DEF Sleepers, Queue, QueueName, Thread
    <3>2. CASE Queue(u) = k
      <4>1. Cond(u) = Cond(t)
        BY Zenon, <3>2 DEF k, Queue, Cond
      <4> QED BY Zenon, <1>3, <1>4, <2>2, <3>1, <3>2, <4>1 DEF k
    <3>3. CASE Queue(u) # k
      BY Zenon, <1>4, <3>1, <3>3
    <3> QED BY Zenon, <3>2, <3>3
  <2> QED BY Zenon, <2>1, <2>2
<1>9. Sleepers(after, pc2)
  BY Zenon, <1>8 DEF Sleepers
<1>10. ASSUME NEW u \in Thread, pc2[u] = "locked_out"
       PROVE  \/ after[Queue(u)].lock # NULL
              \/ \E x \in Thread : Queue(x) = Queue(u) /\ pc2[x] = "retry"
  <2>1. u # t /\ old[u] = "locked_out" /\ Queue(u) \in QueueName
    BY Zenon, <1>5, <1>10 DEF Queue, QueueName
  <2>2. CASE Queue(u) = k
    BY Zenon, <1>1, <1>3, <1>4, <2>2
  <2>3. CASE Queue(u) # k
    <3>1. after[Queue(u)] = qs[Queue(u)]
      BY Zenon, <1>4, <2>1, <2>3
    <3>2. CASE qs[Queue(u)].lock # NULL
      BY Zenon, <3>1, <3>2
    <3>3. CASE qs[Queue(u)].lock = NULL
      <4>1. PICK x \in Thread : Queue(x) = Queue(u) /\ old[x] = "retry"
        BY Zenon, <1>6, <2>1, <3>3 DEF LockedOut
      <4>2. x # t
        BY Zenon, <2>3, <4>1 DEF k
      <4> QED BY Zenon, <1>5, <4>1, <4>2
    <3> QED BY Zenon, <3>2, <3>3
  <2> QED BY Zenon, <2>2, <2>3
<1>11. LockedOut(after, pc2)
  BY Zenon, <1>10 DEF LockedOut
<1> QED BY Zenon, <1>4, <1>5, <1>7, <1>9, <1>11 DEF Good, after, pc2, k

(* A thread that holds no lock gets another label. *)
LEMMA LabelKeeps ==
  ASSUME NEW qs, NEW pcs, NEW t \in Thread, NEW l \in {"run", "print", "locked_out"},
         Good(qs, pcs), pcs[t] \notin {"waiting", "woken"},
         qs[Queue(t)].lock # NULL \/ (pcs[t] # "retry" /\ l # "locked_out")
  PROVE  Good(qs, [pcs EXCEPT ![t] = l])
<1> DEFINE pc2 == [pcs EXCEPT ![t] = l]
<1>1. qs \in [QueueName -> Queues] /\ Owners(qs) /\ Sleepers(qs, pcs) /\ LockedOut(qs, pcs)
  BY Zenon DEF Good
<1>2. pc2 \in [Thread -> Label] /\ pc2[t] = l /\ \A u \in Thread \ {t} : pc2[u] = pcs[u]
  BY Zenon DEF Good, Label
<1> HIDE DEF pc2
<1>3. Sleepers(qs, pc2)
  BY Zenon, <1>1, <1>2 DEF Sleepers
<1>4. ASSUME NEW u \in Thread, pc2[u] = "locked_out", qs[Queue(u)].lock = NULL
      PROVE  \E x \in Thread : Queue(x) = Queue(u) /\ pc2[x] = "retry"
  <2>1. u # t /\ pcs[u] = "locked_out"
    BY Zenon, <1>2, <1>4
  <2>2. PICK x \in Thread : Queue(x) = Queue(u) /\ pcs[x] = "retry"
    BY Zenon, <1>1, <1>4, <2>1 DEF LockedOut
  <2>3. x # t
    BY Zenon, <1>4, <2>2
  <2> QED BY Zenon, <1>2, <2>2, <2>3
<1>5. LockedOut(qs, pc2)
  BY Zenon, <1>4 DEF LockedOut
<1> QED BY Zenon, <1>1, <1>2, <1>3, <1>5 DEF Good, pc2

(* lock_release of a queue's lock after wait(): a thread that was locked   *)
(* out is woken, if there is one.                                          *)
LEMMA ReleaseKeeps ==
  ASSUME NEW qs, NEW pcs, NEW t \in Thread, NEW pc1, Good(qs, pcs), pcs[t] = "woken",
         \/ /\ {u \in Thread : Queue(u) = Queue(t) /\ pcs[u] = "locked_out"} = {}
            /\ pc1 = pcs
         \/ \E u \in Thread : /\ Queue(u) = Queue(t) /\ pcs[u] = "locked_out"
                              /\ pc1 = [pcs EXCEPT ![u] = "retry"]
  PROVE  /\ Good([qs EXCEPT ![Queue(t)].lock = NULL], [pc1 EXCEPT ![t] = "run"])
         /\ pc1 \in [Thread -> Label]
<1> DEFINE k == Queue(t)
           r == [qs[k] EXCEPT !.lock = NULL]
           after == [qs EXCEPT ![k] = r]
           pc2 == [pc1 EXCEPT ![t] = "run"]
<1>1. qs \in [QueueName -> Queues] /\ Owners(qs) /\ Sleepers(qs, pcs) /\ LockedOut(qs, pcs)
  BY Zenon DEF Good
<1>2. k \in QueueName
  BY Zenon DEF Queue, QueueName
<1>3. /\ r \in Queues /\ r.head = qs[k].head /\ r.tail = qs[k].tail /\ r.lock = NULL
      /\ r.not_empty = qs[k].not_empty /\ r.not_full = qs[k].not_full
  BY Zenon, <1>1, <1>2 DEF Queues
<1>4. after \in [QueueName -> Queues] /\ after[k] = r /\ \A j \in QueueName \ {k} : after[j] = qs[j]
  BY Zenon, <1>1, <1>2, <1>3
<1>5. /\ pc1 \in [Thread -> Label]
      /\ \A u \in Thread : pc1[u] = pcs[u] \/ (pcs[u] = "locked_out" /\ pc1[u] = "retry")
  BY Zenon DEF Good, Label
<1>6. \A u \in Thread : Queue(u) = k /\ pcs[u] = "locked_out" =>
                          \E x \in Thread : Queue(x) = k /\ pcs[x] = "locked_out" /\ pc1[x] = "retry"
  BY Zenon, <1>5 DEF Good
<1>7. pc2 \in [Thread -> Label] /\ pc2[t] = "run" /\ \A u \in Thread \ {t} : pc2[u] = pc1[u]
  BY Zenon, <1>5 DEF Label
<1> HIDE DEF after, pc2, r
<1>8. Owners(after)
  BY Zenon, <1>1, <1>2, <1>3, <1>4 DEF Owners, QueueName
<1>9. ASSUME NEW u \in Thread
      PROVE  /\ pc2[u] = "waiting" <=> after[Queue(u)][Cond(u)] = u
             /\ pc2[u] = "waiting" => MustWait(u, after[Queue(u)])
             /\ pc2[u] \in {"waiting", "woken"} <=> after[Queue(u)].lock = u
  <2>1. /\ pcs[u] = "waiting" <=> qs[Queue(u)][Cond(u)] = u
        /\ pcs[u] = "waiting" => MustWait(u, qs[Queue(u)])
        /\ pcs[u] \in {"waiting", "woken"} <=> qs[Queue(u)].lock = u
        /\ pcs[t] \in {"waiting", "woken"} <=> qs[Queue(t)].lock = t
        /\ Queue(u) \in QueueName /\ u # NULL
    BY Zenon, <1>1, ConstantsAssumption DEF Sleepers, Queue, QueueName, Thread
  <2>2. CASE Queue(u) = k
    <3>1. after[k][Cond(u)] = qs[k][Cond(u)] /\ (MustWait(u, after[k]) <=> MustWait(u, qs[k]))
      BY Zenon, <1>3, <1>4 DEF Cond, MustWait, intq_empty, intq_full
    <3>2. u # t => pcs[u] \notin {"waiting", "woken"}
      BY Zenon, <2>1, <2>2
    <3> QED BY <1>3, <1>4, <1>5, <1>7, <2>1, <2>2, <3>1, <3>2
  <2>3. CASE Queue(u) # k
    <3>1. u # t /\ after[Queue(u)] = qs[Queue(u)]
      BY Zenon, <1>4, <2>1, <2>3
    <3> QED BY Zenon, <1>5, <1>7, <2>1, <3>1
  <2> QED BY Zenon, <2>2, <2>3
<1>10. Sleepers(after, pc2)
  BY Zenon, <1>9 DEF Sleepers
<1>11. ASSUME NEW u \in Thread, pc2[u] = "locked_out", after[Queue(u)].lock = NULL
       PROVE  \E x \in Thread : Queue(x) = Queue(u) /\ pc2[x] = "retry"
  <2>1. u # t /\ pcs[u] = "locked_out" /\ Queue(u) \in QueueName
    BY Zenon, <1>5, <1>7, <1>11 DEF Queue, QueueName
  <2>2. CASE Queue(u) = k
    <3>1. PICK x \in Thread : Queue(x) = k /\ pcs[x] = "locked_out" /\ pc1[x] = "retry"
      BY Zenon, <1>6, <2>1, <2>2
    <3> QED BY Zenon, <1>7, <2>2, <3>1
  <2>3. CASE Queue(u) # k
    <3>1. after[Queue(u)] = qs[Queue(u)]
      BY Zenon, <1>4, <2>1, <2>3
    <3>2. PICK x \in Thread : Queue(x) = Queue(u) /\ pcs[x] = "retry"
      BY Zenon, <1>1, <1>11, <2>1, <3>1 DEF LockedOut
    <3> QED BY Zenon, <1>5, <1>7, <3>2
  <2> QED BY Zenon, <2>2, <2>3
<1>12. LockedOut(after, pc2)
  BY Zenon, <1>11 DEF LockedOut
<1> QED BY Zenon, <1>4, <1>5, <1>7, <1>8, <1>10, <1>12 DEF Good, after, pc2, r

-----------------------------------------------------------------------------
(* What a step does to a queue: nothing, a byte at its head, or one less   *)
(* at its tail.                                                            *)
Same(q, r) == r.buf = q.buf /\ r.head = q.head /\ r.tail = q.tail
PutIn(q, r, b) ==
  ~intq_full(q) /\ r.buf = [q.buf EXCEPT ![q.head] = b] /\ r.head = next(q.head) /\ r.tail = q.tail
TakenFrom(q, r) ==
  ~intq_empty(q) /\ r.buf = [q.buf EXCEPT ![q.tail] = NULL] /\ r.head = q.head /\ r.tail = next(q.tail)
QueueStep(q, r) == Same(q, r) \/ (\E b \in Byte : PutIn(q, r, b)) \/ TakenFrom(q, r)
QueueSteps == \A k \in QueueName : QueueStep(intq[k], intq'[k])

Asleep == {"waiting", "woken", "locked_out", "retry"}

(* serial_notify and write_ier set the interrupts that the queues need. *)
LEMMA NotifyKeeps ==
  ASSUME IInv, mode' = mode, irq' = irq, serial_notify(intq')
  PROVE  InterruptsEnabled' /\ ier' \subseteq {"XMIT", "RECV"}
<1>1. CASE mode = "QUEUE"
  BY <1>1 DEF serial_notify, write_ier, InterruptsEnabled
<1>2. CASE mode # "QUEUE"
  BY Zenon, <1>2 DEF serial_notify, InterruptsEnabled, IInv, TypeOK
<1> QED BY Zenon, <1>1, <1>2

(* write_ier enables what the queue calls for. *)
LEMMA WriteIer ==
  ASSUME write_ier(intq')
  PROVE  InterruptsEnabled' /\ ier' \subseteq {"XMIT", "RECV"}
BY Zenon DEF write_ier, InterruptsEnabled

(* As long as the queues have the same bytes, so are the interrupts. *)
LEMMA SameInterrupts ==
  ASSUME IInv, mode' = mode, irq' = irq \/ irq' # "none", ier' = ier,
         \A k \in QueueName : Same(intq[k], intq'[k])
  PROVE  InterruptsEnabled'
<1>1. /\ intq_empty(intq'["txq"]) <=> intq_empty(intq["txq"])
      /\ input_full(intq') <=> input_full(intq)
  BY Zenon DEF Same, QueueName, intq_empty, input_full, intq_full
<1> QED BY Zenon, <1>1 DEF IInv, InterruptsEnabled

(* The loop of intq_getc and of intq_putc, for a thread t that sleeps      *)
(* nowhere.                                                                *)
LEMMA LoopStep ==
  ASSUME IInv, irq = "none",
         NEW t \in Thread, NEW b \in Byte \cup {NULL}, t \in Writer => b \in Byte,
         NEW qs, NEW pcs, Good(qs, [pcs EXCEPT ![t] = "run"]), pcs \in [Thread -> Label],
         \A k \in QueueName : Same(intq[k], qs[k]),
         \A u \in Thread \ {t} : pcs[u] \in Asleep => pc[u] \in Asleep,
         Loop(t, b, qs, pcs)
  PROVE  IInv' /\ QueueSteps
<1> DEFINE k == Queue(t)
           q == qs[k]
           old == [pcs EXCEPT ![t] = "run"]
<1>1. /\ k \in QueueName
      /\ t \in Reader => k = "buffer" /\ t \notin Writer
      /\ t \notin Reader => k = "txq" /\ t \in Writer
  BY Zenon, ConstantsAssumption DEF Queue, QueueName, Thread
<1>2. qs \in [QueueName -> Queues] /\ q \in Queues /\ old \in [Thread -> Label] /\ old[t] = "run"
  BY Zenon, <1>1 DEF Good
<1>3. UNCHANGED <<console, mode, thre, rbr>>
      /\ byte' = [byte EXCEPT ![t] = IF pc'[t] \in {"waiting", "locked_out"} THEN b ELSE NULL]
  BY Zenon DEF Loop
<1>4. byte' \in [Thread -> Byte \cup {NULL}]
  BY Zenon, <1>3 DEF IInv, TypeOK
<1>5. ASSUME NEW l \in Label, NEW w, l \notin {"woken", "retry"},
             pc' = signal([pcs EXCEPT ![t] = l], w) \/ pc' = [pcs EXCEPT ![t] = l],
             w # t, w \in Thread \cup {NULL}, w # NULL => pcs[w] \in Asleep
      PROVE  BytesKept'
  <2>1. pc'[t] = l /\ \A u \in Thread \ {t} : pc'[u] \in Asleep => pcs[u] \in Asleep
    <3> DEFINE pc1 == [pcs EXCEPT ![t] = l]
    <3>1. pc1 \in [Thread -> Label] /\ pc1[t] = l /\ \A u \in Thread \ {t} : pc1[u] = pcs[u]
      BY Zenon
    <3>2. CASE pc' = signal(pc1, w)
      <4> HIDE DEF pc1
      <4>1. \A u \in Thread : pc'[u] = IF u = w THEN "woken" ELSE pc1[u]
        BY <1>5, <3>1, <3>2, Signalled
      <4> QED BY Zenon, <1>5, <3>1, <4>1, ConstantsAssumption DEF Thread
    <3>3. CASE pc' = [pcs EXCEPT ![t] = l]
      BY Zenon, <3>3
    <3> QED BY Zenon, <1>5, <3>2, <3>3
  <2>2. ASSUME NEW u \in Writer, pc'[u] \in Asleep
        PROVE  byte'[u] \in Byte
    <3>1. CASE u = t
      BY Zenon, <1>3, <1>5, <2>1, <2>2, <3>1 DEF Asleep, IInv, TypeOK, Label
    <3>2. CASE u # t
      BY Zenon, <1>3, <2>1, <2>2, <3>2 DEF Asleep, IInv, TypeOK, BytesKept, Thread
    <3> QED BY Zenon, <3>1, <3>2
  <2> QED BY Zenon, <2>2 DEF BytesKept, Asleep
<1>6. CASE ~MustWait(t, q) /\ Finish(t, b, qs, pcs) /\ UNCHANGED irq
  <2> DEFINE l == IF t \in Reader THEN "run" ELSE "print"
             pc1 == [pcs EXCEPT ![t] = l]
             w == IF t \in Reader THEN q.not_full ELSE q.not_empty
  <2>1. Good(qs, pc1) /\ pc1 \in [Thread -> Label]
    <3>1. pc1 = [old EXCEPT ![t] = l]
      BY Zenon, <1>2
    <3>2. Good(qs, old) /\ old[t] \notin {"waiting", "woken", "retry"}
      BY Zenon, <1>2
    <3> HIDE DEF old, pc1
    <3>3. l \in {"run", "print", "locked_out"} /\ l # "locked_out"
      BY Zenon
    <3> HIDE DEF l
    <3>4. Good(qs, pc1)
      BY Zenon, <3>1, <3>2, <3>3, LabelKeeps
    <3> QED BY Zenon, <3>4 DEF Good
  <2>2. w \in Thread \cup {NULL} /\ w = NULL
    BY Zenon, <1>1, <2>1 DEF Good, Owners
  <2>3. /\ intq' = [qs EXCEPT ![k] = IF t \in Reader THEN Removed(q) ELSE Added(q, b)]
        /\ pc' = signal(pc1, w) /\ serial_notify(intq')
    BY Zenon, <1>6 DEF Finish
  <2> HIDE DEF pc1, l
  <2>4. Good(intq', pc')
    <3>1. CASE t \in Reader
      BY Zenon, <1>1, <1>6, <2>1, <2>3, <3>1, GetKeeps DEF MustWait
    <3>2. CASE t \notin Reader
      BY Zenon, <1>1, <1>6, <2>1, <2>3, <3>2, PutKeeps DEF MustWait
    <3> QED BY Zenon, <3>1, <3>2
  <2>5. BytesKept'
    BY Zenon, <1>5, <2>2, <2>3, ConstantsAssumption DEF pc1, l, Label, Thread
  <2>6. InterruptsEnabled' /\ ier' \subseteq {"XMIT", "RECV"}
    BY Zenon, <1>3, <1>6, <2>3, NotifyKeeps
  <2>7. TypeOK'
    BY Zenon, <1>3, <1>4, <1>6, <2>4, <2>6 DEF IInv, TypeOK, Good, QueueName, Queues
  <2>8. QueueSteps
    <3> SUFFICES ASSUME NEW j \in QueueName PROVE QueueStep(intq[j], intq'[j])
      BY Zenon DEF QueueSteps
    <3>1. CASE j # k
      BY Zenon, <1>2, <2>3, <3>1 DEF QueueStep, Same
    <3>2. CASE j = k /\ t \in Reader
      <4>1. intq'[j] = Removed(q) /\ Same(intq[j], q) /\ ~intq_empty(intq[j])
        BY Zenon, <1>1, <1>2, <1>6, <2>3, <3>2 DEF MustWait, Same, intq_empty
      <4>2. /\ intq'[j].buf = [q.buf EXCEPT ![q.tail] = NULL]
            /\ intq'[j].head = q.head /\ intq'[j].tail = next(q.tail)
        BY Zenon, <1>2, <4>1, RemovedFields
      <4>3. q.buf = intq[j].buf /\ q.head = intq[j].head /\ q.tail = intq[j].tail
        BY Zenon, <4>1 DEF Same
      <4>4. TakenFrom(intq[j], intq'[j])
        BY Zenon, <4>1, <4>2, <4>3 DEF TakenFrom
      <4> QED BY Zenon, <4>4 DEF QueueStep
    <3>3. CASE j = k /\ t \notin Reader
      <4>1. intq'[j] = Added(q, b) /\ Same(intq[j], q) /\ ~intq_full(intq[j]) /\ b \in Byte
        BY Zenon, <1>1, <1>2, <1>6, <2>3, <3>3 DEF MustWait, Same, intq_full
      <4>2. PutIn(intq[j], intq'[j], b)
        BY <1>2, <4>1, AddedFields DEF PutIn, Same
      <4> QED BY Zenon, <4>1, <4>2 DEF QueueStep
    <3> QED BY Zenon, <3>1, <3>2, <3>3
  <2> QED BY Zenon, <2>4, <2>5, <2>6, <2>7, <2>8 DEF IInv
<1>7. CASE MustWait(t, q) /\ q.lock = NULL /\ Wait(t, qs, pcs)
  <2>1. /\ irq' = irq /\ ier' = ier
        /\ intq' = [qs EXCEPT ![k] = Waited(q, t)]
        /\ pc' = [pcs EXCEPT ![t] = "waiting"]
    BY Zenon, <1>7 DEF Wait, Waited
  <2>2. Good(intq', pc')
    BY Zenon, <1>7, <2>1, WaitKeeps DEF Label
  <2>3. \A j \in QueueName : Same(intq[j], intq'[j])
    <3>1. Same(q, Waited(q, t))
      BY <1>2, WaitFields DEF Same
    <3> QED BY Zenon, <1>1, <1>2, <2>1, <3>1 DEF Same
  <2>4. BytesKept'
    BY Zenon, <1>5, <2>1, ConstantsAssumption DEF Label, Thread
  <2>5. InterruptsEnabled'
    BY Zenon, <1>3, <2>1, <2>3, SameInterrupts
  <2>6. TypeOK'
    BY Zenon, <1>3, <1>4, <2>1, <2>2 DEF IInv, TypeOK, Good, QueueName, Queues
  <2> QED BY Zenon, <2>2, <2>3, <2>4, <2>5, <2>6 DEF IInv, QueueSteps, QueueStep
<1>8. CASE /\ MustWait(t, q) /\ q.lock # NULL
           /\ pc' = [pcs EXCEPT ![t] = "locked_out"]
           /\ intq' = qs
           /\ UNCHANGED <<ier, irq>>
  <2>1. pc' = [old EXCEPT ![t] = "locked_out"]
    BY Zenon, <1>2, <1>8
  <2>2. Good(intq', pc')
    BY <1>2, <1>8, <2>1, LabelKeeps
  <2>3. \A j \in QueueName : Same(intq[j], intq'[j])
    BY Zenon, <1>8
  <2>4. BytesKept'
    BY Zenon, <1>5, <1>8, ConstantsAssumption DEF Label, Thread
  <2>5. InterruptsEnabled'
    BY Zenon, <1>3, <1>8, <2>3, SameInterrupts
  <2>6. TypeOK'
    BY Zenon, <1>3, <1>4, <1>8, <2>2 DEF IInv, TypeOK, Good, QueueName, Queues
  <2> QED BY Zenon, <2>2, <2>3, <2>4, <2>5, <2>6 DEF IInv, QueueSteps, QueueStep
<1> QED BY Zenon, <1>6, <1>7, <1>8 DEF Loop

(* A put or a get that no thread waits in: handlers do these. *)
LEMMA PutStep ==
  ASSUME IInv, irq # "panic", NEW k \in QueueName, NEW b \in Byte, ~intq_full(intq[k]),
         intq' = [intq EXCEPT ![k] = Added(intq[k], b)],
         pc' = signal(pc, intq[k].not_empty), byte' = byte
  PROVE  Good(intq', pc') /\ QueueSteps /\ BytesKept'
<1>1. Good(intq, pc) /\ intq \in [QueueName -> Queues] /\ intq[k] \in Queues
  BY Zenon DEF IInv, Good
<1>2. Good(intq', pc')
  BY Zenon, <1>1, PutKeeps
<1>3. intq'[k] = Added(intq[k], b) /\ \A j \in QueueName \ {k} : intq'[j] = intq[j]
  BY Zenon, <1>1
<1>4. PutIn(intq[k], intq'[k], b)
  BY Zenon, <1>1, <1>3, AddedFields DEF PutIn
<1>5. QueueSteps
  BY Zenon, <1>3, <1>4 DEF QueueSteps, QueueStep, Same
<1>6. ASSUME NEW u \in Thread, pc'[u] \in Asleep
      PROVE  pc[u] \in Asleep
  <2>1. intq[k].not_empty \in Thread \cup {NULL} /\ pc \in [Thread -> Label]
    BY Zenon, <1>1 DEF Queues, Good
  <2>2. pc'[u] = IF u = intq[k].not_empty THEN "woken" ELSE pc[u]
    BY Zenon, <2>1, Signalled
  <2>3. u = intq[k].not_empty => u \in Reader /\ k = "buffer"
    BY Zenon, <1>1, ConstantsAssumption DEF Good, Owners, QueueName, Thread
  <2>4. u = intq[k].not_empty => pc[u] = "waiting"
    BY Zenon, <1>1, <2>3 DEF Good, Sleepers, Queue, Cond
  <2> QED BY Zenon, <1>6, <2>2, <2>4 DEF Asleep
<1>7. BytesKept'
  BY Zenon, <1>6 DEF IInv, BytesKept, Asleep, Thread
<1> QED BY Zenon, <1>2, <1>5, <1>7

(* intq_getc keeps the invariant. *)
LEMMA GetStep ==
  ASSUME IInv, irq # "panic", NEW k \in QueueName, ~intq_empty(intq[k]),
         intq' = [intq EXCEPT ![k] = Removed(intq[k])],
         pc' = signal(pc, intq[k].not_full), byte' = byte
  PROVE  Good(intq', pc') /\ QueueSteps /\ BytesKept'
<1>1. Good(intq, pc) /\ intq \in [QueueName -> Queues] /\ intq[k] \in Queues
  BY Zenon DEF IInv, Good
<1>2. Good(intq', pc')
  BY Zenon, <1>1, GetKeeps
<1>3. intq'[k] = Removed(intq[k]) /\ \A j \in QueueName \ {k} : intq'[j] = intq[j]
  BY Zenon, <1>1
<1>4. TakenFrom(intq[k], intq'[k])
  BY Zenon, <1>1, <1>3, RemovedFields DEF TakenFrom
<1>5. QueueSteps
  BY Zenon, <1>3, <1>4 DEF QueueSteps, QueueStep, Same
<1>6. ASSUME NEW u \in Thread, pc'[u] \in Asleep
      PROVE  pc[u] \in Asleep
  <2>1. intq[k].not_full \in Thread \cup {NULL} /\ pc \in [Thread -> Label]
    BY Zenon, <1>1 DEF Queues, Good
  <2>2. pc'[u] = IF u = intq[k].not_full THEN "woken" ELSE pc[u]
    BY Zenon, <2>1, Signalled
  <2>3. u = intq[k].not_full => u \in Writer /\ k = "txq"
    BY Zenon, <1>1, ConstantsAssumption DEF Good, Owners, QueueName, Thread
  <2>4. u = intq[k].not_full => pc[u] = "waiting"
    BY Zenon, <1>1, <2>3, ConstantsAssumption DEF Good, Sleepers, Queue, Cond
  <2> QED BY Zenon, <1>6, <2>2, <2>4 DEF Asleep
<1>7. BytesKept'
  BY Zenon, <1>6 DEF IInv, BytesKept, Asleep, Thread
<1> QED BY Zenon, <1>2, <1>5, <1>7

(* A step that leaves queues, labels and bytes alone. *)
LEMMA QuietStep ==
  ASSUME IInv, UNCHANGED <<intq, pc, byte>>, irq' = "panic" <=> irq = "panic"
  PROVE  /\ irq' # "panic" => Good(intq', pc')
         /\ QueueSteps /\ BytesKept' /\ \A k \in QueueName : Same(intq[k], intq'[k])
BY Zenon DEF IInv, BytesKept, QueueSteps, QueueStep, Same, QueueName

-----------------------------------------------------------------------------
(* One lemma for each action. *)
LEMMA InputGetcStep ==
  ASSUME IInv, NEW t \in Reader, InputGetc(t)
  PROVE  IInv' /\ QueueSteps
<1>1. t \in Thread /\ t \notin Writer /\ irq = "none" /\ pc[t] = "run" /\ Loop(t, NULL, intq, pc)
  BY Zenon, ConstantsAssumption DEF InputGetc, Thread
<1>2. Good(intq, pc) /\ pc \in [Thread -> Label] /\ [pc EXCEPT ![t] = "run"] = pc
  BY Zenon, <1>1 DEF IInv, Good
<1>3. \A k \in QueueName : Same(intq[k], intq[k])
  BY Zenon DEF Same
<1> QED BY Zenon, <1>1, <1>2, <1>3, LoopStep

(* serial_putc keeps it. *)
LEMMA SerialPutcStep ==
  ASSUME IInv, NEW t \in Writer, NEW b \in Char, SerialPutc(t, b)
  PROVE  IInv' /\ QueueSteps
<1>1. t \in Thread /\ b \in Byte /\ irq = "none" /\ pc[t] = "print" /\ Loop(t, b, intq, pc)
  BY Zenon DEF SerialPutc, Thread, Byte
<1>2. Good(intq, pc) /\ pc \in [Thread -> Label]
  BY Zenon, <1>1 DEF IInv, Good
<1>3. Good(intq, [pc EXCEPT ![t] = "run"])
  BY Zenon, <1>1, <1>2, LabelKeeps
<1>4. \A k \in QueueName : Same(intq[k], intq[k])
  BY Zenon DEF Same
<1> QED BY Zenon, <1>1, <1>2, <1>3, <1>4, LoopStep

(* A woken thread returns from wait. *)
LEMMA WaitReturnsStep ==
  ASSUME IInv, NEW t \in Thread, WaitReturns(t)
  PROVE  IInv' /\ QueueSteps
<1> DEFINE qs == [intq EXCEPT ![Queue(t)].lock = NULL]
           out == {u \in Thread : Queue(u) = Queue(t) /\ pc[u] = "locked_out"}
<1>1. irq = "none" /\ pc[t] = "woken"
  BY Zenon DEF WaitReturns
<1>2. PICK pc1 : /\ Loop(t, byte[t], qs, pc1)
                 /\ \/ out = {} /\ pc1 = pc
                    \/ \E u \in Thread : /\ Queue(u) = Queue(t) /\ pc[u] = "locked_out"
                                         /\ pc1 = [pc EXCEPT ![u] = "retry"]
  BY Zenon DEF WaitReturns
<1>3. Good(intq, pc)
  BY Zenon, <1>1 DEF IInv
<1>4. Good(qs, [pc1 EXCEPT ![t] = "run"]) /\ pc1 \in [Thread -> Label]
  BY Zenon, <1>1, <1>2, <1>3, ReleaseKeeps
<1>5. byte[t] \in Byte \cup {NULL} /\ (t \in Writer => byte[t] \in Byte)
  BY Zenon, <1>1 DEF IInv, TypeOK, BytesKept
<1>6. \A k \in QueueName : Same(intq[k], qs[k])
  <2>1. intq \in [QueueName -> Queues] /\ Queue(t) \in QueueName
    BY Zenon, <1>3 DEF Good, Queue, QueueName
  <2> QED BY Zenon, <2>1 DEF Same, Queues
<1>7. \A u \in Thread \ {t} : pc1[u] \in Asleep => pc[u] \in Asleep
  BY Zenon, <1>2, <1>3 DEF Asleep, Good
<1> HIDE DEF qs
<1> QED BY Zenon, <1>1, <1>2, <1>4, <1>5, <1>6, <1>7, LoopStep

(* A thread woken by lock_release tries again. *)
LEMMA LockRetryStep ==
  ASSUME IInv, NEW t \in Thread, LockRetry(t)
  PROVE  IInv' /\ QueueSteps
<1> DEFINE q == intq[Queue(t)]
<1>1. /\ irq = "none" /\ pc[t] = "retry" /\ Queue(t) \in QueueName
      /\ UNCHANGED <<byte, console, mode, thre, rbr>>
  BY Zenon DEF LockRetry, Queue, QueueName
<1>2. Good(intq, pc) /\ pc \in [Thread -> Label] /\ [pc EXCEPT ![t] = "retry"] = pc
  BY Zenon, <1>1 DEF IInv, Good
<1>3. intq \in [QueueName -> Queues] /\ q \in Queues
  BY Zenon, <1>1, <1>2 DEF Good
<1>4. ASSUME NEW l \in Asleep, pc' = [pc EXCEPT ![t] = l]
      PROVE  BytesKept'
  BY Zenon, <1>1, <1>2, <1>4 DEF IInv, BytesKept, Asleep, Thread
<1>5. CASE q.lock = NULL
  <2>1. /\ irq' = IF MustWait(t, q) THEN irq ELSE "panic"
        /\ intq' = [intq EXCEPT ![Queue(t)] = Waited(q, t)]
        /\ pc' = [pc EXCEPT ![t] = "waiting"] /\ ier' = ier
    BY Zenon, <1>5 DEF LockRetry, Wait, Waited
  <2>2. Waited(q, t) \in Queues /\ Same(q, Waited(q, t))
    BY <1>3, WaitFields DEF Same
  <2>3. intq' \in [QueueName -> Queues] /\ pc' \in [Thread -> Label]
    BY Zenon, <1>2, <1>3, <2>1, <2>2 DEF Label
  <2>4. \A j \in QueueName : Same(intq[j], intq'[j])
    BY Zenon, <1>1, <1>3, <2>1, <2>2 DEF Same
  <2>5. irq' # "panic" => Good(intq', pc')
    <3>1. CASE MustWait(t, q)
      <4>1. Good(intq, [pc EXCEPT ![t] = "retry"]) /\ "retry" \in Label \ {"waiting", "woken"}
        BY Zenon, <1>2 DEF Label
      <4>2. Good([intq EXCEPT ![Queue(t)] = Waited(q, t)], [pc EXCEPT ![t] = "waiting"])
        BY Zenon, <1>2, <1>5, <3>1, <4>1, WaitKeeps
      <4> QED BY Zenon, <2>1, <4>2
    <3> QED BY Zenon, <2>1, <3>1
  <2>6. InterruptsEnabled'
    BY Zenon, <1>1, <2>1, <2>4, SameInterrupts
  <2>7. TypeOK'
    BY Zenon, <1>1, <2>1, <2>3 DEF IInv, TypeOK, QueueName, Queues
  <2>8. BytesKept'
    BY Zenon, <1>4, <2>1 DEF Asleep
  <2> QED BY Zenon, <2>4, <2>5, <2>6, <2>7, <2>8 DEF IInv, QueueSteps, QueueStep
<1>6. CASE q.lock # NULL
  <2>1. pc' = [pc EXCEPT ![t] = "locked_out"] /\ UNCHANGED <<intq, ier, irq>>
    BY Zenon, <1>6 DEF LockRetry
  <2>2. Good(intq', pc')
    BY Zenon, <1>1, <1>2, <1>6, <2>1, LabelKeeps
  <2>3. \A j \in QueueName : Same(intq[j], intq'[j])
    BY Zenon, <2>1 DEF Same
  <2>4. InterruptsEnabled'
    BY Zenon, <1>1, <2>1, <2>3, SameInterrupts
  <2>5. TypeOK'
    BY Zenon, <1>1, <2>1, <2>2 DEF IInv, TypeOK, Good
  <2>6. BytesKept'
    BY Zenon, <1>4, <2>1 DEF Asleep
  <2> QED BY Zenon, <2>2, <2>3, <2>4, <2>5, <2>6 DEF IInv, QueueSteps, QueueStep
<1> QED BY Zenon, <1>5, <1>6

(* The console lock's steps keep it. *)
LEMMA ConsoleStep ==
  ASSUME IInv, NEW t \in Writer,
         acquire_console(t) \/ release_console(t) \/ SerialPutcPoll(t)
  PROVE  IInv' /\ QueueSteps
<1>1. CASE SerialPutcPoll(t)
  <2>1. UNCHANGED <<intq, pc, byte, console, mode, ier, rbr, irq>> /\ thre' = FALSE
    BY Zenon, <1>1 DEF SerialPutcPoll, threadVars
  <2>2. InterruptsEnabled'
    BY Zenon, <2>1, QuietStep, SameInterrupts
  <2>3. TypeOK'
    BY Zenon, <2>1 DEF IInv, TypeOK
  <2> QED BY Zenon, <2>1, <2>2, <2>3, QuietStep DEF IInv
<1>2. CASE acquire_console(t) \/ release_console(t)
  <2>1. PICK l \in {"run", "print"} : pc' = [pc EXCEPT ![t] = l]
    BY Zenon, <1>2 DEF acquire_console, release_console
  <2>2. /\ UNCHANGED <<intq, byte, mode, ier, thre, rbr, irq>> /\ console' \in Writer \cup {NULL}
        /\ irq = "none" /\ pc[t] \in {"run", "print"} /\ t \in Thread
    BY Zenon, <1>2 DEF acquire_console, release_console, portVars, Thread
  <2>3. Good(intq, pc)
    BY Zenon, <2>2 DEF IInv
  <2>4. Good(intq', pc')
    BY Zenon, <2>1, <2>2, <2>3, LabelKeeps
  <2>5. \A j \in QueueName : Same(intq[j], intq'[j])
    BY Zenon, <2>2 DEF Same
  <2>6. InterruptsEnabled'
    BY Zenon, <2>2, <2>5, SameInterrupts
  <2>7. TypeOK'
    BY Zenon, <2>2, <2>4 DEF IInv, TypeOK, Good
  <2>8. BytesKept'
    BY Zenon, <2>1, <2>2, <2>3 DEF IInv, BytesKept, Good, Thread
  <2> QED BY Zenon, <2>4, <2>5, <2>6, <2>7, <2>8 DEF IInv, QueueSteps, QueueStep
<1> QED BY Zenon, <1>1, <1>2

(* serial_init_queue keeps it. *)
LEMMA InitQueueStep ==
  ASSUME IInv, SerialInitQueue \/ TransmitDone
  PROVE  IInv' /\ QueueSteps
<1>1. /\ UNCHANGED <<intq, pc, byte, console, thre, rbr>> /\ write_ier(intq)
      /\ irq \in {"none", "xmit"} /\ irq' = "none" /\ mode' \in {"POLL", "QUEUE"}
  BY Zenon DEF SerialInitQueue, TransmitDone, threadVars, IInv, TypeOK
<1>2. write_ier(intq')
  BY Zenon, <1>1
<1>3. InterruptsEnabled' /\ ier' \subseteq {"XMIT", "RECV"}
  BY Zenon, <1>2, WriteIer
<1>4. TypeOK'
  BY Zenon, <1>1, <1>3 DEF IInv, TypeOK
<1> QED BY Zenon, <1>1, <1>3, <1>4, QuietStep DEF IInv

(* The port's own steps keep it. *)
LEMMA PortStep ==
  ASSUME IInv,
         SerialInterrupt \/ ReceiveDone \/ PortReady \/ \E b \in Key : PortReceives(b)
  PROVE  IInv' /\ QueueSteps
<1>1. /\ UNCHANGED <<intq, pc, byte, console, mode, ier>>
      /\ irq' = irq \/ (irq # "panic" /\ irq' \in {"recv", "xmit"})
      /\ thre' \in BOOLEAN /\ rbr' \in Byte \cup {NULL}
  BY Zenon DEF SerialInterrupt, ReceiveDone, PortReady, PortReceives, threadVars, portVars, IInv,
     TypeOK, Byte
<1>2. InterruptsEnabled'
  BY Zenon, <1>1, QuietStep, SameInterrupts
<1>3. TypeOK'
  BY Zenon, <1>1 DEF IInv, TypeOK
<1> QED BY Zenon, <1>1, <1>2, <1>3, QuietStep DEF IInv

(* input_putc keeps it. *)
LEMMA InputPutcStep ==
  ASSUME IInv, NEW b \in Byte, irq # "panic", ~input_full(intq), input_putc(b),
         UNCHANGED <<byte, console, mode, thre, irq>>, rbr' \in {rbr, NULL}
  PROVE  IInv' /\ QueueSteps
<1>1. /\ intq' = [intq EXCEPT !["buffer"] = Added(intq["buffer"], b)]
      /\ pc' = signal(pc, intq["buffer"].not_empty) /\ serial_notify(intq')
      /\ "buffer" \in QueueName /\ ~intq_full(intq["buffer"])
  BY Zenon DEF input_putc, input_full, QueueName
<1>2. Good(intq', pc') /\ QueueSteps /\ BytesKept'
  BY Zenon, <1>1, PutStep
<1>3. InterruptsEnabled' /\ ier' \subseteq {"XMIT", "RECV"}
  BY Zenon, <1>1, NotifyKeeps
<1>4. TypeOK'
  BY Zenon, <1>2, <1>3 DEF IInv, TypeOK, Good, QueueName, Queues
<1> QED BY Zenon, <1>2, <1>3, <1>4 DEF IInv

(* A byte received by the interrupt handler keeps it. *)
LEMMA ReceiveStep ==
  ASSUME IInv, ReceiveByte \/ \E b \in Key : KeyboardInterrupt(b)
  PROVE  IInv' /\ QueueSteps
<1>1. CASE ReceiveByte
  BY Zenon, <1>1, InputPutcStep DEF ReceiveByte, IInv, TypeOK
<1>2. CASE \E b \in Key : KeyboardInterrupt(b)
  BY Zenon, <1>2, InputPutcStep DEF KeyboardInterrupt, Byte
<1> QED BY Zenon, <1>1, <1>2

(* A byte sent by it keeps it. *)
LEMMA SendStep ==
  ASSUME IInv, TransmitByte \/ IntrPutcPoll
  PROVE  IInv' /\ QueueSteps
<1>1. /\ intq' = [intq EXCEPT !["txq"] = Removed(intq["txq"])]
      /\ pc' = signal(pc, intq["txq"].not_full) /\ thre' = FALSE
      /\ UNCHANGED <<byte, console, mode, ier, rbr>>
      /\ "txq" \in QueueName /\ irq # "panic" /\ irq' \in {"xmit", "putc"}
  BY Zenon DEF TransmitByte, IntrPutcPoll, QueueName
<1>2. ~intq_empty(intq["txq"])
  <2>1. CASE TransmitByte
    BY Zenon, <2>1 DEF TransmitByte
  <2>2. CASE IntrPutcPoll
    <3>1. next(intq["txq"].head) = intq["txq"].tail /\ intq["txq"].head \in Slot
      BY Zenon, <2>2 DEF IntrPutcPoll, intq_full, IInv, TypeOK
    <3> QED BY <3>1, NextSlot, ConstantsAssumption DEF intq_empty, Slot
  <2> QED BY Zenon, <2>1, <2>2
<1>3. Good(intq', pc') /\ QueueSteps /\ BytesKept'
  BY Zenon, <1>1, <1>2, GetStep
<1>4. InterruptsEnabled'
  BY Zenon, <1>1 DEF InterruptsEnabled
<1>5. TypeOK'
  BY Zenon, <1>1, <1>3 DEF IInv, TypeOK, Good, QueueName, Queues
<1> QED BY Zenon, <1>3, <1>4, <1>5 DEF IInv

(* intq_putc in the interrupt handler keeps it. *)
LEMMA IntrPutcStep ==
  ASSUME IInv, NEW b \in Char, IntrPutc(b)
  PROVE  IInv' /\ QueueSteps
<1>1. /\ intq' = [intq EXCEPT !["txq"] = Added(intq["txq"], b)]
      /\ pc' = signal(pc, intq["txq"].not_empty) /\ write_ier(intq')
      /\ UNCHANGED <<byte, console, mode, thre, rbr>>
      /\ "txq" \in QueueName /\ irq # "panic" /\ irq' = "none" /\ ~intq_full(intq["txq"]) /\ b \in Byte
  BY Zenon DEF IntrPutc, QueueName, Byte
<1>2. Good(intq', pc') /\ QueueSteps /\ BytesKept'
  BY Zenon, <1>1, PutStep
<1>3. InterruptsEnabled' /\ ier' \subseteq {"XMIT", "RECV"}
  BY Zenon, <1>1, WriteIer
<1>4. TypeOK'
  BY Zenon, <1>1, <1>2, <1>3 DEF IInv, TypeOK, Good, QueueName, Queues
<1> QED BY Zenon, <1>2, <1>3, <1>4 DEF IInv

(* The console before serial_init_queue. *)
LEMMA InitIInv == Init => IInv
<1> SUFFICES ASSUME Init PROVE IInv
  BY Zenon
<1>1. 0 \in Slot
  BY ConstantsAssumption DEF Slot
<1>2. intq \in [QueueName -> Queues] /\ pc \in [Thread -> Label]
  BY Zenon, <1>1 DEF Init, QueueName, Queues, Label
<1>3. TypeOK
  BY Zenon, <1>2 DEF Init, TypeOK, QueueName, Queues
<1>4. \A k \in QueueName : intq[k].lock = NULL /\ intq[k].not_empty = NULL /\ intq[k].not_full = NULL
  BY Zenon DEF Init, QueueName
<1>5. Owners(intq)
  BY Zenon, <1>4 DEF Owners, QueueName
<1>6. Sleepers(intq, pc)
  <2> SUFFICES ASSUME NEW t \in Thread
               PROVE  pc[t] = "run" /\ intq[Queue(t)][Cond(t)] # t /\ intq[Queue(t)].lock # t
    BY Zenon DEF Sleepers
  <2>1. pc[t] = "run" /\ t # NULL /\ Queue(t) \in QueueName
    BY Zenon, ConstantsAssumption DEF Init, Thread, Queue, QueueName
  <2> QED BY <1>4, <2>1 DEF Cond
<1>7. LockedOut(intq, pc) /\ BytesKept /\ InterruptsEnabled
  BY Zenon DEF Init, LockedOut, BytesKept, InterruptsEnabled, Thread
<1> QED BY Zenon, <1>2, <1>3, <1>5, <1>6, <1>7 DEF IInv, Good

(* Every step keeps the invariant. *)
LEMMA NextIInv ==
  ASSUME IInv, [Next]_vars
  PROVE  IInv' /\ QueueSteps
<1>1. CASE UNCHANGED vars
  BY Zenon, <1>1 DEF vars, IInv, TypeOK, BytesKept, InterruptsEnabled, QueueSteps, QueueStep, Same
<1>2. CASE Next
  <2>1. CASE \E t \in Thread : ThreadStep(t)
    BY Zenon, <2>1, WaitReturnsStep, LockRetryStep DEF ThreadStep
  <2>2. CASE Call
    BY Zenon, <2>2, InputGetcStep, ConsoleStep, SerialPutcStep, InitQueueStep DEF Call
  <2>3. CASE Interrupt
    BY Zenon, <2>3, PortStep, SendStep, ReceiveStep, IntrPutcStep DEF Interrupt
  <2>4. CASE Handler
    BY Zenon, <2>4, ReceiveStep, PortStep, SendStep, InitQueueStep DEF Handler
  <2> QED BY Zenon, <1>2, <2>1, <2>2, <2>3, <2>4, PortStep DEF Next
<1> QED BY Zenon, <1>1, <1>2

(* The invariant of every behaviour: the theorems below follow from it. *)
THEOREM Invariance == Spec => []IInv
BY InitIInv, NextIInv, PTL DEF Spec

(* For any number of readers and writers and any size of the queues: a     *)
(* thread asleep in wait() is one that the next signal() will find, a      *)
(* thread locked out of it has someone to let it in, and the port          *)
(* interrupts exactly when there is something to send or room to receive.  *)
THEOREM NobodyIsForgotten == Spec => []NobodyForgotten
<1>1. IInv => NobodyForgotten
  BY Zenon DEF IInv, Good, Sleepers, LockedOut, NobodyForgotten, SleepersKnown, LockedOutKnown
<1> QED BY <1>1, Invariance, PTL

-----------------------------------------------------------------------------
(* The bytes of a queue: how many there are, where they are, and what a    *)
(* put and a get make of them.                                             *)
Count(q) == (q.head + INTQ_BUFSIZE - q.tail) % INTQ_BUFSIZE
Place(q, i) == (q.tail + i - 1) % INTQ_BUFSIZE

(* How many bytes a queue holds. *)
LEMMA CountIs ==
  ASSUME NEW q \in Queues
  PROVE  /\ Count(q) \in 0 .. INTQ_BUFSIZE - 1
         /\ Count(q) = IF q.head >= q.tail THEN q.head - q.tail ELSE q.head + INTQ_BUFSIZE - q.tail
<1> DEFINE x == q.head + INTQ_BUFSIZE - q.tail
<1>1. q.head \in Slot /\ q.tail \in Slot
  BY Zenon DEF Queues
<1>2. x \in 0 .. 2 * INTQ_BUFSIZE - 1
  BY <1>1, ConstantsAssumption DEF Slot
<1>3. Count(q) = x % INTQ_BUFSIZE
  BY Zenon DEF Count
<1> HIDE DEF x
<1>4. Count(q) = IF x < INTQ_BUFSIZE THEN x ELSE x - INTQ_BUFSIZE
  BY Zenon, <1>2, <1>3, Modulo
<1> QED BY <1>1, <1>4, ConstantsAssumption DEF Slot, x

(* Where the ith byte is. *)
LEMMA PlaceIs ==
  ASSUME NEW q \in Queues, NEW i \in 1 .. INTQ_BUFSIZE
  PROVE  /\ Place(q, i) \in Slot
         /\ Place(q, i) = IF q.tail + i - 1 < INTQ_BUFSIZE THEN q.tail + i - 1
                          ELSE q.tail + i - 1 - INTQ_BUFSIZE
<1> DEFINE x == q.tail + i - 1
<1>1. q.tail \in Slot
  BY Zenon DEF Queues
<1>2. x \in 0 .. 2 * INTQ_BUFSIZE - 1
  BY <1>1, ConstantsAssumption DEF Slot
<1>3. Place(q, i) = x % INTQ_BUFSIZE
  BY Zenon DEF Place
<1> HIDE DEF x
<1>4. Place(q, i) = IF x < INTQ_BUFSIZE THEN x ELSE x - INTQ_BUFSIZE
  BY Zenon, <1>2, <1>3, Modulo
<1> QED BY <1>1, <1>2, <1>4, ConstantsAssumption DEF Slot, x

(* A queue's bytes in order. *)
LEMMA ContentsAre ==
  ASSUME NEW q \in Queues
  PROVE  /\ Contents(q) \in Seq(Byte \cup {NULL})
         /\ Len(Contents(q)) = Count(q)
         /\ \A i \in 1 .. Count(q) : Contents(q)[i] = q.buf[Place(q, i)]
<1>1. Count(q) \in 0 .. INTQ_BUFSIZE - 1
  BY Zenon, CountIs
<1>2. Contents(q) = [i \in 1 .. Count(q) |-> q.buf[Place(q, i)]]
  BY Zenon DEF Contents, Count, Place
<1>3. \A i \in 1 .. Count(q) : q.buf[Place(q, i)] \in Byte \cup {NULL}
  <2> TAKE i \in 1 .. Count(q)
  <2>1. i \in 1 .. INTQ_BUFSIZE
    BY <1>1, ConstantsAssumption
  <2>2. Place(q, i) \in Slot
    BY Zenon, <2>1, PlaceIs
  <2> QED BY Zenon, <2>2 DEF Queues
<1>4. Count(q) \in Nat
  BY <1>1, ConstantsAssumption
<1> HIDE DEF Count, Place
<1>5. Contents(q) \in [1 .. Count(q) -> Byte \cup {NULL}]
  BY Zenon, <1>2, <1>3
<1>6. Contents(q) \in Seq(Byte \cup {NULL})
  BY Zenon, <1>4, <1>5, SeqDef
<1>7. Len(Contents(q)) = Count(q)
  BY <1>4, <1>5, <1>6, LenProperties
<1> QED BY Zenon, <1>2, <1>6, <1>7

(* intq_putc appends a byte. *)
LEMMA PutContents ==
  ASSUME NEW q \in Queues, NEW r \in Queues, NEW b \in Byte, PutIn(q, r, b)
  PROVE  Len(Contents(q)) < INTQ_BUFSIZE - 1 /\ Contents(r) = Append(Contents(q), b)
<1>1. /\ q.head \in Slot /\ q.tail \in Slot /\ q.buf \in [Slot -> Byte \cup {NULL}]
      /\ r.head = next(q.head) /\ r.tail = q.tail /\ r.buf = [q.buf EXCEPT ![q.head] = b]
      /\ next(q.head) # q.tail
  BY Zenon DEF Queues, PutIn, intq_full
<1>2. next(q.head) = IF q.head = INTQ_BUFSIZE - 1 THEN 0 ELSE q.head + 1
  BY Zenon, <1>1, NextSlot
<1>3. /\ Count(q) = IF q.head >= q.tail THEN q.head - q.tail ELSE q.head + INTQ_BUFSIZE - q.tail
      /\ Count(r) = IF r.head >= r.tail THEN r.head - r.tail ELSE r.head + INTQ_BUFSIZE - r.tail
  BY Zenon, CountIs
<1>4. Count(q) \in Nat /\ Count(q) < INTQ_BUFSIZE - 1 /\ Count(r) = Count(q) + 1
  <2> DEFINE h == q.head
             t == q.tail
             n == next(q.head)
  <2>1. /\ h \in Slot /\ t \in Slot /\ n # t /\ n = IF h = INTQ_BUFSIZE - 1 THEN 0 ELSE h + 1
        /\ Count(q) = IF h >= t THEN h - t ELSE h + INTQ_BUFSIZE - t
        /\ Count(r) = IF n >= t THEN n - t ELSE n + INTQ_BUFSIZE - t
    BY Zenon, <1>1, <1>2, <1>3
  <2> HIDE DEF h, t, n
  <2> QED BY <2>1, ConstantsAssumption DEF Slot
<1>5. Place(r, Count(q) + 1) = q.head
  <2>1. Count(q) + 1 \in 1 .. INTQ_BUFSIZE
    BY <1>4, ConstantsAssumption
  <2>2. Place(r, Count(q) + 1) = IF r.tail + (Count(q) + 1) - 1 < INTQ_BUFSIZE
                                 THEN r.tail + (Count(q) + 1) - 1
                                 ELSE r.tail + (Count(q) + 1) - 1 - INTQ_BUFSIZE
    BY Zenon, <2>1, PlaceIs
  <2> DEFINE h == q.head
             t == q.tail
             c == Count(q)
  <2>3. /\ h \in Slot /\ t \in Slot /\ c \in Nat /\ c = IF h >= t THEN h - t ELSE h + INTQ_BUFSIZE - t
        /\ Place(r, c + 1) = IF t + (c + 1) - 1 < INTQ_BUFSIZE THEN t + (c + 1) - 1
                             ELSE t + (c + 1) - 1 - INTQ_BUFSIZE
    BY Zenon, <1>1, <1>4, <1>3, <2>2
  <2> HIDE DEF h, t, c
  <2>4. Place(r, c + 1) = h
    BY <2>3, ConstantsAssumption DEF Slot
  <2> QED BY Zenon, <2>4 DEF h, c
<1>6. ASSUME NEW i \in 1 .. Count(q)
      PROVE  Place(r, i) = Place(q, i) /\ Place(q, i) \in Slot /\ Place(q, i) # q.head
  <2>1. i \in 1 .. INTQ_BUFSIZE
    BY <1>4, ConstantsAssumption
  <2>2. Place(r, i) = Place(q, i)
    BY Zenon, <1>1 DEF Place
  <2>3. /\ Place(q, i) \in Slot
        /\ Place(q, i) = IF q.tail + i - 1 < INTQ_BUFSIZE THEN q.tail + i - 1
                         ELSE q.tail + i - 1 - INTQ_BUFSIZE
    BY Zenon, <2>1, PlaceIs
  <2> QED BY <1>3, <1>1, <1>4, <2>2, <2>3, ConstantsAssumption DEF Slot
<1> DEFINE s == Contents(q)
           a == Append(s, b)
<1>7. /\ s \in Seq(Byte \cup {NULL}) /\ Len(s) = Count(q)
      /\ \A i \in 1 .. Count(q) : s[i] = q.buf[Place(q, i)]
  BY Zenon, ContentsAre
<1>8. /\ Contents(r) \in Seq(Byte \cup {NULL}) /\ Len(Contents(r)) = Count(q) + 1
      /\ \A i \in 1 .. Count(q) + 1 : Contents(r)[i] = r.buf[Place(r, i)]
  BY Zenon, <1>4, ContentsAre
<1> HIDE DEF s
<1>9. /\ a \in Seq(Byte \cup {NULL}) /\ Len(a) = Count(q) + 1
      /\ \A i \in 1 .. Count(q) : a[i] = s[i]
      /\ a[Count(q) + 1] = b
  BY <1>4, <1>7, AppendProperties
<1>10. \A i \in 1 .. Count(q) : r.buf[Place(r, i)] = q.buf[Place(q, i)]
  BY Zenon, <1>1, <1>6
<1>11. r.buf[Place(r, Count(q) + 1)] = b
  BY Zenon, <1>1, <1>5
<1>12. \A i \in 1 .. Count(q) + 1 : Contents(r)[i] = a[i]
  BY <1>4, <1>7, <1>8, <1>9, <1>10, <1>11
<1>13. Contents(r) = a
  BY Zenon, <1>8, <1>9, <1>12, SeqEqual
<1> QED BY Zenon, <1>4, <1>7, <1>13 DEF s

(* intq_getc takes the first byte. *)
LEMMA GetContents ==
  ASSUME NEW q \in Queues, NEW r \in Queues, TakenFrom(q, r)
  PROVE  Contents(q) # <<>> /\ Contents(r) = Tail(Contents(q))
<1>1. /\ q.head \in Slot /\ q.tail \in Slot /\ q.buf \in [Slot -> Byte \cup {NULL}]
      /\ r.head = q.head /\ r.tail = next(q.tail) /\ r.buf = [q.buf EXCEPT ![q.tail] = NULL]
      /\ q.head # q.tail
  BY Zenon DEF Queues, TakenFrom, intq_empty
<1>2. next(q.tail) = IF q.tail = INTQ_BUFSIZE - 1 THEN 0 ELSE q.tail + 1
  BY Zenon, <1>1, NextSlot
<1>3. /\ Count(q) = IF q.head >= q.tail THEN q.head - q.tail ELSE q.head + INTQ_BUFSIZE - q.tail
      /\ Count(r) = IF r.head >= r.tail THEN r.head - r.tail ELSE r.head + INTQ_BUFSIZE - r.tail
  BY Zenon, CountIs
<1>4. Count(r) \in Nat /\ Count(q) < INTQ_BUFSIZE /\ Count(q) = Count(r) + 1
  BY <1>1, <1>2, <1>3, ConstantsAssumption DEF Slot
<1>5. ASSUME NEW i \in 1 .. Count(r)
      PROVE  Place(r, i) = Place(q, i + 1) /\ Place(r, i) \in Slot /\ Place(r, i) # q.tail
  <2>1. i \in 1 .. INTQ_BUFSIZE /\ i + 1 \in 1 .. INTQ_BUFSIZE /\ i < INTQ_BUFSIZE - 1
    BY <1>4, ConstantsAssumption
  <2>2. /\ Place(r, i) \in Slot
        /\ Place(r, i) = IF r.tail + i - 1 < INTQ_BUFSIZE THEN r.tail + i - 1
                         ELSE r.tail + i - 1 - INTQ_BUFSIZE
    BY Zenon, <2>1, PlaceIs
  <2>3. Place(q, i + 1) = IF q.tail + (i + 1) - 1 < INTQ_BUFSIZE THEN q.tail + (i + 1) - 1
                          ELSE q.tail + (i + 1) - 1 - INTQ_BUFSIZE
    BY Zenon, <2>1, PlaceIs
  <2> QED BY <1>1, <1>2, <2>1, <2>2, <2>3, ConstantsAssumption DEF Slot
<1> DEFINE s == Contents(q)
           a == Tail(s)
<1>6. /\ s \in Seq(Byte \cup {NULL}) /\ Len(s) = Count(r) + 1
      /\ \A i \in 1 .. Count(r) + 1 : s[i] = q.buf[Place(q, i)]
  BY Zenon, <1>4, ContentsAre
<1>7. /\ Contents(r) \in Seq(Byte \cup {NULL}) /\ Len(Contents(r)) = Count(r)
      /\ \A i \in 1 .. Count(r) : Contents(r)[i] = r.buf[Place(r, i)]
  BY Zenon, ContentsAre
<1> HIDE DEF s
<1>8. s # <<>>
  BY <1>4, <1>6, EmptySeq
<1>9. /\ a \in Seq(Byte \cup {NULL}) /\ Len(a) = Count(r)
      /\ \A i \in 1 .. Count(r) : a[i] = s[i + 1]
  BY <1>4, <1>6, <1>8, HeadTailProperties
<1>10. \A i \in 1 .. Count(r) : r.buf[Place(r, i)] = q.buf[Place(q, i + 1)]
  BY Zenon, <1>1, <1>5
<1>11. \A i \in 1 .. Count(r) : Contents(r)[i] = a[i]
  BY <1>4, <1>6, <1>7, <1>9, <1>10
<1>12. Contents(r) = a
  BY Zenon, <1>7, <1>9, <1>11, SeqEqual
<1> QED BY Zenon, <1>8, <1>12 DEF s

(* A step that leaves the buffer alone leaves its contents alone. *)
LEMMA SameContents ==
  ASSUME NEW q, NEW r, Same(q, r)
  PROVE  Contents(r) = Contents(q)
BY Zenon DEF Same, Contents

(* Both queues are bounded first-in first-out buffers, of any size and     *)
(* whoever uses them: a step of the console is a put, a get or no step of  *)
(* each (intq_getc, intq_putc and the handlers that call them).            *)
THEOREM QueuesImplementFifo == Spec => QueuesAreFifos
<1>1. Init => In!Init /\ Out!Init
  <2> SUFFICES ASSUME Init PROVE \A k \in QueueName : Contents(intq[k]) = <<>>
    BY Zenon DEF In!Init, Out!Init, QueueName
  <2> TAKE k \in QueueName
  <2>1. intq[k] \in Queues /\ intq[k].head = 0 /\ intq[k].tail = 0
    BY Zenon, InitIInv DEF IInv, TypeOK, Queues, QueueName, Init
  <2>2. Count(intq[k]) = 0
    BY <2>1, CountIs
  <2> QED BY Zenon, <2>1, <2>2, ContentsAre, EmptySeq
<1>2. IInv /\ IInv' /\ QueueSteps
      => [In!Next]_(Contents(intq["buffer"])) /\ [Out!Next]_(Contents(intq["txq"]))
  <2> SUFFICES ASSUME IInv, IInv', QueueSteps
               PROVE  [In!Next]_(Contents(intq["buffer"])) /\ [Out!Next]_(Contents(intq["txq"]))
    BY Zenon
  <2>1. ASSUME NEW k \in QueueName
        PROVE  \/ Contents(intq'[k]) = Contents(intq[k])
               \/ \E b \in Byte : /\ Len(Contents(intq[k])) < INTQ_BUFSIZE - 1
                                  /\ Contents(intq'[k]) = Append(Contents(intq[k]), b)
               \/ Contents(intq[k]) # <<>> /\ Contents(intq'[k]) = Tail(Contents(intq[k]))
    <3>1. intq[k] \in Queues /\ intq'[k] \in Queues
      BY Zenon DEF IInv, TypeOK, Queues, QueueName
    <3>2. QueueStep(intq[k], intq'[k])
      BY Zenon DEF QueueSteps
    <3> QED BY Zenon, <3>1, <3>2, SameContents, PutContents, GetContents DEF QueueStep
  <2>2. [In!Next]_(Contents(intq["buffer"]))
    <3>1. "buffer" \in QueueName
      BY Zenon DEF QueueName
    <3>2. Contents(intq["buffer"])' = Contents(intq'["buffer"])
      BY Zenon DEF Contents
    <3> QED BY Zenon, <2>1, <3>1, <3>2 DEF In!Next, In!Put, In!Get
  <2>3. [Out!Next]_(Contents(intq["txq"]))
    <3>1. "txq" \in QueueName
      BY Zenon DEF QueueName
    <3>2. Contents(intq["txq"])' = Contents(intq'["txq"])
      BY Zenon DEF Contents
    <3> QED BY Zenon, <2>1, <3>1, <3>2 DEF Out!Next, Out!Put, Out!Get
  <2> QED BY Zenon, <2>2, <2>3
<1> QED BY <1>1, <1>2, NextIInv, Invariance, PTL DEF Spec, QueuesAreFifos, In!Spec, Out!Spec
=============================================================================
