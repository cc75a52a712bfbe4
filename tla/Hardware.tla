------------------------------ MODULE Hardware ------------------------------
(***************************************************************************)
(* What the kernel computes for, or from, registers of the machine: the    *)
(* time of devices/rtc.c, the counters of devices/pit.c, the loops of      *)
(* devices/timer.c, the speaker, the rate of the serial port, the strings  *)
(* of an IDE disk, the interrupt controllers, and the descriptors and the  *)
(* task state of userprog/gdt.c, userprog/tss.c and threads/interrupt.c.   *)
(***************************************************************************)
EXTENDS Integers, Sequences, SequencesExt

-----------------------------------------------------------------------------
(* rtc.c.  The clock's registers are <<sec, min, hour, mday, mon, year>>,  *)
(* in BCD: a byte is [tens, units].                                        *)

bcd_to_bin(x) == x.units + x.tens * 10

(* The reading loop, when the clock goes from the registers before to the  *)
(* registers after once, following the first u reads of registers: the     *)
(* components in binary.                                                   *)
ReadComponents(before, after, u) ==
  LET cmos_read(k, reg) == bcd_to_bin(IF k <= u THEN before[reg] ELSE after[reg])
      pass(k) == [reg \in 1 .. 6 |-> cmos_read(k + reg, reg)]
  IN IF pass(0)[1] = cmos_read(7, 1) THEN pass(0) ELSE pass(7)

(* rtc_get_time, as a number of days and the seconds of a day.  C's        *)
(* division rounds -1/4 to 0.                                              *)
days_per_month == <<31, 28, 31, 30, 31, 30, 31, 31, 30, 31, 30, 31>>
SumOf(s) == FoldLeft(LAMBDA x, y : x + y, 0, s)
rtc_get_time(t) ==
  LET mon == t[5]
      year == (IF t[6] < 70 THEN t[6] + 100 ELSE t[6]) - 70
      leaps == IF year = 0 THEN 0 ELSE (year - 1) \div 4
  IN [days |-> year * 365 + leaps + SumOf(SubSeq(days_per_month, 1, mon))
               + (IF mon > 2 /\ year % 4 = 0 THEN 1 ELSE 0) + t[4] - 1,
      secs |-> t[3] * 3600 + t[2] * 60 + t[1]]

-----------------------------------------------------------------------------
(* pit.c: the 16-bit count for a frequency. *)
PIT_HZ == 1193180
PitCount(frequency) ==
  IF frequency < 19 THEN 0
  ELSE IF frequency > PIT_HZ THEN 2
  ELSE ((PIT_HZ + frequency \div 2) \div frequency) % 65536

(* What the timer counts for it. *)
PitPeriod(frequency) == IF PitCount(frequency) = 0 THEN 65536 ELSE PitCount(frequency)

-----------------------------------------------------------------------------
(* timer.c, on a machine where the loops of one tick are Fit. *)
TIMER_FREQ == 100
too_many_loops(loops, fit) == loops > fit

RECURSIVE Doubled(_, _)
Doubled(loops, fit) == IF too_many_loops(2 * loops, fit) THEN loops ELSE Doubled(2 * loops, fit)

timer_calibrate(first, fit) ==
  LET high_bit == Doubled(first, fit)
      test(loops, i) == LET bit == high_bit \div 2 ^ i
                        IN IF too_many_loops(loops + bit, fit) THEN loops ELSE loops + bit
  IN FoldLeft(test, high_bit, [i \in 1 .. 9 |-> i])

(* busy_wait: how often its loop goes round.                               *)
busy_wait(loops) == IF loops > 0 THEN loops ELSE 0

(* real_time_sleep and real_time_delay: sleep for some ticks or loop.      *)
real_time_delay(num, denom, loops_per_tick) ==
  busy_wait((((loops_per_tick * num) \div 1000) * TIMER_FREQ) \div (denom \div 1000))
real_time_sleep(num, denom, loops_per_tick) ==
  LET ticks == (num * TIMER_FREQ) \div denom
  IN IF ticks > 0 THEN [ticks |-> ticks, loops |-> 0]
     ELSE [ticks |-> 0, loops |-> real_time_delay(num, denom, loops_per_tick)]

timer_msleep(ms, loops_per_tick) == real_time_sleep(ms, 1000, loops_per_tick)
timer_usleep(us, loops_per_tick) == real_time_sleep(us, 1000 * 1000, loops_per_tick)
timer_nsleep(ns, loops_per_tick) == real_time_sleep(ns, 1000 * 1000 * 1000, loops_per_tick)
timer_mdelay(ms, loops_per_tick) == real_time_delay(ms, 1000, loops_per_tick)
timer_udelay(us, loops_per_tick) == real_time_delay(us, 1000 * 1000, loops_per_tick)
timer_ndelay(ns, loops_per_tick) == real_time_delay(ns, 1000 * 1000 * 1000, loops_per_tick)

-----------------------------------------------------------------------------
(* speaker.c: s is [gate, count], the bits set in the port and the count   *)
(* of the timer's channel 2.                                               *)
SPEAKER_GATE_ENABLE == {0, 1}
speaker_off(s) == [s EXCEPT !.gate = @ \ SPEAKER_GATE_ENABLE]
speaker_on(s, frequency) ==
  IF frequency \in 20 .. 20000
  THEN [gate |-> s.gate \cup SPEAKER_GATE_ENABLE, count |-> PitCount(frequency)]
  ELSE speaker_off(s)

(* The states that the speaker goes through in a beep.                     *)
speaker_beep(s, level) ==
  IF level = "on" THEN <<speaker_on(s, 440), speaker_off(speaker_on(s, 440))>> ELSE <<>>

-----------------------------------------------------------------------------
(* serial.c: the two halves of the divisor for so many bits per second.    *)
set_serial(bps) ==
  LET divisor == (1843200 \div 16) \div bps
  IN [ls |-> divisor % 256, ms |-> divisor \div 256]

-----------------------------------------------------------------------------
(* interrupt.c: what pic_init writes, to the master and to the slave.  The *)
(* second word goes to a controller's base, the third says where the       *)
(* slave is.                                                               *)
Out(pic, port, value) == [pic |-> pic, port |-> port, value |-> value]
pic_init ==
  <<Out(0, "data", 255), Out(1, "data", 255),
    Out(0, "ctrl", 17), Out(0, "data", 32), Out(0, "data", 4), Out(0, "data", 1),
    Out(1, "ctrl", 17), Out(1, "data", 40), Out(1, "data", 2), Out(1, "data", 1),
    Out(0, "data", 0), Out(1, "data", 0)>>

(* A controller's reading of a write: external.  After 0x11 on its control *)
(* port it takes three words, any other data is its mask.                  *)
PicReset == [left |-> 0, base |-> 0, cascade |-> 0, mask |-> 0]
PicWrite(p, port, value) ==
  CASE port = "ctrl" -> [p EXCEPT !.left = 3, !.mask = 0]
    [] port = "data" /\ p.left = 3 -> [p EXCEPT !.left = 2, !.base = value]
    [] port = "data" /\ p.left = 2 -> [p EXCEPT !.left = 1, !.cascade = value]
    [] port = "data" /\ p.left = 1 -> [p EXCEPT !.left = 0]
    [] port = "data" /\ p.left = 0 -> [p EXCEPT !.mask = value]

-----------------------------------------------------------------------------
(* ide.c: descramble_ata_string, of a sequence of bytes.  The search for   *)
(* the end starts at the last byte but one.                                *)
IsBlank(c) == c \in {0, 32}
descramble_ata_string(string) ==
  LET size == Len(string)
      swapped == [i \in 1 .. size |->
                    IF i % 2 = 0 THEN string[i - 1] ELSE IF i < size THEN string[i + 1] ELSE string[i]]
      ends == {n \in 1 .. size - 1 : ~IsBlank(swapped[n])}
  IN SubSeq(swapped, 1, IF ends = {} THEN 0 ELSE CHOOSE n \in ends : \A m \in ends : m <= n)

-----------------------------------------------------------------------------
(* Descriptors are 64-bit words: the set of the positions of their ones.   *)

BitsOf(x) == {i \in 0 .. 30 : (x \div 2 ^ i) % 2 = 1}
Shift(bits, n) == {i + n : i \in bits} \cap 0 .. 31
Mask(bits, low, high) == bits \cap low .. high
Pack(e0, e1) == e0 \cup {i + 32 : i \in e1}

make_seg_desc(base, limit, class, type, dpl, granularity) ==
  Pack(Mask(limit, 0, 15) \cup Shift(base, 16),
       Mask(Shift(base, -16), 0, 7) \cup Shift(BitsOf(type), 8) \cup Shift(BitsOf(class), 12)
         \cup Shift(BitsOf(dpl), 13) \cup {15} \cup Mask(limit, 16, 19) \cup {22}
         \cup Shift(BitsOf(granularity), 23) \cup Mask(base, 24, 31))
make_code_desc(dpl) == make_seg_desc({}, 0 .. 19, 1, 10, dpl, 1)
make_data_desc(dpl) == make_seg_desc({}, 0 .. 19, 1, 2, dpl, 1)
make_tss_desc(laddr) == make_seg_desc(laddr, BitsOf(103), 0, 9, 0, 0)

SEL_KCSEG == 8
SEL_KDSEG == 16
SEL_UCSEG == 27
SEL_UDSEG == 35
SEL_TSS == 40

(* gdt_init: the table, by index, with the task state at tss, and the      *)
(* limit that is loaded with its address.                                  *)
gdt_init(tss) ==
  [gdt |-> [i \in 0 .. 5 |-> CASE i = 0 -> {}
                              [] i = SEL_KCSEG \div 8 -> make_code_desc(0)
                              [] i = SEL_KDSEG \div 8 -> make_data_desc(0)
                              [] i = SEL_UCSEG \div 8 -> make_code_desc(3)
                              [] i = SEL_UDSEG \div 8 -> make_data_desc(3)
                              [] i = SEL_TSS \div 8 -> make_tss_desc(tss)],
   limit |-> 6 * 8 - 1, tr |-> SEL_TSS]

(* tss_update, which tss_init ends with: the stack that the processor      *)
(* takes in ring 0.  A thread is the address of its page.                  *)
PGSIZE == 4096
tss_update(tss, thread) == [tss EXCEPT !.esp0 = thread + PGSIZE]
tss_init(thread) == tss_update([esp0 |-> 0, ss0 |-> SEL_KDSEG, bitmap |-> 57343], thread)

(* running_thread, from the stack pointer.                                 *)
running_thread(esp) == esp - (esp % PGSIZE)

make_gate(function, dpl, type) ==
  Pack(Mask(function, 0, 15) \cup Shift(BitsOf(SEL_KCSEG), 16),
       Mask(function, 16, 31) \cup {15} \cup Shift(BitsOf(dpl), 13) \cup Shift(BitsOf(type), 8))

(* The processor's reading of a segment descriptor and of a gate: external. *)
Part(d, low, high, to) == {i - low + to : i \in d \cap low .. high}
SegmentRead(d) ==
  [base |-> Part(d, 16, 39, 0) \cup Part(d, 56, 63, 24), limit |-> Part(d, 0, 15, 0) \cup Part(d, 48, 51, 16),
   type |-> Part(d, 40, 43, 0), class |-> Part(d, 44, 44, 0), dpl |-> Part(d, 45, 46, 0),
   present |-> 47 \in d, wide |-> 54 \in d, granularity |-> Part(d, 55, 55, 0)]
GateRead(d) ==
  [offset |-> Part(d, 0, 15, 0) \cup Part(d, 48, 63, 16), selector |-> Part(d, 16, 31, 0),
   type |-> Part(d, 40, 43, 0), system |-> 44 \notin d, dpl |-> Part(d, 45, 46, 0), present |-> 47 \in d]
=============================================================================
